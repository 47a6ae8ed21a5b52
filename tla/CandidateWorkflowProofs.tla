----------------------- MODULE CandidateWorkflowProofs -----------------------
(***************************************************************************)
(* The candidate workflows, for any library, number of requests, reviewers *)
(* and runs, over any number of stops: mutual exclusion, movies that are   *)
(* gone, types, one candidate per version, the tally of a job, and the     *)
(* rows a deletion holds.                                                  *)
(*                                                                         *)
(* candidate_workflow_lock is a variable like any other in the model, so   *)
(* exclusion has to be shown.  OneWorkflowAtATime alone is not inductive:  *)
(* LockHolder says who holds the lock when.                                *)
(***************************************************************************)
EXTENDS CandidateWorkflow, FiniteSetTheorems, WellFoundedInduction, TLAPS

\* Whoever is in its critical section holds the lock; job keeps its fields.
LockHolder ==
    /\ "pc" \in DOMAIN job
    /\ task \in {"scan", "auto"} => lock = task
    /\ job.pc \in {"next", "item"} => lock = "job"

\* The lock has one holder, so the critical sections exclude each other.
LEMMA HolderExcludes == LockHolder => OneWorkflowAtATime
  BY DEF LockHolder, OneWorkflowAtATime

\* Nothing runs in a process that has just started.
LEMMA InitHolder == Init => LockHolder
  BY DEF Init, LockHolder, NoJob

\* A step that leaves the three variables alone changes nothing.
LEMMA QuietHolder ==
    ASSUME LockHolder, UNCHANGED <<lock, task, job>>
    PROVE  LockHolder'
  BY DEF LockHolder

\* The API handlers take no lock and enter no critical section.
LEMMA HandlerHolder ==
    ASSUME LockHolder, HandlerNext
    PROVE  LockHolder'
<1>1. UNCHANGED <<lock, task, job>>
  BY DEF HandlerNext, Protect, RequestProtection, ApproveProtection, DenyProtection,
         CreateDeleteRequest, ReviewRead, ApproveCommit, ApproveEnqueue, ApproveEnqueueFails,
         DenyCommit, CancelCommit, ReviewFails, QueueDeletion, workflows
<1> QED
  BY <1>1, QuietHolder

\* The delete engine runs under the lock its caller took.
LEMMA DeleteHolder ==
    ASSUME LockHolder, NEW d \in Deleters, DeleteNext(d)
    PROVE  LockHolder'
<1>1. UNCHANGED <<lock, task, job>>
  BY DEF DeleteNext, DeleteFiles, CommitDelete, StageMovies
<1> QED
  BY <1>1, QuietHolder

\* A task takes the lock when it is free and gives it back when it ends; the
\* sync neither takes nor touches it.
LEMMA TaskHolder ==
    ASSUME LockHolder, TaskNext
    PROVE  LockHolder'
<1>1. CASE ScanRead
  BY <1>1 DEF ScanRead, LockHolder
<1>2. CASE ScanCommit
  BY <1>2 DEF ScanCommit, LockHolder
<1>3. CASE ScanFails
  BY <1>3 DEF ScanFails, LockHolder
<1>4. CASE SyncGather \/ SyncRemove \/ SyncFails
  BY <1>4 DEF SyncGather, SyncRemove, SyncFails, LockHolder
<1>5. CASE SyncLoad \/ \E m \in sync.todo : SyncUpsert(m)
  BY <1>5, QuietHolder DEF SyncLoad, SyncUpsert
<1>6. CASE AutoStart
  BY <1>6 DEF AutoStart, LockHolder
<1>7. CASE AutoSelect
  BY <1>7, QuietHolder DEF AutoSelect
<1>8. CASE DeleteNext("auto")
  BY <1>8, DeleteHolder DEF Deleters
<1>9. CASE AutoEnd
  BY <1>9 DEF AutoEnd, LockHolder
<1> QED
  BY <1>1, <1>2, <1>3, <1>4, <1>5, <1>6, <1>7, <1>8, <1>9 DEF TaskNext

\* A job takes the lock when it is free and gives it back however it ends.
LEMMA JobHolder ==
    ASSUME LockHolder, JobNextState
    PROVE  LockHolder'
<1>1. CASE JobClaim
  BY <1>1 DEF JobClaim, NoJob, LockHolder
<1>2. CASE JobLock
  BY <1>2 DEF JobLock, LockHolder
<1>3. ASSUME NEW i \in job.todo, JobNext(i)
      PROVE  LockHolder'
  BY <1>3 DEF JobNext, LockHolder
<1>4. ASSUME NEW i \in job.todo, JobPruneBlocked(i)
      PROVE  LockHolder'
  BY <1>4 DEF JobPruneBlocked, LockHolder
<1>5. CASE DeleteNext("job")
  BY <1>5, DeleteHolder DEF Deleters
<1>6. CASE JobItemDone
  BY <1>6 DEF JobItemDone, LockHolder
<1>7. CASE JobEnd
  BY <1>7 DEF JobEnd, NoJob, LockHolder
<1>8. CASE JobRaises
  BY <1>8 DEF JobRaises, NoJob, LockHolder
<1>9. CASE JobAborts
  BY <1>9 DEF JobAborts, NoJob, LockHolder
<1> QED
  BY <1>1, <1>2, <1>3, <1>4, <1>5, <1>6, <1>7, <1>8, <1>9 DEF JobNextState, JobStep

\* A file that vanishes changes nothing else.
LEMMA VanishHolder ==
    ASSUME LockHolder, NEW f \in files, FileVanishes(f)
    PROVE  LockHolder'
  BY QuietHolder DEF FileVanishes, workflows

\* A stop frees the lock together with everything that could hold it.
LEMMA StopHolder ==
    ASSUME LockHolder, Stop
    PROVE  LockHolder'
  BY DEF Stop, NoJob, LockHolder

\* candidate_workflow_lock is held by the workflow that runs, in every
\* reachable state.
THEOREM HolderHolds == Spec => []LockHolder
<1>1. LockHolder /\ [Next]_vars => LockHolder'
  <2> SUFFICES ASSUME LockHolder, [Next]_vars
               PROVE  LockHolder'
    OBVIOUS
  <2>1. CASE UNCHANGED vars
    BY <2>1, QuietHolder DEF vars, workflows
  <2> QED
    BY <2>1, HandlerHolder, TaskHolder, JobHolder, VanishHolder, StopHolder DEF Next
<1> QED
  BY <1>1, InitHolder, PTL DEF Spec

\* The scan, the automatic deletion and the jobs never run at the same time
\* ("candidate scans, tag reconciliation, and file operations must not race").
THEOREM WorkflowsExclude == Spec => []OneWorkflowAtATime
  BY HolderHolds, HolderExcludes, PTL

-----------------------------------------------------------------------------
(* A movie that is marked as removed is gone.                              *)

\* The deletions in progress keep their fields.
OpShape ==
    /\ DOMAIN op = Deleters
    /\ \A d \in Deleters : {"pc", "rows", "current"} \subseteq DOMAIN op[d]

\* Of a movie the database knows all the files the server holds, or none.
VersionsCover == \A f \in files, g \in versions : f[1] = g[1] => f \in versions

\* The files a deletion is about are files of the candidate's movie.
WorkIsOfMovie ==
    \A d \in Deleters : \A w \in op[d].rows \cup op[d].current :
        /\ w = [row |-> w.row, files |-> w.files]
        /\ \A g \in w.files : g[1] = w.row.movie

\* A whole movie is deleted with all the files the server holds, or skipped.
StagedCover ==
    \A d \in Deleters : op[d].pc = "movies" =>
        \A w \in op[d].rows : w.files # {} =>
            \A f \in files : f[1] = w.row.movie => f \in w.files

\* Between the deletion of the files and the commit the files are gone.
CurrentGone ==
    \A d \in Deleters : \A w \in op[d].current :
        /\ w.files \cap files = {}
        /\ w.row.copy = Whole => \A f \in files : f[1] # w.row.movie

\* What a sync has gathered is at most too much: files only go meanwhile.
SyncCovers ==
    /\ {"found", "loaded", "active", "todo"} \subseteq DOMAIN sync
    /\ task = "sync" => files \subseteq sync.found
    /\ sync.todo # {} => task = "sync"

\* The steps that leave the sync as it is.
SyncStays == sync' = sync /\ (task' = task \/ (task # "sync" /\ task' # "sync"))

GoneInv ==
    /\ OpShape /\ VersionsCover /\ WorkIsOfMovie /\ StagedCover /\ CurrentGone /\ SyncCovers
    /\ RemovedMeansGone

\* Nothing is removed and nothing is being deleted at the start.
LEMMA InitGone == Init => GoneInv
  BY DEF Init, NoOp, NoSync, GoneInv, OpShape, VersionsCover, WorkIsOfMovie, StagedCover,
         CurrentGone, SyncCovers, RemovedMeansGone

\* What was gathered stays enough while files only go.
LEMMA SyncQuiet ==
    ASSUME SyncCovers, SyncStays, files' \subseteq files
    PROVE  SyncCovers'
  BY DEF SyncCovers, SyncStays

\* A step that leaves files, versions, removals and deletions alone.
LEMMA QuietGone ==
    ASSUME GoneInv, SyncStays, UNCHANGED <<files, versions, removed, op>>
    PROVE  GoneInv'
<1>1. SyncCovers'
  BY SyncQuiet DEF GoneInv
<1> QED
  BY <1>1 DEF GoneInv, OpShape, VersionsCover, WorkIsOfMovie, StagedCover, CurrentGone,
              RemovedMeansGone

\* A deletion that ends, or is dropped, leaves nothing behind.
LEMMA EndGone ==
    ASSUME GoneInv, SyncStays, NEW d \in Deleters, op' = [op EXCEPT ![d] = NoOp],
           UNCHANGED <<files, versions, removed>>
    PROVE  GoneInv'
<1>1. OpShape'
  BY DEF GoneInv, OpShape, NoOp
<1>2. op'[d] = NoOp /\ \A e \in Deleters : e # d => op'[e] = op[e]
  BY DEF GoneInv, OpShape
<1>3. WorkIsOfMovie' /\ StagedCover' /\ CurrentGone'
  BY <1>2 DEF GoneInv, WorkIsOfMovie, StagedCover, CurrentGone, NoOp
<1>4. SyncCovers'
  BY SyncQuiet DEF GoneInv
<1> QED
  BY <1>1, <1>3, <1>4 DEF GoneInv, VersionsCover, RemovedMeansGone

\* A deletion begins with the versions its candidates name.
LEMMA BeginGone ==
    ASSUME GoneInv, SyncStays, NEW d \in Deleters, NEW S, BeginDelete(d, S),
           UNCHANGED <<files, versions, removed>>
    PROVE  GoneInv'
<1> DEFINE Begun == [pc |-> "versions", rows |-> Targets(S), current |-> {},
                     found |-> Cardinality(RowsOf(S)), deleted |-> 0]
<1>1. op' = [op EXCEPT ![d] = Begun]
  BY DEF BeginDelete
<1>2. OpShape'
  BY <1>1 DEF GoneInv, OpShape
<1>3. op'[d] = Begun /\ \A e \in Deleters : e # d => op'[e] = op[e]
  BY <1>1 DEF GoneInv, OpShape
<1>4. \A w \in Begun.rows : /\ w = [row |-> w.row, files |-> w.files]
                             /\ \A g \in w.files : g[1] = w.row.movie
  BY DEF Targets
<1>5. WorkIsOfMovie'
  BY <1>3, <1>4 DEF GoneInv, WorkIsOfMovie
<1>6. StagedCover' /\ CurrentGone'
  BY <1>3 DEF GoneInv, StagedCover, CurrentGone
<1>7. SyncCovers'
  BY SyncQuiet DEF GoneInv
<1> QED
  BY <1>2, <1>5, <1>6, <1>7 DEF GoneInv, VersionsCover, RemovedMeansGone

\* Files only go; those of a deletion that succeeds are all gone.
LEMMA FilesGone ==
    ASSUME GoneInv, NEW d \in Deleters, NEW w \in op[d].rows, DeleteFiles(d, w)
    PROVE  GoneInv'
<1>1. PICK S \in SUBSET w.files, success \in BOOLEAN :
          /\ success => S = w.files /\ S # {}
          /\ files' = files \ S
          /\ op' = [op EXCEPT ![d].rows = @ \ {w}, ![d].current = IF success THEN {w} ELSE {}]
  BY DEF DeleteFiles
<1>2. /\ op[d].pc = IF w.row.copy = Whole THEN "movies" ELSE "versions"
      /\ UNCHANGED <<versions, removed>>
  BY DEF DeleteFiles, tables
<1>3. OpShape'
  BY <1>1 DEF GoneInv, OpShape
<1>4. /\ op'[d].pc = op[d].pc
      /\ op'[d].rows = op[d].rows \ {w}
      /\ op'[d].current = IF success THEN {w} ELSE {}
      /\ \A e \in Deleters : e # d => op'[e] = op[e]
  BY <1>1 DEF GoneInv, OpShape
<1>5. files' \subseteq files
  BY <1>1
<1>6. VersionsCover' /\ RemovedMeansGone'
  BY <1>2, <1>5 DEF GoneInv, VersionsCover, RemovedMeansGone
<1>7. WorkIsOfMovie'
  BY <1>4 DEF GoneInv, WorkIsOfMovie
<1>8. StagedCover'
  BY <1>4, <1>5 DEF GoneInv, StagedCover
<1>9. CurrentGone'
  <2>1. success => w.files \cap files' = {}
    BY <1>1
  <2>2. ASSUME success, w.row.copy = Whole, NEW f \in files', f[1] = w.row.movie
        PROVE  FALSE
    <3>1. w.files # {}
      BY <1>1, <2>2
    <3>2. f \in w.files
      BY <1>2, <1>5, <2>2, <3>1 DEF GoneInv, StagedCover
    <3> QED
      BY <2>1, <2>2, <3>2
  <2> QED
    BY <1>4, <1>5, <2>1, <2>2 DEF GoneInv, CurrentGone
<1>10. SyncCovers'
  BY <1>5, SyncQuiet DEF GoneInv, DeleteFiles, SyncStays
<1> QED
  BY <1>3, <1>6, <1>7, <1>8, <1>9, <1>10 DEF GoneInv

\* A movie is marked as removed once its files, or its last version, are gone.
LEMMA CommitGone ==
    ASSUME GoneInv, NEW d \in Deleters, CommitDelete(d)
    PROVE  GoneInv'
<1>1. PICK w \in op[d].current :
          /\ IF w.row.copy = Whole
             THEN removed' = removed \cup {w.row.movie} /\ UNCHANGED versions
             ELSE /\ versions' = versions \ w.files
                  /\ removed' = IF NowEmpty(w) THEN removed \cup {w.row.movie} ELSE removed
          /\ op' = [op EXCEPT ![d].current = {}, ![d].deleted = @ + 1]
          /\ UNCHANGED files
  BY DEF CommitDelete
<1>2. OpShape'
  BY <1>1 DEF GoneInv, OpShape
<1>3. /\ op'[d].pc = op[d].pc
      /\ op'[d].rows = op[d].rows
      /\ op'[d].current = {}
      /\ \A e \in Deleters : e # d => op'[e] = op[e]
  BY <1>1 DEF GoneInv, OpShape
<1>4. w.files \cap files = {}
  BY DEF GoneInv, CurrentGone
<1>5. VersionsCover'
  <2>1. versions' = versions \/ versions' = versions \ w.files
    BY <1>1
  <2>2. \A f \in files, g \in versions : f[1] = g[1] => f \in versions \ w.files
    BY <1>4 DEF GoneInv, VersionsCover
  <2> QED
    BY <1>1, <2>1, <2>2 DEF VersionsCover
<1>6. WorkIsOfMovie' /\ StagedCover' /\ CurrentGone'
  <2>1. files' = files
    BY <1>1
  <2>2. \A e \in Deleters : /\ op'[e].pc = op[e].pc /\ op'[e].rows = op[e].rows
                            /\ op'[e].current \subseteq op[e].current
    BY <1>3
  <2>3. WorkIsOfMovie'
    BY <2>2 DEF GoneInv, WorkIsOfMovie
  <2>4. StagedCover'
    BY <2>1, <2>2 DEF GoneInv, StagedCover
  <2>5. CurrentGone'
    BY <2>1, <2>2 DEF GoneInv, CurrentGone
  <2> QED
    BY <2>3, <2>4, <2>5
<1>7. RemovedMeansGone'
  <2>1. CASE w.row.copy = Whole
    BY <1>1, <2>1 DEF GoneInv, CurrentGone, RemovedMeansGone
  <2>2. CASE w.row.copy # Whole /\ NowEmpty(w)
    <3>1. PICK g \in w.files : g \in versions
      BY <2>2 DEF NowEmpty
    <3>2. g[1] = w.row.movie
      BY DEF GoneInv, WorkIsOfMovie
    <3>3. \A f \in files : f[1] = w.row.movie => f \in w.files
      BY <2>2, <3>1, <3>2 DEF GoneInv, VersionsCover, NowEmpty, FilesOf
    <3> QED
      BY <1>1, <1>4, <2>2, <3>3 DEF GoneInv, RemovedMeansGone
  <2>3. CASE w.row.copy # Whole /\ ~NowEmpty(w)
    BY <1>1, <2>3 DEF GoneInv, RemovedMeansGone
  <2> QED
    BY <2>1, <2>2, <2>3
<1>8. SyncCovers'
  BY <1>1, SyncQuiet DEF GoneInv, CommitDelete, SyncStays
<1> QED
  BY <1>2, <1>5, <1>6, <1>7, <1>8 DEF GoneInv

\* Whole movies are staged with the versions known by then: all files, or none.
LEMMA StageGone ==
    ASSUME GoneInv, NEW d \in Deleters, StageMovies(d)
    PROVE  GoneInv'
<1> DEFINE Staged == {[w EXCEPT !.files = FilesOf(w.row.movie)] : w \in op[d].rows}
<1>1. /\ op[d].current = {}
      /\ op' = [op EXCEPT ![d].pc = "movies", ![d].rows = Staged]
      /\ UNCHANGED <<files, versions, removed>>
  BY DEF StageMovies, tables
<1>2. OpShape'
  BY <1>1 DEF GoneInv, OpShape
<1>3. /\ op'[d].rows = Staged
      /\ op'[d].current = {}
      /\ \A e \in Deleters : e # d => op'[e] = op[e]
  BY <1>1 DEF GoneInv, OpShape
<1>4. \A v \in Staged : /\ v = [row |-> v.row, files |-> v.files]
                        /\ v.files = FilesOf(v.row.movie)
  <2> SUFFICES ASSUME NEW w \in op[d].rows
               PROVE  [w EXCEPT !.files = FilesOf(w.row.movie)]
                          = [row |-> w.row, files |-> FilesOf(w.row.movie)]
    OBVIOUS
  <2> QED
    BY DEF GoneInv, WorkIsOfMovie
<1>5. WorkIsOfMovie'
  BY <1>3, <1>4 DEF GoneInv, WorkIsOfMovie, FilesOf
<1>6. StagedCover'
  <2>1. ASSUME NEW v \in Staged, v.files # {}, NEW f \in files, f[1] = v.row.movie
        PROVE  f \in v.files
    <3>1. PICK g \in versions : g[1] = v.row.movie
      BY <1>4, <2>1 DEF FilesOf
    <3>2. f \in versions
      BY <2>1, <3>1 DEF GoneInv, VersionsCover
    <3> QED
      BY <1>4, <2>1, <3>2 DEF FilesOf
  <2>2. \A e \in Deleters : e # d => op'[e] = op[e]
    BY <1>3
  <2> QED
    BY <1>1, <1>3, <2>1, <2>2 DEF GoneInv, StagedCover
<1>7. CurrentGone' /\ VersionsCover' /\ RemovedMeansGone'
  BY <1>1, <1>3 DEF GoneInv, CurrentGone, VersionsCover, RemovedMeansGone
<1>8. SyncCovers'
  BY <1>1, SyncQuiet DEF GoneInv, StageMovies, SyncStays
<1> QED
  BY <1>2, <1>5, <1>6, <1>7, <1>8 DEF GoneInv

\* A sync takes the versions of a movie from what it gathered, and removes the
\* movies of which it gathered nothing: what it gathered covers the files.
LEMMA SyncGone ==
    ASSUME GoneInv,
           \/ SyncGather \/ SyncLoad \/ (\E m \in sync.todo : SyncUpsert(m))
           \/ SyncRemove \/ SyncFails
    PROVE  GoneInv'
<1>1. UNCHANGED <<files, op>>
  BY DEF SyncGather, SyncLoad, SyncUpsert, SyncRemove, SyncFails
<1>2. OpShape' /\ WorkIsOfMovie' /\ StagedCover' /\ CurrentGone'
  BY <1>1 DEF GoneInv, OpShape, WorkIsOfMovie, StagedCover, CurrentGone
<1>3. CASE SyncGather
  <2>1. SyncCovers'
    BY <1>3 DEF GoneInv, SyncCovers, SyncGather, NoSync
  <2>2. UNCHANGED <<versions, removed>>
    BY <1>3 DEF SyncGather, tables
  <2> QED
    BY <1>1, <1>2, <2>1, <2>2 DEF GoneInv, VersionsCover, RemovedMeansGone
<1>4. CASE SyncLoad
  <2>1. SyncCovers'
    BY <1>4 DEF GoneInv, SyncCovers, SyncLoad
  <2>2. UNCHANGED <<versions, removed>>
    BY <1>4 DEF SyncLoad, tables
  <2> QED
    BY <1>1, <1>2, <2>1, <2>2 DEF GoneInv, VersionsCover, RemovedMeansGone
<1>5. ASSUME NEW m \in sync.todo, SyncUpsert(m)
      PROVE  GoneInv'
  <2>1. task = "sync" /\ files \subseteq sync.found
    BY DEF GoneInv, SyncCovers
  <2>2. SyncCovers'
    BY <1>5, <2>1 DEF GoneInv, SyncCovers, SyncUpsert
  <2>3. VersionsCover'
    BY <1>1, <1>5, <2>1 DEF GoneInv, VersionsCover, SyncUpsert, FilesOf
  <2>4. removed' \subseteq removed
    BY <1>5 DEF SyncUpsert, Restored
  <2> QED
    BY <1>1, <1>2, <2>2, <2>3, <2>4 DEF GoneInv, RemovedMeansGone
<1>6. CASE SyncRemove
  <2>1. files \subseteq sync.found
    BY <1>6 DEF GoneInv, SyncCovers, SyncRemove
  <2>2. removed' = removed \cup NotListed /\ UNCHANGED versions
    BY <1>6 DEF SyncRemove
  <2>3. RemovedMeansGone'
    BY <1>1, <2>1, <2>2 DEF GoneInv, RemovedMeansGone, NotListed
  <2>4. SyncCovers'
    BY <1>6 DEF SyncCovers, SyncRemove, NoSync
  <2> QED
    BY <1>1, <1>2, <2>2, <2>3, <2>4 DEF GoneInv, VersionsCover
<1>7. CASE SyncFails
  <2>1. SyncCovers'
    BY <1>7 DEF SyncCovers, SyncFails, NoSync
  <2>2. UNCHANGED <<versions, removed>>
    BY <1>7 DEF SyncFails, tables
  <2> QED
    BY <1>1, <1>2, <2>1, <2>2 DEF GoneInv, VersionsCover, RemovedMeansGone
<1> QED
  BY <1>3, <1>4, <1>5, <1>6, <1>7

\* A file that vanishes is one file less everywhere.
LEMMA VanishGone ==
    ASSUME GoneInv, NEW f \in files, FileVanishes(f)
    PROVE  GoneInv'
<1>1. files' \subseteq files /\ UNCHANGED <<versions, removed, op>>
  BY DEF FileVanishes, tables, workflows
<1>2. SyncCovers'
  BY <1>1, SyncQuiet DEF GoneInv, FileVanishes, workflows, SyncStays
<1>3. StagedCover' /\ CurrentGone'
  BY <1>1 DEF GoneInv, StagedCover, CurrentGone
<1> QED
  BY <1>1, <1>2, <1>3 DEF GoneInv, OpShape, VersionsCover, WorkIsOfMovie, RemovedMeansGone

\* The steps of the delete engine.
LEMMA DeleteGone ==
    ASSUME GoneInv, NEW d \in Deleters, DeleteNext(d)
    PROVE  GoneInv'
  BY FilesGone, CommitGone, StageGone DEF DeleteNext

\* A stop leaves files and rows as they are and drops the deletions.
LEMMA StopGone ==
    ASSUME GoneInv, Stop
    PROVE  GoneInv'
<1>1. op' = [d \in Deleters |-> NoOp] /\ UNCHANGED <<files, versions, removed>>
  BY DEF Stop, tables
<1>2. SyncCovers'
  BY DEF Stop, SyncCovers, NoSync
<1> QED
  BY <1>1, <1>2 DEF GoneInv, OpShape, VersionsCover, WorkIsOfMovie, StagedCover, CurrentGone,
              RemovedMeansGone, NoOp

LEMMA TaskGone ==
    ASSUME GoneInv, TaskNext
    PROVE  GoneInv'
<1>1. CASE ScanRead \/ ScanCommit \/ ScanFails \/ AutoStart
  BY <1>1, QuietGone DEF ScanRead, ScanCommit, ScanFails, AutoStart, tables, SyncStays
<1>2. CASE \/ SyncGather \/ SyncLoad \/ (\E m \in sync.todo : SyncUpsert(m))
           \/ SyncRemove \/ SyncFails
  BY <1>2, SyncGone
<1>3. CASE AutoSelect
  BY <1>3, BeginGone DEF AutoSelect, Deleters, tables, SyncStays
<1>4. CASE DeleteNext("auto")
  BY <1>4, DeleteGone DEF Deleters
<1>5. CASE AutoEnd
  BY <1>5, EndGone DEF AutoEnd, Deleters, tables, SyncStays
<1> QED
  BY <1>1, <1>2, <1>3, <1>4, <1>5 DEF TaskNext

LEMMA JobGone ==
    ASSUME GoneInv, JobNextState
    PROVE  GoneInv'
<1>1. CASE JobClaim \/ JobLock \/ JobEnd \/ JobRaises \/ JobAborts
  BY <1>1, QuietGone DEF JobClaim, JobLock, JobEnd, JobRaises, JobAborts, tables, SyncStays
<1>2. ASSUME NEW i \in job.todo, JobNext(i)
      PROVE  GoneInv'
  BY <1>2, BeginGone DEF JobNext, Deleters, tables, SyncStays
<1>3. ASSUME NEW i \in job.todo, JobPruneBlocked(i)
      PROVE  GoneInv'
  BY <1>3, QuietGone DEF JobPruneBlocked, tables, SyncStays
<1>4. CASE DeleteNext("job")
  BY <1>4, DeleteGone DEF Deleters
<1>5. CASE JobItemDone
  BY <1>5, EndGone DEF JobItemDone, Deleters, tables, SyncStays
<1> QED
  BY <1>1, <1>2, <1>3, <1>4, <1>5 DEF JobNextState, JobStep

\* The API handlers delete no file and mark no movie.
LEMMA HandlerGone ==
    ASSUME GoneInv, HandlerNext
    PROVE  GoneInv'
<1>1. SyncStays /\ UNCHANGED <<files, versions, removed, op>>
  BY DEF SyncStays, HandlerNext, Protect, RequestProtection, ApproveProtection, DenyProtection,
         CreateDeleteRequest, ReviewRead, ApproveCommit, ApproveEnqueue, ApproveEnqueueFails,
         DenyCommit, CancelCommit, ReviewFails, QueueDeletion, workflows, tables
<1> QED
  BY <1>1, QuietGone

\* The inductive invariant behind RemovedIsGone.
THEOREM GoneHolds == Spec => []GoneInv
<1>1. GoneInv /\ [Next]_vars => GoneInv'
  <2> SUFFICES ASSUME GoneInv, [Next]_vars
               PROVE  GoneInv'
    OBVIOUS
  <2>1. CASE UNCHANGED vars
    BY <2>1, QuietGone DEF vars, tables, workflows, SyncStays
  <2> QED
    BY <2>1, HandlerGone, TaskGone, JobGone, VanishGone, StopGone DEF Next
<1> QED
  BY <1>1, InitGone, PTL DEF Spec

\* A movie is marked as removed (removed_at) only when the media server holds no
\* file of it, for any library and over any number of failures, syncs and stops.
THEOREM RemovedIsGone == Spec => []RemovedMeansGone
<1>1. GoneInv => RemovedMeansGone
  BY DEF GoneInv
<1> QED
  BY <1>1, GoneHolds, PTL

-----------------------------------------------------------------------------
(* Types, one candidate per version, and the tally of a job.               *)

\* Each candidate has its own id, and each version at most one candidate.
Listed ==
    /\ candidates \subseteq Candidate
    /\ \A c, e \in candidates : c.id = e.id => c = e
    /\ OneCandidatePerVersion

FilesTyped == files \subseteq Library /\ versions \subseteq Library /\ removed \subseteq Movies

AskedTyped ==
    /\ request \in [Requests -> [status : {"NONE", "PENDING", "APPROVED", "DENIED", "CANCELLED"},
                                 movie : Movies, outcome : SUBSET {"executed", "error"}]]
    /\ protections \subseteq Movies \X {"manual", "rule"}
    /\ asked \subseteq [movie : Movies, candidate : Nat]

\* A review has a request, and after its commit the candidate it made.
ReviewsTyped ==
    /\ review \in [Reviewers -> [pc : {"idle", "approve", "approved", "deny", "cancel"},
                                 request : Requests \cup {NoRequest}, candidate : Nat]]
    /\ \A g \in Reviewers : /\ review[g].pc # "idle" => review[g].request \in Requests
                            /\ review[g].pc = "approved" => review[g].candidate \in Ids

QueueTyped == queue \in Seq([ids : SUBSET Ids, request : Requests \cup {NoRequest}])

TasksTyped ==
    /\ lock \in {"free", "scan", "auto", "job"}
    /\ task \in {"none", "scan", "sync", "auto"}
    /\ scan \in [records : SUBSET Library, protect : SUBSET Movies]
    /\ sync \in [found : SUBSET Library, loaded : BOOLEAN, active : SUBSET Movies,
                 todo : SUBSET Movies]

Work == [row : Candidate, files : SUBSET Library]
Deletion == [pc : {"idle", "versions", "movies"}, rows : SUBSET Work, current : SUBSET Work,
             found : Nat, deleted : Nat]

\* A job's deletion is of one candidate at most, which waits, is being deleted,
\* or is done with.
OneItem(o) ==
    /\ o.found \in {0, 1} /\ o.deleted <= o.found
    /\ \A w, v \in o.rows \cup o.current : w = v
    /\ o.rows = {} \/ o.current = {}
    /\ o.rows # {} \/ o.current # {} => o.found = 1 /\ o.deleted = 0

JobTyped ==
    /\ job \in [pc : {"none", "waiting", "next", "item"}, ids : SUBSET Ids, todo : SUBSET Ids,
                succeeded : Nat, failed : Nat, request : Requests \cup {NoRequest}]
    /\ JobTally

DeletionsTyped ==
    /\ op \in [Deleters -> Deletion]
    /\ job.pc = "item" => OneItem(op["job"])

UsedTyped == used \in [Bounds -> Nat]

WInv ==
    /\ Listed /\ FilesTyped /\ AskedTyped /\ ReviewsTyped /\ QueueTyped /\ TasksTyped
    /\ DeletionsTyped /\ JobTyped /\ UsedTyped

\* The parts are the type invariant.
LEMMA WInvTyped == WInv => TypeOK
  BY DEF WInv, Listed, FilesTyped, AskedTyped, ReviewsTyped, QueueTyped, TasksTyped,
         DeletionsTyped, JobTyped, UsedTyped, Work, Deletion, TypeOK

\* A family of subsets of a finite set has a smallest one.
LEMMA Smallest ==
    ASSUME NEW I, IsFiniteSet(I), NEW T \in SUBSET SUBSET I, T # {}
    PROVE  \E U \in T : \A V \in T : ~(<<V, U>> \in StrictSubsetOrdering(I))
<1>1. IsWellFoundedOn(StrictSubsetOrdering(I), SUBSET I)
  BY FS_FiniteSubsetsOfFinite, FS_StrictSubsetOrderingWellFounded
<1> QED
  BY <1>1, WFMin

\* A finite set of numbers has a highest one: nothing is above it.
LEMMA Highest ==
    ASSUME NEW I \in SUBSET Nat, IsFiniteSet(I), I # {}
    PROVE  \E i \in I : \A j \in I : j <= i
<1> DEFINE Above(i) == {j \in I : j > i}
           T == {Above(i) : i \in I}
<1>1. T \in SUBSET SUBSET I /\ T # {}
  OBVIOUS
<1>2. PICK U \in T : \A V \in T : ~(<<V, U>> \in StrictSubsetOrdering(I))
  <2> HIDE DEF T
  <2> QED
    BY <1>1, Smallest
<1>3. PICK i \in I : U = Above(i)
  OBVIOUS
<1>4. ASSUME NEW j \in I, j > i
      PROVE  FALSE
  <2>1. i \in Nat /\ j \in Nat /\ \A k \in I : k \in Nat
    OBVIOUS
  <2>2. \A k \in I : k > j => k > i
    BY <1>4, <2>1
  <2>3. Above(j) \subseteq Above(i)
    BY <2>2
  <2>4. j \in Above(i) /\ j \notin Above(j)
    BY <1>4, <2>1
  <2>5. <<Above(j), U>> \in StrictSubsetOrdering(I)
    BY <2>3, <2>4, <1>3 DEF StrictSubsetOrdering
  <2> QED
    BY <1>2, <2>5
<1> QED
  BY <1>4

\* Ids are finitely many numbers.
LEMMA IdsFinite == Ids \in SUBSET Nat /\ IsFiniteSet(Ids)
<1>1. MaxId \in Nat
  BY WorkflowAssumption
<1> QED
  BY <1>1, FS_Interval DEF Ids

\* The id of a new row is above those of all rows.
LEMMA NextIdIsNew ==
    ASSUME Listed
    PROVE  NextId \in Nat \ {0} /\ \A c \in candidates : c.id < NextId
<1> DEFINE I == {c.id : c \in candidates}
<1>1. I \in SUBSET Ids
  BY DEF Listed, Candidate
<1>2. I \in SUBSET Nat /\ IsFiniteSet(I)
  <2> HIDE DEF I
  <2> QED
    BY <1>1, IdsFinite, FS_Subset
<1>3. CASE candidates = {}
  BY <1>3 DEF NextId
<1>4. CASE candidates # {}
  <2>1. I # {}
    BY <1>4
  <2>2. \E i \in I : \A j \in I : j <= i
    <3> HIDE DEF I
    <3> QED
      BY <1>2, <2>1, Highest
  <2> DEFINE top == CHOOSE i \in I : \A c \in candidates : c.id <= i
  <2>3. top \in I /\ \A c \in candidates : c.id <= top
    BY <2>2
  <2>4. NextId = 1 + top
    BY <1>4 DEF NextId
  <2> HIDE DEF top
  <2> QED
    BY <1>2, <2>3, <2>4
<1> QED
  BY <1>3, <1>4

\* There are finitely many candidates, and one of each id at most.
LEMMA RowCount ==
    ASSUME Listed, NEW S
    PROVE  /\ Cardinality(RowsOf(S)) \in Nat
           /\ \A i : \/ RowsOf({i}) = {} /\ Cardinality(RowsOf({i})) = 0
                     \/ \E c \in candidates : RowsOf({i}) = {c} /\ Cardinality(RowsOf({i})) = 1
<1> DEFINE f == [c \in candidates |-> c.id]
<1>1. f \in Injection(candidates, Ids)
  BY DEF Listed, Candidate, Injection, IsInjective
<1>2. IsFiniteSet(candidates)
  <2> HIDE DEF f
  <2> QED
    BY <1>1, IdsFinite, FS_Injection
<1>3. RowsOf(S) \in SUBSET candidates
  BY DEF RowsOf
<1>4. Cardinality(RowsOf(S)) \in Nat
  BY <1>2, <1>3, FS_Subset, FS_CardinalityType
<1>5. ASSUME NEW i
      PROVE  \/ RowsOf({i}) = {} /\ Cardinality(RowsOf({i})) = 0
             \/ \E c \in candidates : RowsOf({i}) = {c} /\ Cardinality(RowsOf({i})) = 1
  <2>1. CASE RowsOf({i}) = {}
    BY <2>1, FS_EmptySet
  <2>2. CASE RowsOf({i}) # {}
    <3>1. PICK c \in candidates : c.id = i
      BY <2>2 DEF RowsOf
    <3>2. RowsOf({i}) = {c}
      BY <3>1 DEF RowsOf, Listed
    <3> QED
      BY <3>2, FS_Singleton
  <2> QED
    BY <2>1, <2>2
<1> QED
  BY <1>4, <1>5

\* What a step leaves alone keeps its type.
LEMMA Untouched ==
    ASSUME WInv
    PROVE  /\ UNCHANGED candidates => Listed'
           /\ UNCHANGED <<files, versions, removed>> => FilesTyped'
           /\ UNCHANGED <<request, protections, asked>> => AskedTyped'
           /\ UNCHANGED review => ReviewsTyped'
           /\ UNCHANGED queue => QueueTyped'
           /\ UNCHANGED <<lock, task, scan, sync>> => TasksTyped'
           /\ UNCHANGED <<op, job>> => DeletionsTyped'
           /\ UNCHANGED job => JobTyped'
           /\ UNCHANGED used => UsedTyped'
<1>1. UNCHANGED candidates => Listed'
  BY DEF WInv, Listed, OneCandidatePerVersion
<1>2. UNCHANGED <<op, job>> => DeletionsTyped'
  BY DEF WInv, DeletionsTyped, OneItem
<1>3. UNCHANGED job => JobTyped'
  BY DEF WInv, JobTyped, JobTally
<1>4. UNCHANGED review => ReviewsTyped'
  BY DEF WInv, ReviewsTyped
<1> QED
  BY <1>1, <1>2, <1>3, <1>4
  DEF WInv, FilesTyped, AskedTyped, QueueTyped, TasksTyped, UsedTyped

\* What is spent is counted.
LEMMA SpendTyped ==
    ASSUME WInv, NEW b \in Bounds, NEW limit, Spend(b, limit)
    PROVE  UsedTyped'
  BY DEF WInv, UsedTyped, Spend

\* Rows only go.
LEMMA RowsGo ==
    ASSUME WInv, candidates' \subseteq candidates
    PROVE  Listed'
  BY DEF WInv, Listed, OneCandidatePerVersion

\* The files of the library are pairs of a movie and a version.
LEMMA Pairs ==
    /\ Movies # {}
    /\ \A f \in Library : f = <<f[1], f[2]>> /\ f[1] \in Movies /\ f[2] \in Copies
    /\ Whole \notin Copies
<1>1. Library # {} /\ Library \subseteq Movies \X Copies /\ Whole \notin Copies
  BY WorkflowAssumption
<1> QED
  BY <1>1 DEF Movies

\* Reviews and requests do not make anything ill typed.
LEMMA HandlerTyped ==
    ASSUME WInv, HandlerNext
    PROVE  WInv'
<1>1. ASSUME NEW m \in Movies, Protect(m)
      PROVE  WInv'
  <2>1. protections' = protections \cup {<<m, "manual">>} /\ UNCHANGED <<request, asked>>
    BY <1>1 DEF Protect
  <2>2. AskedTyped'
    BY <2>1 DEF WInv, AskedTyped
  <2>3. UsedTyped'
    BY <1>1, SpendTyped DEF Protect, Bounds
  <2> QED
    BY <1>1, <2>2, <2>3, Untouched DEF WInv, Protect, handlers, workflows
<1>2. ASSUME NEW m \in Movies, NEW autoApprove \in BOOLEAN, RequestProtection(m, autoApprove)
      PROVE  WInv'
  <2>1. candidates' \subseteq candidates
    BY <1>2 DEF RequestProtection
  <2>2. \/ protections' = protections \cup {<<m, "manual">>} /\ UNCHANGED asked
        \/ \E i \in IF WholeRows(m) = {} THEN {0} ELSE {c.id : c \in WholeRows(m)} :
              asked' = asked \cup {[movie |-> m, candidate |-> i]} /\ UNCHANGED protections
    BY <1>2 DEF RequestProtection
  <2>3. {c.id : c \in WholeRows(m)} \subseteq Nat
    BY IdsFinite DEF WholeRows, WInv, Listed, Candidate
  <2>4. AskedTyped'
    BY <1>2, <2>2, <2>3 DEF WInv, AskedTyped, RequestProtection
  <2>5. UsedTyped'
    BY <1>2, SpendTyped DEF RequestProtection, Bounds
  <2> QED
    BY <1>2, <2>1, <2>4, <2>5, RowsGo, Untouched DEF WInv, RequestProtection, handlers, workflows
<1>3. ASSUME NEW a \in asked, ApproveProtection(a)
      PROVE  WInv'
  <2>1. AskedTyped'
    BY <1>3 DEF WInv, AskedTyped, ApproveProtection
  <2>2. candidates' \subseteq candidates
    BY <1>3 DEF ApproveProtection
  <2> QED
    BY <1>3, <2>1, <2>2, RowsGo, Untouched DEF WInv, ApproveProtection, handlers, workflows
<1>4. ASSUME NEW a \in asked, DenyProtection(a)
      PROVE  WInv'
  <2>1. AskedTyped'
    BY <1>4 DEF WInv, AskedTyped, DenyProtection
  <2> QED
    BY <1>4, <2>1, Untouched DEF WInv, DenyProtection, handlers, workflows
<1>5. ASSUME NEW r \in Requests, NEW m \in Movies, CreateDeleteRequest(r, m)
      PROVE  WInv'
  <2>1. AskedTyped'
    BY <1>5 DEF WInv, AskedTyped, CreateDeleteRequest
  <2> QED
    BY <1>5, <2>1, Untouched DEF WInv, CreateDeleteRequest, handlers, workflows
<1>6. ASSUME NEW g \in Reviewers, NEW r \in Requests, NEW decision \in {"approve", "deny", "cancel"},
             ReviewRead(g, r, decision)
      PROVE  WInv'
  <2>1. ReviewsTyped'
    BY <1>6 DEF WInv, ReviewsTyped, ReviewRead
  <2> QED
    BY <1>6, <2>1, Untouched DEF WInv, ReviewRead, tables, workflows
<1>7. ASSUME NEW g \in Reviewers, ApproveCommit(g)
      PROVE  WInv'
  <2> DEFINE r == review[g].request
             new == Row(NextId, <<request[r].movie, Whole>>, {f \in Library : f[1] = request[r].movie})
  <2>1. r \in Requests /\ NextId \in Ids
    BY <1>7 DEF ApproveCommit, WInv, ReviewsTyped
  <2>2. candidates' = candidates \cup {new} /\ request' = [request EXCEPT ![r].status = "APPROVED"]
    BY <1>7 DEF ApproveCommit
  <2>3. review' = [review EXCEPT ![g].pc = "approved", ![g].candidate = NextId]
    BY <1>7 DEF ApproveCommit
  <2>4. request[r].movie \in Movies
    BY <2>1 DEF WInv, AskedTyped
  <2>5. new \in Candidate /\ new.id = NextId /\ new.copy = Whole
    BY <2>1, <2>4 DEF Row, Candidate
  <2>6. \A c \in candidates : c.id # NextId
    BY NextIdIsNew, IdsFinite DEF WInv, Listed, Candidate
  <2>7. Listed'
    <3> HIDE DEF new, r
    <3> QED
      BY <2>2, <2>5, <2>6 DEF WInv, Listed, OneCandidatePerVersion
  <2>8. AskedTyped'
    <3>1. UNCHANGED <<protections, asked>>
      BY <1>7 DEF ApproveCommit
    <3> HIDE DEF r
    <3> QED
      BY <2>1, <2>2, <3>1 DEF WInv, AskedTyped
  <2>9. ReviewsTyped'
    BY <1>7, <2>1, <2>3, IdsFinite DEF WInv, ReviewsTyped, ApproveCommit
  <2> QED
    BY <1>7, <2>7, <2>8, <2>9, Untouched DEF WInv, ApproveCommit, workflows
<1>8. ASSUME NEW g \in Reviewers, review' = [review EXCEPT ![g] = NoReview]
      PROVE  ReviewsTyped'
  BY <1>8 DEF WInv, ReviewsTyped, NoReview
<1>9. ASSUME NEW g \in Reviewers, ApproveEnqueue(g)
      PROVE  WInv'
  <2>1. [ids |-> {review[g].candidate}, request |-> review[g].request]
            \in [ids : SUBSET Ids, request : Requests \cup {NoRequest}]
    BY <1>9 DEF WInv, ReviewsTyped, ApproveEnqueue
  <2>2. QueueTyped'
    BY <1>9, <2>1 DEF WInv, QueueTyped, ApproveEnqueue
  <2> QED
    BY <1>8, <1>9, <2>2, Untouched DEF WInv, ApproveEnqueue, tables, workflows
<1>10. ASSUME NEW g \in Reviewers, ApproveEnqueueFails(g)
       PROVE  WInv'
  <2>1. UsedTyped'
    BY <1>10, SpendTyped DEF ApproveEnqueueFails, Bounds
  <2> QED
    BY <1>8, <1>10, <2>1, Untouched DEF WInv, ApproveEnqueueFails, tables, workflows
<1>11. ASSUME NEW g \in Reviewers, DenyCommit(g) \/ CancelCommit(g)
       PROVE  WInv'
  <2>1. AskedTyped'
    BY <1>11 DEF WInv, AskedTyped, DenyCommit, CancelCommit
  <2> QED
    BY <1>8, <1>11, <2>1, Untouched DEF WInv, DenyCommit, CancelCommit, workflows
<1>12. ASSUME NEW g \in Reviewers, ReviewFails(g)
       PROVE  WInv'
  BY <1>8, <1>12, Untouched DEF WInv, ReviewFails, tables, workflows
<1>13. ASSUME NEW S \in SUBSET {c.id : c \in candidates}, QueueDeletion(S)
       PROVE  WInv'
  <2>1. [ids |-> S, request |-> NoRequest] \in [ids : SUBSET Ids, request : Requests \cup {NoRequest}]
    BY DEF WInv, Listed, Candidate
  <2>2. QueueTyped'
    BY <1>13, <2>1 DEF WInv, QueueTyped, QueueDeletion
  <2>3. UsedTyped'
    BY <1>13, SpendTyped DEF QueueDeletion, Bounds
  <2> QED
    BY <1>13, <2>2, <2>3, Untouched DEF WInv, QueueDeletion, tables, workflows
<1> QED
  BY <1>1, <1>2, <1>3, <1>4, <1>5, <1>6, <1>7, <1>9, <1>10, <1>11, <1>12, <1>13 DEF HandlerNext

\* One deletion is replaced, the job's by one of a single candidate.
LEMMA OpStep ==
    ASSUME WInv, NEW d \in Deleters, NEW o \in Deletion, op' = [op EXCEPT ![d] = o],
           d = "job" /\ job'.pc = "item" => OneItem(o),
           d # "job" => UNCHANGED job
    PROVE  DeletionsTyped'
<1>1. op' \in [Deleters -> Deletion]
  BY DEF WInv, DeletionsTyped
<1>2. op'[d] = o /\ \A e \in Deleters : e # d => op'[e] = op[e]
  BY DEF WInv, DeletionsTyped
<1>3. job'.pc = "item" => OneItem(op'["job"])
  BY <1>2 DEF WInv, DeletionsTyped, Deleters
<1> QED
  BY <1>1, <1>3 DEF DeletionsTyped, OneItem

\* No deletion.
LEMMA NoOpTyped == NoOp \in Deletion
  BY DEF NoOp, Deletion

\* What a deletion starts with, for one candidate or for several.
LEMMA BegunTyped ==
    ASSUME WInv, NEW S
    PROVE  LET o == [pc |-> "versions", rows |-> Targets(S), current |-> {},
                     found |-> Cardinality(RowsOf(S)), deleted |-> 0]
           IN  o \in Deletion /\ ((\E i : S = {i}) => OneItem(o))
<1>1. Cardinality(RowsOf(S)) \in Nat
  BY RowCount DEF WInv
<1>2. RowsOf(S) \subseteq Candidate
  BY DEF RowsOf, WInv, Listed
<1>3. Targets(S) \subseteq Work
  BY <1>2 DEF Targets, Work, WInv, FilesTyped
<1>4. ASSUME \E i : S = {i}
      PROVE  /\ Cardinality(RowsOf(S)) \in {0, 1}
             /\ Targets(S) # {} => Cardinality(RowsOf(S)) = 1
             /\ \A w, v \in Targets(S) : w = v
  <2>1. \/ RowsOf(S) = {} /\ Cardinality(RowsOf(S)) = 0
        \/ \E c \in candidates : RowsOf(S) = {c} /\ Cardinality(RowsOf(S)) = 1
    BY <1>4, RowCount DEF WInv
  <2> QED
    BY <2>1 DEF Targets
<1> QED
  BY <1>1, <1>3, <1>4 DEF Deletion, OneItem

\* A step of the delete engine.
LEMMA DeleteTyped ==
    ASSUME WInv, NEW d \in Deleters, DeleteNext(d)
    PROVE  WInv'
<1>1. op[d] \in Deletion /\ (d = "job" /\ job.pc = "item" => OneItem(op[d]))
  BY DEF WInv, DeletionsTyped, Deleters
<1>2. ASSUME NEW w \in op[d].rows, DeleteFiles(d, w)
      PROVE  WInv'
  <2>1. PICK S \in SUBSET w.files, success \in BOOLEAN :
          /\ files' = files \ S
          /\ op' = [op EXCEPT ![d].rows = @ \ {w}, ![d].current = IF success THEN {w} ELSE {}]
    BY <1>2 DEF DeleteFiles
  <2>2. UNCHANGED <<tables, handlers, lock, task, scan, sync, job, used>> /\ op[d].current = {}
    BY <1>2 DEF DeleteFiles
  <2> DEFINE o == [op[d] EXCEPT !.rows = @ \ {w}, !.current = IF success THEN {w} ELSE {}]
  <2>3. op' = [op EXCEPT ![d] = o]
    BY <2>1 DEF WInv, DeletionsTyped
  <2>4. o \in Deletion
    BY <1>1 DEF Deletion
  <2>5. OneItem(op[d]) => OneItem(o)
    BY <1>1, <2>2 DEF OneItem, Deletion
  <2>6. DeletionsTyped'
    <3> HIDE DEF o
    <3> QED
      BY <1>1, <2>2, <2>3, <2>4, <2>5, OpStep
  <2>7. FilesTyped'
    BY <2>1, <2>2 DEF WInv, FilesTyped, tables
  <2> QED
    BY <2>2, <2>6, <2>7, Untouched DEF WInv, tables, handlers
<1>3. ASSUME CommitDelete(d)
      PROVE  WInv'
  <2>1. PICK w \in op[d].current :
          /\ candidates' \subseteq candidates
          /\ versions' \subseteq versions
          /\ removed' \subseteq removed \cup {w.row.movie}
          /\ op' = [op EXCEPT ![d].current = {}, ![d].deleted = @ + 1]
          /\ UNCHANGED <<files, request, protections, asked, handlers, lock, task, scan, sync, job, used>>
    BY <1>3 DEF CommitDelete
  <2> DEFINE o == [op[d] EXCEPT !.current = {}, !.deleted = @ + 1]
  <2>2. op' = [op EXCEPT ![d] = o]
    BY <2>1 DEF WInv, DeletionsTyped
  <2>3. o \in Deletion
    <3> DEFINE n == op[d].deleted + 1
    <3>1. n \in Nat
      BY <1>1 DEF Deletion
    <3>2. o = [op[d] EXCEPT !.current = {}, !.deleted = n]
      OBVIOUS
    <3> HIDE DEF n, o
    <3> QED
      BY <1>1, <3>1, <3>2 DEF Deletion
  <2>4. OneItem(op[d]) => OneItem(o)
    BY <1>1, <2>1 DEF OneItem, Deletion
  <2>5. DeletionsTyped'
    <3> HIDE DEF o
    <3> QED
      BY <1>1, <2>1, <2>2, <2>3, <2>4, OpStep
  <2>6. w.row.movie \in Movies
    BY <1>1 DEF Deletion, Work, Candidate
  <2>7. FilesTyped' /\ Listed'
    BY <2>1, <2>6, RowsGo DEF WInv, FilesTyped
  <2> QED
    BY <2>1, <2>5, <2>7, Untouched DEF WInv, handlers
<1>4. ASSUME StageMovies(d)
      PROVE  WInv'
  <2> DEFINE Staged == {[w EXCEPT !.files = FilesOf(w.row.movie)] : w \in op[d].rows}
             o == [op[d] EXCEPT !.pc = "movies", !.rows = Staged]
  <2>1. /\ op' = [op EXCEPT ![d].pc = "movies", ![d].rows = Staged]
        /\ UNCHANGED <<files, tables, handlers, lock, task, scan, sync, job, used>>
        /\ op[d].current = {}
    BY <1>4 DEF StageMovies
  <2>2. op' = [op EXCEPT ![d] = o]
    BY <2>1 DEF WInv, DeletionsTyped
  <2>3. Staged \subseteq Work
    BY <1>1 DEF Deletion, Work, FilesOf, WInv, FilesTyped
  <2>4. o \in Deletion
    <3> HIDE DEF Staged
    <3> QED
      BY <1>1, <2>3 DEF Deletion
  <2>5. /\ Staged = {} <=> op[d].rows = {}
        /\ (\A w, v \in op[d].rows : w = v) => \A w, v \in Staged : w = v
    OBVIOUS
  <2>6. OneItem(op[d]) => OneItem(o)
    <3> HIDE DEF Staged
    <3> QED
      BY <1>1, <2>1, <2>5 DEF OneItem, Deletion
  <2>7. DeletionsTyped'
    <3> HIDE DEF o
    <3> QED
      BY <1>1, <2>1, <2>2, <2>4, <2>6, OpStep
  <2> QED
    BY <2>1, <2>7, Untouched DEF WInv, tables, handlers
<1> QED
  BY <1>2, <1>3, <1>4 DEF DeleteNext

\* A scan reads versions of the library and matches movies of it.
LEMMA ScanReadTyped ==
    ASSUME WInv, ScanRead
    PROVE  WInv'
<1>1. PICK P \in SUBSET (RuleProtectable \ removed) :
         \E M \in Matches(P) : scan' = [records |-> M, protect |-> P]
  BY DEF ScanRead
<1>2. PICK M \in Matches(P) : scan' = [records |-> M, protect |-> P]
  BY <1>1
<1>3. M \subseteq Library /\ P \subseteq Movies
  BY WorkflowAssumption DEF Matches, WInv, FilesTyped
<1>4. TasksTyped'
  BY <1>2, <1>3 DEF WInv, TasksTyped, ScanRead
<1>5. UsedTyped'
  BY SpendTyped DEF ScanRead, Bounds
<1> QED
  BY <1>4, <1>5, Untouched DEF WInv, ScanRead, tables, handlers

\* The rows a scan keeps and those it makes: each has its own id and version.
LEMMA ScanCommitTyped ==
    ASSUME WInv, ScanCommit
    PROVE  WInv'
<1> DEFINE new == NewRecords
<1>1. PICK n \in Numberings(new) : candidates' = Kept \cup {Row(n[f], f, {f}) : f \in new}
  BY DEF ScanCommit
<1>2. NextId \in Nat \ {0} /\ \A c \in candidates : c.id < NextId
  BY NextIdIsNew DEF WInv
<1>3. new \in SUBSET Library /\ IsFiniteSet(new) /\ Cardinality(new) \in Nat
  <2>1. new \in SUBSET Library
    BY DEF NewRecords, WInv, TasksTyped
  <2>2. IsFiniteSet(Library)
    BY WorkflowAssumption
  <2> HIDE DEF new
  <2> QED
    BY <2>1, <2>2, FS_Subset, FS_CardinalityType
<1>4. NextId + Cardinality(new) <= MaxId + 1 /\ MaxId \in Nat
  BY WorkflowAssumption DEF ScanCommit
<1>5. \A f \in new : n[f] \in Nat /\ n[f] >= NextId /\ n[f] <= MaxId
  <2> HIDE DEF new
  <2>1. \A f \in new : n[f] \in NextId..(NextId + Cardinality(new) - 1)
    BY <1>1 DEF Numberings
  <2> QED
    BY <1>2, <1>3, <1>4, <2>1
<1>6. \A f, g \in new : n[f] = n[g] => f = g
  BY <1>1 DEF Numberings
<1>7. \A f \in new : Row(n[f], f, {f}) \in Candidate
  <2> SUFFICES ASSUME NEW f \in new
               PROVE  Row(n[f], f, {f}) \in Candidate
    OBVIOUS
  <2>1. n[f] \in Ids
    BY <1>2, <1>4, <1>5 DEF Ids
  <2>2. f \in Library /\ f[1] \in Movies /\ f[2] \in Copies
    BY <1>3, Pairs
  <2> QED
    BY <2>1, <2>2 DEF Row, Candidate
<1>8. \A c \in candidates' :
         \/ c \in candidates
         \/ \E f \in new : c = Row(n[f], f, {f})
  BY <1>1 DEF Kept
<1>9. candidates' \subseteq Candidate
  BY <1>7, <1>8 DEF WInv, Listed
<1>10. \A c, e \in candidates' : c.id = e.id => c = e
  <2> SUFFICES ASSUME NEW c \in candidates', NEW e \in candidates', c.id = e.id
               PROVE  c = e
    OBVIOUS
  <2>1. \A x \in candidates : x.id \in Nat
    BY IdsFinite DEF WInv, Listed, Candidate
  <2>2. \A f \in new : Row(n[f], f, {f}).id = n[f]
    BY DEF Row
  <2>3. \A x \in candidates, f \in new : x.id # n[f]
    BY <1>2, <1>5, <2>1
  <2>4. CASE c \in candidates /\ e \in candidates
    BY <2>4 DEF WInv, Listed
  <2>5. ASSUME NEW f \in new, NEW g \in new, c = Row(n[f], f, {f}), e = Row(n[g], g, {g})
        PROVE  c = e
    BY <1>6, <2>2, <2>5
  <2>6. ASSUME NEW f \in new, c = Row(n[f], f, {f}), e \in candidates
        PROVE  FALSE
    BY <2>2, <2>3, <2>6
  <2>7. ASSUME NEW f \in new, e = Row(n[f], f, {f}), c \in candidates
        PROVE  FALSE
    BY <2>2, <2>3, <2>7
  <2> QED
    BY <1>8, <2>4, <2>5, <2>6, <2>7
<1>11. OneCandidatePerVersion'
  <2> SUFFICES ASSUME NEW c \in candidates', NEW e \in candidates',
                      c.copy # Whole, c.movie = e.movie, c.copy = e.copy
               PROVE  c = e
    BY DEF OneCandidatePerVersion
  <2>1. \A f \in new : /\ Row(n[f], f, {f}).movie = f[1] /\ Row(n[f], f, {f}).copy = f[2]
                       /\ f = <<f[1], f[2]>>
    BY <1>3, Pairs DEF Row
  <2>2. \A x \in candidates, f \in new : <<x.movie, x.copy>> # f
    BY DEF NewRecords
  <2>3. CASE c \in candidates /\ e \in candidates
    BY <2>3 DEF WInv, Listed, OneCandidatePerVersion
  <2>4. ASSUME NEW f \in new, NEW g \in new, c = Row(n[f], f, {f}), e = Row(n[g], g, {g})
        PROVE  c = e
    <3>1. f = g
      BY <2>1, <2>4
    <3> QED
      BY <2>4, <3>1
  <2>5. ASSUME NEW f \in new, c = Row(n[f], f, {f}), e \in candidates
        PROVE  FALSE
    BY <2>1, <2>2, <2>5
  <2>6. ASSUME NEW f \in new, e = Row(n[f], f, {f}), c \in candidates
        PROVE  FALSE
    BY <2>1, <2>2, <2>6
  <2> QED
    BY <1>8, <2>3, <2>4, <2>5, <2>6
<1>12. Listed'
  BY <1>9, <1>10, <1>11 DEF Listed
<1>13. protections' \subseteq Movies \X {"manual", "rule"}
  BY DEF ScanCommit, Reconciled, WInv, AskedTyped, TasksTyped
<1>14. AskedTyped'
  BY <1>13 DEF ScanCommit, WInv, AskedTyped
<1>15. TasksTyped'
  BY DEF ScanCommit, WInv, TasksTyped, NoScan
<1> QED
  BY <1>12, <1>14, <1>15, Untouched DEF WInv, ScanCommit, handlers

\* A sync deals with files and movies of the library; a row whose version goes
\* may become one of the whole movie, and keeps its id.
LEMMA SyncTyped ==
    ASSUME WInv,
           \/ SyncGather \/ SyncLoad \/ (\E m \in sync.todo : SyncUpsert(m))
           \/ SyncRemove \/ SyncFails
    PROVE  WInv'
<1>1. NoSync \in [found : SUBSET Library, loaded : BOOLEAN, active : SUBSET Movies, todo : SUBSET Movies]
  BY DEF NoSync
<1>2. CASE SyncGather
  <2>1. TasksTyped'
    BY <1>1, <1>2 DEF SyncGather, WInv, TasksTyped, FilesTyped
  <2>2. UsedTyped'
    BY <1>2, SpendTyped DEF SyncGather, Bounds
  <2> QED
    BY <1>2, <2>1, <2>2, Untouched DEF WInv, SyncGather, tables, handlers
<1>3. CASE SyncLoad
  <2>1. {f[1] : f \in sync.found} \subseteq Movies
    BY DEF WInv, TasksTyped, Movies
  <2>2. TasksTyped'
    BY <1>3, <2>1 DEF SyncLoad, WInv, TasksTyped
  <2> QED
    BY <1>3, <2>2, Untouched DEF WInv, SyncLoad, tables, handlers
<1>4. ASSUME NEW m \in sync.todo, SyncUpsert(m)
      PROVE  WInv'
  <2>1. TasksTyped'
    BY <1>4 DEF SyncUpsert, WInv, TasksTyped
  <2>2. versions' \subseteq Library /\ removed' \subseteq removed
    BY <1>4 DEF SyncUpsert, Restored, WInv, FilesTyped, TasksTyped
  <2>3. FilesTyped'
    BY <1>4, <2>2 DEF SyncUpsert, WInv, FilesTyped
  <2>4. \A c \in candidates' : \E b \in candidates :
           c = b \/ c = [b EXCEPT !.copy = Whole]
    BY <1>4 DEF SyncUpsert, Orphaned
  <2>5. PICK enforced \in BOOLEAN :
           candidates' = {IF <<c.movie, c.copy>> \in FilesOf(m) \ sync.found
                          THEN Orphaned(c, enforced) ELSE c : c \in candidates}
    BY <1>4 DEF SyncUpsert
  <2> DEFINE after == [c \in candidates |->
                          IF <<c.movie, c.copy>> \in FilesOf(m) \ sync.found
                          THEN Orphaned(c, enforced) ELSE c]
  <2>6. candidates' = {after[c] : c \in candidates}
    BY <2>5
  <2>7. \A c \in candidates : /\ after[c] \in Candidate /\ after[c].id = c.id
                              /\ after[c] = c \/ after[c].copy = Whole
    BY DEF Orphaned, WInv, Listed, Candidate
  <2>8. Listed'
    <3> HIDE DEF after
    <3>1. candidates' \subseteq Candidate
      BY <2>6, <2>7
    <3>2. \A c, e \in candidates' : c.id = e.id => c = e
      BY <2>6, <2>7 DEF WInv, Listed
    <3>3. \A c \in candidates' : c.copy # Whole => c \in candidates
      BY <2>6, <2>7
    <3>4. OneCandidatePerVersion'
      BY <3>3 DEF WInv, Listed, OneCandidatePerVersion
    <3> QED
      BY <3>1, <3>2, <3>4 DEF Listed
  <2> QED
    BY <1>4, <2>1, <2>3, <2>8, Untouched DEF WInv, SyncUpsert, handlers
<1>5. CASE SyncRemove
  <2>1. TasksTyped'
    BY <1>1, <1>5 DEF SyncRemove, WInv, TasksTyped
  <2>2. NotListed \subseteq Movies
    BY DEF NotListed, WInv, TasksTyped
  <2>3. FilesTyped'
    BY <1>5, <2>2 DEF SyncRemove, WInv, FilesTyped
  <2>4. AskedTyped'
    BY <1>5 DEF SyncRemove, WInv, AskedTyped
  <2>5. Listed'
    BY <1>5, RowsGo DEF SyncRemove
  <2> QED
    BY <1>5, <2>1, <2>3, <2>4, <2>5, Untouched DEF WInv, SyncRemove, handlers
<1>6. CASE SyncFails
  <2>1. TasksTyped'
    BY <1>1, <1>6 DEF SyncFails, WInv, TasksTyped
  <2> QED
    BY <1>6, <2>1, Untouched DEF WInv, SyncFails, tables, handlers
<1> QED
  BY <1>2, <1>3, <1>4, <1>5, <1>6

\* The steps of the tasks.
LEMMA TaskTyped ==
    ASSUME WInv, TaskNext
    PROVE  WInv'
<1>1. CASE ScanFails
  <2>1. TasksTyped'
    BY <1>1 DEF ScanFails, WInv, TasksTyped, NoScan
  <2> QED
    BY <1>1, <2>1, Untouched DEF WInv, ScanFails, tables, handlers
<1>2. CASE AutoStart
  <2>1. TasksTyped'
    BY <1>2 DEF AutoStart, WInv, TasksTyped
  <2>2. UsedTyped'
    BY <1>2, SpendTyped DEF AutoStart, Bounds
  <2> QED
    BY <1>2, <2>1, <2>2, Untouched DEF WInv, AutoStart, tables, handlers
<1>3. CASE AutoSelect
  <2>1. PICK S \in SUBSET {c.id : c \in {c \in candidates : c.movie \notin Blocked}} :
           BeginDelete("auto", S)
    BY <1>3 DEF AutoSelect
  <2>2. DeletionsTyped'
    BY <1>3, <2>1, BegunTyped, OpStep DEF BeginDelete, AutoSelect, Deleters
  <2> QED
    BY <1>3, <2>2, Untouched DEF WInv, AutoSelect, tables, handlers
<1>4. CASE AutoEnd
  <2>1. TasksTyped'
    BY <1>4 DEF AutoEnd, WInv, TasksTyped
  <2>2. DeletionsTyped'
    BY <1>4, NoOpTyped, OpStep DEF AutoEnd, Deleters
  <2> QED
    BY <1>4, <2>1, <2>2, Untouched DEF WInv, AutoEnd, tables, handlers
<1>5. CASE DeleteNext("auto")
  BY <1>5, DeleteTyped DEF Deleters
<1> QED
  BY <1>1, <1>2, <1>3, <1>4, <1>5, ScanReadTyped, ScanCommitTyped, SyncTyped DEF TaskNext

\* What is left to do is one less.
LEMMA TodoLess ==
    ASSUME WInv, NEW i \in job.todo
    PROVE  /\ IsFiniteSet(job.todo) /\ Cardinality(job.todo) \in Nat
           /\ Cardinality(job.ids) \in Nat
           /\ Cardinality(job.todo \ {i}) = Cardinality(job.todo) - 1
<1>1. job.todo \in SUBSET Ids /\ job.ids \in SUBSET Ids
  BY DEF WInv, JobTyped
<1>2. IsFiniteSet(job.todo) /\ IsFiniteSet(job.ids)
  BY <1>1, IdsFinite, FS_Subset
<1> QED
  BY <1>2, FS_CardinalityType, FS_RemoveElement

\* A job goes on: what it gains on one side of the tally it loses on another.
LEMMA JobMoves ==
    ASSUME WInv, NEW pc \in {"next", "item"}, NEW todo \in SUBSET job.todo,
           NEW s \in Nat, NEW f \in Nat,
           job' = [job EXCEPT !.pc = pc, !.todo = todo, !.succeeded = s, !.failed = f],
           s + f + Cardinality(todo) + (IF pc = "item" THEN 1 ELSE 0) = Cardinality(job.ids)
    PROVE  JobTyped'
<1>1. /\ job' \in [pc : {"none", "waiting", "next", "item"}, ids : SUBSET Ids, todo : SUBSET Ids,
                   succeeded : Nat, failed : Nat, request : Requests \cup {NoRequest}]
      /\ job'.pc = pc /\ job'.ids = job.ids /\ job'.todo = todo
      /\ job'.succeeded = s /\ job'.failed = f
  BY DEF WInv, JobTyped
<1>2. JobTally'
  BY <1>1 DEF JobTally
<1> QED
  BY <1>1, <1>2 DEF JobTyped

\* The job's counts are numbers that add up.
LEMMA Counts ==
    ASSUME WInv, job.pc # "none"
    PROVE  /\ job.succeeded \in Nat /\ job.failed \in Nat
           /\ Cardinality(job.todo) \in Nat /\ Cardinality(job.ids) \in Nat
           /\ job.succeeded + job.failed + Cardinality(job.todo) + (IF job.pc = "item" THEN 1 ELSE 0)
                 = Cardinality(job.ids)
<1>1. job.todo \in SUBSET Ids /\ job.ids \in SUBSET Ids
  BY DEF WInv, JobTyped
<1>2. Cardinality(job.todo) \in Nat /\ Cardinality(job.ids) \in Nat
  BY <1>1, IdsFinite, FS_Subset, FS_CardinalityType
<1> QED
  BY <1>2 DEF WInv, JobTyped, JobTally

\* A job ends: its outcome is one of two, its lock is free.
LEMMA JobEndsTyped ==
    ASSUME WInv, job' = NoJob, lock' = "free", UNCHANGED <<task, scan, sync, op, review, queue>>
    PROVE  TasksTyped' /\ JobTyped' /\ DeletionsTyped' /\ ReviewsTyped' /\ QueueTyped'
<1>1. JobTyped'
  BY DEF JobTyped, NoJob, JobTally
<1>2. DeletionsTyped'
  BY DEF WInv, DeletionsTyped, NoJob
<1>3. TasksTyped'
  BY DEF WInv, TasksTyped
<1> QED
  BY <1>1, <1>2, <1>3, Untouched

\* The steps of a job.
LEMMA JobStepTyped ==
    ASSUME WInv, JobNextState
    PROVE  WInv'
<1>1. CASE JobClaim
  <2> DEFINE head == Head(queue)
  <2>1. head \in [ids : SUBSET Ids, request : Requests \cup {NoRequest}] /\ QueueTyped'
    <3> DEFINE X == [ids : SUBSET Ids, request : Requests \cup {NoRequest}]
    <3>1. queue \in Seq(X) /\ queue # <<>> /\ queue' = Tail(queue)
      BY <1>1 DEF JobClaim, WInv, QueueTyped
    <3>2. QueueTyped <=> queue \in Seq(X)
      BY DEF QueueTyped
    <3>3. QueueTyped' <=> queue' \in Seq(X)
      BY DEF QueueTyped
    <3> HIDE DEF X
    <3>4. Head(queue) \in X /\ Tail(queue) \in Seq(X)
      BY <3>1
    <3> QED
      BY <3>1, <3>3, <3>4 DEF X
  <2>2. job' = [pc |-> "waiting", ids |-> head.ids, todo |-> head.ids, succeeded |-> 0,
                failed |-> 0, request |-> head.request]
    BY <1>1 DEF JobClaim, NoJob
  <2>3. Cardinality(head.ids) \in Nat
    <3>1. head.ids \in SUBSET Ids
      BY <2>1
    <3> QED
      BY <3>1, IdsFinite, FS_Subset, FS_CardinalityType
  <2>4. JobTyped'
    <3> HIDE DEF head
    <3> QED
      BY <2>1, <2>2, <2>3 DEF JobTyped, JobTally
  <2>5. DeletionsTyped'
    BY <1>1, <2>2 DEF JobClaim, WInv, DeletionsTyped
  <2> QED
    BY <1>1, <2>1, <2>4, <2>5, Untouched DEF WInv, JobClaim, tables
<1>2. CASE JobLock
  <2>1. JobTyped' /\ DeletionsTyped' /\ TasksTyped'
    BY <1>2 DEF JobLock, WInv, JobTyped, JobTally, DeletionsTyped, TasksTyped
  <2> QED
    BY <1>2, <2>1, Untouched DEF WInv, JobLock, tables, handlers
<1>3. ASSUME NEW i \in job.todo, JobNext(i)
      PROVE  WInv'
  <2>1. job' = [job EXCEPT !.pc = "item", !.todo = @ \ {i}] /\ job.pc = "next"
    BY <1>3 DEF JobNext
  <2>2. JobTyped'
    <3> DEFINE rest == job.todo \ {i}
               s == job.succeeded
               f == job.failed
    <3>1. job' = [job EXCEPT !.pc = "item", !.todo = rest, !.succeeded = s, !.failed = f]
      BY <2>1 DEF WInv, JobTyped
    <3>2. Cardinality(rest) = Cardinality(job.todo) - 1 /\ rest \in SUBSET job.todo
      BY TodoLess
    <3>3. s \in Nat /\ f \in Nat /\ s + f + Cardinality(rest) + 1 = Cardinality(job.ids)
      <4> HIDE DEF rest
      <4> QED
        BY <2>1, <3>2, Counts
    <3> HIDE DEF rest, s, f
    <3> QED
      BY <3>1, <3>2, <3>3, JobMoves
  <2>3. DeletionsTyped'
    BY <1>3, <2>1, BegunTyped, OpStep DEF JobNext, BeginDelete, Deleters
  <2> QED
    BY <1>3, <2>2, <2>3, Untouched DEF WInv, JobNext, tables, handlers
<1>4. ASSUME NEW i \in job.todo, JobPruneBlocked(i)
      PROVE  WInv'
  <2>1. job' = [job EXCEPT !.todo = @ \ {i}, !.failed = @ + 1] /\ job.pc = "next"
    BY <1>4 DEF JobPruneBlocked
  <2>2. JobTyped'
    <3> DEFINE rest == job.todo \ {i}
               s == job.succeeded
               f == job.failed + 1
    <3>1. job' = [job EXCEPT !.pc = "next", !.todo = rest, !.succeeded = s, !.failed = f]
      BY <2>1 DEF WInv, JobTyped
    <3>2. Cardinality(rest) = Cardinality(job.todo) - 1 /\ rest \in SUBSET job.todo
      BY TodoLess
    <3>3. s \in Nat /\ f \in Nat /\ s + f + Cardinality(rest) + 0 = Cardinality(job.ids)
      <4> HIDE DEF rest
      <4> QED
        BY <2>1, <3>2, Counts
    <3> HIDE DEF rest, s, f
    <3> QED
      BY <3>1, <3>2, <3>3, JobMoves
  <2>3. DeletionsTyped'
    BY <1>4, <2>1 DEF JobPruneBlocked, WInv, DeletionsTyped, JobTyped
  <2> QED
    BY <1>4, <2>2, <2>3, Untouched DEF WInv, JobPruneBlocked, tables, handlers
<1>5. CASE DeleteNext("job")
  BY <1>5, DeleteTyped DEF Deleters
<1>6. CASE JobItemDone
  <2> DEFINE o == op["job"]
  <2>1. OneItem(o) /\ o \in Deletion
    BY <1>6 DEF JobItemDone, WInv, DeletionsTyped, Deleters
  <2>2. /\ ItemSucceeded(o) \in Nat /\ o.found - o.deleted \in Nat
        /\ ItemSucceeded(o) + (o.found - o.deleted) = 1
    <3> HIDE DEF o
    <3> QED
      BY <2>1 DEF OneItem, Deletion, ItemSucceeded
  <2>3. /\ job' = [job EXCEPT !.pc = "next", !.succeeded = @ + ItemSucceeded(o),
                              !.failed = @ + (o.found - o.deleted)]
        /\ op' = [op EXCEPT !["job"] = NoOp] /\ job.pc = "item"
    BY <1>6 DEF JobItemDone
  <2>5. JobTyped'
    <3> DEFINE n == job.succeeded + ItemSucceeded(o)
               k == job.failed + (o.found - o.deleted)
    <3>1. job' = [job EXCEPT !.pc = "next", !.todo = job.todo, !.succeeded = n, !.failed = k]
      BY <2>3 DEF WInv, JobTyped
    <3>2. n \in Nat /\ k \in Nat /\ n + k + Cardinality(job.todo) + 0 = Cardinality(job.ids)
      <4> HIDE DEF o
      <4> QED
        BY <2>2, <2>3, Counts
    <3> HIDE DEF n, k
    <3> QED
      BY <3>1, <3>2, JobMoves
  <2>6. job'.pc = "next"
    BY <2>3 DEF WInv, JobTyped
  <2>7. DeletionsTyped'
    BY <2>3, <2>6, NoOpTyped, OpStep DEF Deleters
  <2> QED
    BY <1>6, <2>5, <2>7, Untouched DEF WInv, JobItemDone, tables, handlers
<1>7. ASSUME NEW succeeded, NEW failed, Finalize(succeeded, failed), UNCHANGED <<protections, asked>>
      PROVE  AskedTyped' /\ Listed'
  <2>1. candidates' \subseteq candidates
    BY <1>7 DEF Finalize
  <2>2. AskedTyped'
    BY <1>7 DEF Finalize, WInv, AskedTyped
  <2> QED
    BY <2>1, <2>2, RowsGo
<1>8. CASE JobEnd \/ JobRaises
  <2>1. /\ \E x, y : Finalize(x, y)
        /\ lock' = "free" /\ job' = NoJob
        /\ UNCHANGED <<files, versions, removed, protections, asked, handlers, task, scan, sync, op, used>>
    BY <1>8 DEF JobEnd, JobRaises
  <2> QED
    BY <1>7, <2>1, JobEndsTyped, Untouched DEF WInv, handlers
<1>9. CASE JobAborts
  <2>1. UsedTyped'
    BY <1>9, SpendTyped DEF JobAborts, Bounds
  <2> QED
    BY <1>9, <2>1, JobEndsTyped, Untouched DEF WInv, JobAborts, tables, handlers
<1> QED
  BY <1>1, <1>2, <1>3, <1>4, <1>5, <1>6, <1>8, <1>9 DEF JobNextState, JobStep

\* A file that vanishes, and a stop.
LEMMA OutsideTyped ==
    ASSUME WInv, (\E f \in files : FileVanishes(f)) \/ Stop
    PROVE  WInv'
<1>1. ASSUME NEW f \in files, FileVanishes(f)
      PROVE  WInv'
  <2>1. FilesTyped'
    BY <1>1 DEF FileVanishes, tables, WInv, FilesTyped
  <2>2. UsedTyped'
    BY <1>1, SpendTyped DEF FileVanishes, Bounds
  <2> QED
    BY <1>1, <2>1, <2>2, Untouched DEF WInv, FileVanishes, tables, handlers, workflows
<1>2. CASE Stop
  <2>1. TasksTyped' /\ JobTyped' /\ DeletionsTyped'
    BY <1>2, NoOpTyped DEF Stop, TasksTyped, NoScan, NoSync, JobTyped, NoJob, JobTally,
       DeletionsTyped
  <2>2. ReviewsTyped'
    BY <1>2 DEF Stop, ReviewsTyped, NoReview
  <2>3. UsedTyped'
    BY <1>2, SpendTyped DEF Stop, Bounds
  <2> QED
    BY <1>2, <2>1, <2>2, <2>3, Untouched DEF WInv, Stop, tables
<1> QED
  BY <1>1, <1>2

\* Everything is typed at the start.
LEMMA InitTyped == Init => WInv
<1> SUFFICES ASSUME Init PROVE WInv
  OBVIOUS
<1>1. Listed /\ FilesTyped
  BY DEF Init, Listed, OneCandidatePerVersion, FilesTyped
<1>2. AskedTyped
  BY Pairs DEF Init, AskedTyped
<1>3. ReviewsTyped /\ QueueTyped
  BY DEF Init, ReviewsTyped, NoReview, QueueTyped
<1>4. TasksTyped /\ JobTyped /\ DeletionsTyped
  BY NoOpTyped DEF Init, TasksTyped, NoScan, NoSync, JobTyped, NoJob, JobTally, DeletionsTyped
<1>5. UsedTyped
  BY DEF Init, UsedTyped
<1> QED
  BY <1>1, <1>2, <1>3, <1>4, <1>5 DEF WInv

\* The parts hold in every reachable state.
THEOREM WorkflowInvariance == Spec => []WInv
<1>1. WInv /\ [Next]_vars => WInv'
  <2> SUFFICES ASSUME WInv, [Next]_vars
               PROVE  WInv'
    OBVIOUS
  <2>1. CASE UNCHANGED vars
    BY <2>1, Untouched DEF WInv, vars, tables, handlers, workflows
  <2> QED
    BY <2>1, HandlerTyped, TaskTyped, JobStepTyped, OutsideTyped DEF Next
<1> QED
  BY <1>1, InitTyped, PTL DEF Spec

\* Every variable of the workflows keeps its type.
THEOREM WorkflowTyped == Spec => []TypeOK
  BY WorkflowInvariance, WInvTyped, PTL

\* The scan never gives a version of a movie a second candidate, over scans,
\* approvals, deletions and syncs (_sync_movie_version_candidates).
THEOREM OnePerVersion == Spec => []OneCandidatePerVersion
<1>1. WInv => OneCandidatePerVersion
  BY DEF WInv, Listed
<1> QED
  BY <1>1, WorkflowInvariance, PTL

\* A job of any number of candidates accounts for each of them once, whatever
\* became of them meanwhile (run_candidate_file_op_job).
THEOREM TallyAddsUp == Spec => []JobTally
<1>1. WInv => JobTally
  BY DEF WInv, JobTyped
<1> QED
  BY <1>1, WorkflowInvariance, PTL

-----------------------------------------------------------------------------
(* What a deletion holds stays.                                            *)

Held(d) == op[d].rows \cup op[d].current

\* Only a running task and a job's current item hold candidates, each of which
\* has an id of its own.
HeldInv ==
    /\ task # "auto" => Held("auto") = {}
    /\ job.pc # "item" => Held("job") = {}
    /\ \A d \in Deleters : \A v, w \in Held(d) : v.row.id = w.row.id => v = w

\* Nothing is held at the start.
LEMMA InitHeld == Init => HeldInv
  BY DEF Init, HeldInv, Held, NoOp, Deleters

\* A deletion holds what it held, or less.
LEMMA HeldLess ==
    ASSUME WInv, HeldInv, UNCHANGED <<task, job>>, NEW d \in Deleters,
           \A e \in Deleters : e # d => op'[e] = op[e],
           \E g \in [Held(d)' -> Held(d)] :
               \A v, w \in Held(d)' : /\ g[v].row.id = v.row.id
                                      /\ g[v] = g[w] => v = w
    PROVE  HeldInv'
<1>1. Held(d) = {} => Held(d)' = {}
  OBVIOUS
<1>2. \A v, w \in Held(d)' : v.row.id = w.row.id => v = w
  BY DEF HeldInv
<1>3. \A e \in Deleters : e # d => Held(e)' = Held(e)
  BY DEF Held
<1>4. \A e \in Deleters : \A v, w \in Held(e)' : v.row.id = w.row.id => v = w
  BY <1>2, <1>3 DEF HeldInv
<1>5. "auto" \in Deleters /\ "job" \in Deleters
  BY DEF Deleters
<1> QED
  BY <1>1, <1>3, <1>4, <1>5 DEF HeldInv

\* A step of the delete engine takes up nothing.
LEMMA DeleteHeld ==
    ASSUME WInv, HeldInv, NEW d \in Deleters, DeleteNext(d)
    PROVE  HeldInv'
<1>1. UNCHANGED <<task, job>>
  BY DEF DeleteNext, DeleteFiles, CommitDelete, StageMovies
<1>2. op[d] \in Deletion /\ DOMAIN op = Deleters
  BY DEF WInv, DeletionsTyped
<1>3. ASSUME Held(d)' \subseteq Held(d), \A e \in Deleters : e # d => op'[e] = op[e]
      PROVE  HeldInv'
  <2> DEFINE g == [v \in Held(d)' |-> v]
  <2>1. g \in [Held(d)' -> Held(d)] /\ \A v \in Held(d)' : g[v] = v
    BY <1>3
  <2> HIDE DEF g
  <2> QED
    BY <1>1, <1>3, <2>1, HeldLess
<1>4. ASSUME NEW w \in op[d].rows, DeleteFiles(d, w)
      PROVE  HeldInv'
  <2>1. PICK success \in BOOLEAN :
          op' = [op EXCEPT ![d].rows = @ \ {w}, ![d].current = IF success THEN {w} ELSE {}]
    BY <1>4 DEF DeleteFiles
  <2>2. Held(d)' \subseteq Held(d) /\ \A e \in Deleters : e # d => op'[e] = op[e]
    BY <1>2, <2>1 DEF Held, Deletion
  <2> QED
    BY <1>3, <2>2
<1>5. CASE CommitDelete(d)
  <2>1. op' = [op EXCEPT ![d].current = {}, ![d].deleted = @ + 1]
    BY <1>5 DEF CommitDelete
  <2>2. Held(d)' \subseteq Held(d) /\ \A e \in Deleters : e # d => op'[e] = op[e]
    BY <1>2, <2>1 DEF Held, Deletion
  <2> QED
    BY <1>3, <2>2
<1>6. CASE StageMovies(d)
  <2> DEFINE Staged(w) == [w EXCEPT !.files = FilesOf(w.row.movie)]
  <2>1. /\ op[d].current = {}
        /\ op' = [op EXCEPT ![d].pc = "movies", ![d].rows = {Staged(w) : w \in op[d].rows}]
    BY <1>6 DEF StageMovies
  <2>2. Held(d) = op[d].rows /\ Held(d)' = {Staged(w) : w \in op[d].rows}
    BY <1>2, <2>1 DEF Held, Deletion
  <2>3. \A e \in Deleters : e # d => op'[e] = op[e]
    BY <1>2, <2>1
  <2> DEFINE g == [v \in Held(d)' |-> CHOOSE w \in op[d].rows : v = Staged(w)]
  <2>4. \A v \in Held(d)' : g[v] \in Held(d) /\ v = Staged(g[v])
    BY <2>2
  <2>5. \A w \in op[d].rows : Staged(w).row.id = w.row.id
    BY <1>2 DEF Deletion, Work
  <2>6. \A v, w \in Held(d)' : g[v].row.id = v.row.id /\ (g[v] = g[w] => v = w)
    <3> HIDE DEF g, Staged
    <3> QED
      BY <2>2, <2>4, <2>5
  <2>7. g \in [Held(d)' -> Held(d)]
    BY <2>4
  <2> HIDE DEF g
  <2> QED
    BY <1>1, <2>3, <2>6, <2>7, HeldLess
<1> QED
  BY <1>4, <1>5, <1>6 DEF DeleteNext

\* What a deletion begins with has the ids of different candidates.
LEMMA BegunHeld ==
    ASSUME WInv, NEW S
    PROVE  \A v, w \in Targets(S) : v.row.id = w.row.id => v = w
  BY DEF Targets, RowsOf, WInv, Listed

\* A deletion that begins or ends.
LEMMA OpHeld ==
    ASSUME WInv, HeldInv, NEW d \in Deleters, NEW o \in Deletion, op' = [op EXCEPT ![d] = o],
           o.current = {}, \A v, w \in o.rows : v.row.id = w.row.id => v = w,
           task' # "auto" => (IF d = "auto" THEN o.rows = {} ELSE task # "auto"),
           job'.pc # "item" => (IF d = "job" THEN o.rows = {} ELSE job.pc # "item")
    PROVE  HeldInv'
<1>1. Held(d)' = o.rows /\ \A e \in Deleters : e # d => Held(e)' = Held(e)
  BY DEF Held, WInv, DeletionsTyped
<1> QED
  BY <1>1 DEF HeldInv, Deleters

\* A step that leaves the deletions alone, and neither ends nor leaves an item.
LEMMA QuietHeld ==
    ASSUME HeldInv, UNCHANGED op, task' # "auto" => task # "auto",
           job'.pc # "item" => job.pc # "item"
    PROVE  HeldInv'
  BY DEF HeldInv, Held

\* The tasks.
LEMMA TaskHeld ==
    ASSUME WInv, HeldInv, TaskNext
    PROVE  HeldInv'
<1>1. CASE ScanRead \/ ScanCommit \/ ScanFails
  BY <1>1, QuietHeld DEF ScanRead, ScanCommit, ScanFails
<1>2. CASE SyncGather \/ SyncLoad \/ (\E m \in sync.todo : SyncUpsert(m)) \/ SyncRemove \/ SyncFails
  BY <1>2, QuietHeld DEF SyncGather, SyncLoad, SyncUpsert, SyncRemove, SyncFails
<1>3. CASE AutoStart
  BY <1>3, QuietHeld DEF AutoStart
<1>4. CASE AutoSelect
  <2>1. PICK S : BeginDelete("auto", S)
    BY <1>4 DEF AutoSelect
  <2>2. task = "auto" /\ UNCHANGED <<task, job>>
    BY <1>4 DEF AutoSelect
  <2> DEFINE o == [pc |-> "versions", rows |-> Targets(S), current |-> {},
                   found |-> Cardinality(RowsOf(S)), deleted |-> 0]
  <2>3. op' = [op EXCEPT !["auto"] = o] /\ o \in Deletion
    BY <2>1, BegunTyped DEF BeginDelete
  <2>4. o.current = {} /\ \A v, w \in o.rows : v.row.id = w.row.id => v = w
    BY BegunHeld
  <2> HIDE DEF o
  <2> QED
    BY <2>2, <2>3, <2>4, OpHeld DEF Deleters
<1>5. CASE DeleteNext("auto")
  BY <1>5, DeleteHeld DEF Deleters
<1>6. CASE AutoEnd
  <2>1. op' = [op EXCEPT !["auto"] = NoOp] /\ UNCHANGED job /\ NoOp.rows = {} /\ NoOp.current = {}
    BY <1>6 DEF AutoEnd, NoOp
  <2> QED
    BY <2>1, NoOpTyped, OpHeld DEF Deleters
<1> QED
  BY <1>1, <1>2, <1>3, <1>4, <1>5, <1>6 DEF TaskNext

\* The jobs.
LEMMA JobHeld ==
    ASSUME WInv, HeldInv, JobNextState
    PROVE  HeldInv'
<1>1. CASE JobClaim \/ JobLock \/ JobEnd \/ JobRaises \/ JobAborts
  BY <1>1, QuietHeld DEF JobClaim, JobLock, JobEnd, JobRaises, JobAborts, NoJob
<1>2. ASSUME NEW i \in job.todo, JobNext(i)
      PROVE  HeldInv'
  <2>1. BeginDelete("job", {i}) /\ job'.pc = "item" /\ UNCHANGED task
    BY <1>2 DEF JobNext, WInv, JobTyped
  <2> DEFINE o == [pc |-> "versions", rows |-> Targets({i}), current |-> {},
                   found |-> Cardinality(RowsOf({i})), deleted |-> 0]
  <2>2. op' = [op EXCEPT !["job"] = o] /\ o \in Deletion
    BY <2>1, BegunTyped DEF BeginDelete
  <2>3. o.current = {} /\ \A v, w \in o.rows : v.row.id = w.row.id => v = w
    BY BegunHeld
  <2> HIDE DEF o
  <2> QED
    BY <2>1, <2>2, <2>3, OpHeld DEF Deleters
<1>3. ASSUME NEW i \in job.todo, JobPruneBlocked(i)
      PROVE  HeldInv'
  BY <1>3, QuietHeld DEF JobPruneBlocked, WInv, JobTyped
<1>4. CASE DeleteNext("job")
  BY <1>4, DeleteHeld DEF Deleters
<1>5. CASE JobItemDone
  <2>1. op' = [op EXCEPT !["job"] = NoOp] /\ UNCHANGED task /\ NoOp.rows = {} /\ NoOp.current = {}
    BY <1>5 DEF JobItemDone, NoOp
  <2> QED
    BY <2>1, NoOpTyped, OpHeld DEF Deleters
<1> QED
  BY <1>1, <1>2, <1>3, <1>4, <1>5 DEF JobNextState, JobStep

\* Every step keeps it.
LEMMA NextHeld ==
    ASSUME WInv, HeldInv, [Next]_vars
    PROVE  HeldInv'
<1>1. CASE UNCHANGED vars
  BY <1>1, QuietHeld DEF vars, workflows
<1>2. CASE HandlerNext
  <2>1. UNCHANGED <<op, task, job>>
    BY <1>2 DEF HandlerNext, Protect, RequestProtection, ApproveProtection, DenyProtection,
         CreateDeleteRequest, ReviewRead, ApproveCommit, ApproveEnqueue, ApproveEnqueueFails,
         DenyCommit, CancelCommit, ReviewFails, QueueDeletion, workflows
  <2> QED
    BY <2>1, QuietHeld
<1>3. ASSUME NEW f \in files, FileVanishes(f)
      PROVE  HeldInv'
  BY <1>3, QuietHeld DEF FileVanishes, workflows
<1>4. CASE Stop
  BY <1>4 DEF Stop, HeldInv, Held, NoOp, Deleters
<1> QED
  BY <1>1, <1>2, <1>3, <1>4, TaskHeld, JobHeld DEF Next

\* How a row that a deletion holds may go.
Released(d, w) ==
    \/ w \in op[d].current /\ op'[d].current = {}
    \/ asked' # asked
    \/ task = "sync" /\ {f \in files : f[1] = w.row.movie} = {}
    \/ \E m \in Movies : <<m, "manual">> \in protections' \ protections

\* Rows that are all still there, with their ids and movies.
LEMMA NoRowGone ==
    ASSUME NEW w, HeldRow(w) # {}, HeldRow(w)' = {},
           \A c \in candidates : \E e \in candidates' : e.id = c.id /\ e.movie = c.movie
    PROVE  FALSE
<1>1. PICK c \in candidates : c.id = w.row.id /\ c.movie = w.row.movie
  BY DEF HeldRow, RowsOf
<1>2. PICK e \in candidates' : e.id = c.id /\ e.movie = c.movie
  BY <1>1
<1>3. e \in HeldRow(w)'
  BY <1>1, <1>2 DEF HeldRow, RowsOf
<1> QED
  BY <1>3

\* The handlers take no row but with a protection.
LEMMA HandlerReleases ==
    ASSUME HandlerNext, NEW d \in Deleters, NEW w \in Held(d), HeldRow(w) # {}, HeldRow(w)' = {}
    PROVE  Released(d, w)
<1>1. CASE candidates \subseteq candidates'
  BY <1>1, NoRowGone
<1>2. ASSUME NEW m \in Movies, NEW autoApprove \in BOOLEAN, RequestProtection(m, autoApprove)
      PROVE  Released(d, w)
  <2>1. <<m, "manual">> \notin protections
    BY <1>2 DEF RequestProtection, ProtectedMovies
  <2>2. CASE autoApprove
    BY <1>2, <2>1, <2>2 DEF RequestProtection, Released
  <2>3. CASE ~autoApprove
    BY <1>1, <1>2, <2>3 DEF RequestProtection
  <2> QED
    BY <2>2, <2>3
<1>3. ASSUME NEW a \in asked, ApproveProtection(a)
      PROVE  Released(d, w)
  BY <1>3 DEF ApproveProtection, Released
<1>4. CASE \/ \E m \in Movies : Protect(m)
           \/ \E a \in asked : DenyProtection(a)
           \/ \E r \in Requests, m \in Movies : CreateDeleteRequest(r, m)
           \/ \E g \in Reviewers, r \in Requests, decision \in {"approve", "deny", "cancel"} :
                 ReviewRead(g, r, decision)
           \/ \E g \in Reviewers : \/ ApproveCommit(g) \/ ApproveEnqueue(g) \/ ApproveEnqueueFails(g)
                                   \/ DenyCommit(g) \/ CancelCommit(g) \/ ReviewFails(g)
           \/ \E S \in SUBSET {c.id : c \in candidates} : QueueDeletion(S)
  <2>1. candidates \subseteq candidates'
    BY <1>4 DEF Protect, DenyProtection, CreateDeleteRequest, ReviewRead, ApproveCommit,
       ApproveEnqueue, ApproveEnqueueFails, DenyCommit, CancelCommit, ReviewFails,
       QueueDeletion, tables
  <2> QED
    BY <1>1, <2>1
<1> QED
  BY <1>2, <1>3, <1>4 DEF HandlerNext

\* A deletion takes the row it has deleted the files for, and no other.
LEMMA DeleteReleases ==
    ASSUME WInv, HeldInv, NEW e \in Deleters, DeleteNext(e),
           NEW d \in Deleters, d # e => Held(d) = {},
           NEW w \in Held(d), HeldRow(w) # {}, HeldRow(w)' = {}
    PROVE  Released(d, w)
<1>1. d = e
  OBVIOUS
<1>2. CASE (\E v \in op[e].rows : DeleteFiles(e, v)) \/ StageMovies(e)
  BY <1>2, NoRowGone DEF DeleteFiles, StageMovies, tables
<1>3. CASE CommitDelete(e)
  <2>1. PICK v \in op[e].current :
          /\ candidates' = candidates \ RowsOf({v.row.id})
          /\ op' = [op EXCEPT ![e].current = {}, ![e].deleted = @ + 1]
    BY <1>3 DEF CommitDelete
  <2>2. CASE v = w
    <3>1. op'[d].current = {}
      BY <1>1, <2>1 DEF WInv, DeletionsTyped, Deletion
    <3> QED
      BY <1>1, <2>2, <3>1 DEF Released
  <2>3. CASE v # w
    <3>1. v.row.id # w.row.id
      BY <1>1, <2>3 DEF HeldInv, Held
    <3>2. HeldRow(w)' = HeldRow(w)
      BY <2>1, <3>1 DEF HeldRow, RowsOf
    <3> QED
      BY <3>2
  <2> QED
    BY <2>2, <2>3
<1> QED
  BY <1>2, <1>3 DEF DeleteNext

\* A scan runs while nothing is held; a sync takes the rows of movies whose
\* files are gone.
LEMMA TaskReleases ==
    ASSUME WInv, HeldInv, LockHolder, SyncCovers, TaskNext,
           NEW d \in Deleters, NEW w \in Held(d), HeldRow(w) # {}, HeldRow(w)' = {}
    PROVE  Released(d, w)
<1>1. CASE ScanCommit
  <2>1. task = "scan" /\ lock = "scan" /\ job.pc # "item"
    BY <1>1 DEF ScanCommit, LockHolder
  <2> QED
    BY <2>1 DEF HeldInv, Deleters
<1>2. ASSUME NEW m \in sync.todo, SyncUpsert(m)
      PROVE  Released(d, w)
  <2>1. PICK enforced \in BOOLEAN :
           candidates' = {IF <<c.movie, c.copy>> \in FilesOf(m) \ sync.found
                          THEN Orphaned(c, enforced) ELSE c : c \in candidates}
    BY <1>2 DEF SyncUpsert
  <2> DEFINE after == [c \in candidates |->
                          IF <<c.movie, c.copy>> \in FilesOf(m) \ sync.found
                          THEN Orphaned(c, enforced) ELSE c]
  <2>2. candidates' = {after[c] : c \in candidates}
    BY <2>1
  <2>3. \A c \in candidates : after[c].id = c.id /\ after[c].movie = c.movie
    BY DEF Orphaned, WInv, Listed, Candidate
  <2>4. \A c \in candidates : \E e \in candidates' : e.id = c.id /\ e.movie = c.movie
    <3> HIDE DEF after
    <3> QED
      BY <2>2, <2>3
  <2> QED
    BY <2>4, NoRowGone
<1>3. CASE SyncRemove
  <2>1. candidates' = {c \in candidates : c.movie \notin NotListed}
    BY <1>3 DEF SyncRemove
  <2>2. w.row.movie \in NotListed
    BY <2>1 DEF HeldRow, RowsOf
  <2>3. {f \in files : f[1] = w.row.movie} = {} /\ task = "sync"
    BY <1>3, <2>2 DEF SyncRemove, SyncCovers, NotListed
  <2> QED
    BY <2>3 DEF Released
<1>4. CASE DeleteNext("auto")
  <2>1. CASE d = "auto"
    BY <1>4, <2>1, DeleteReleases DEF Deleters
  <2>2. CASE d # "auto"
    <3>1. task = "auto" \/ UNCHANGED candidates
      BY <1>4 DEF DeleteNext, DeleteFiles, CommitDelete, StageMovies, tables, HeldInv, Held
    <3>2. CASE task = "auto"
      BY <2>2, <3>2 DEF LockHolder, HeldInv, Deleters
    <3>3. CASE UNCHANGED candidates
      BY <3>3, NoRowGone
    <3> QED
      BY <3>1, <3>2, <3>3
  <2> QED
    BY <2>1, <2>2
<1>5. CASE \/ ScanRead \/ ScanFails \/ SyncGather \/ SyncLoad \/ SyncFails
           \/ AutoStart \/ AutoSelect \/ AutoEnd
  BY <1>5, NoRowGone DEF ScanRead, ScanFails, SyncGather, SyncLoad, SyncFails, AutoStart,
     AutoSelect, AutoEnd, tables
<1> QED
  BY <1>1, <1>2, <1>3, <1>4, <1>5 DEF TaskNext

\* A job takes the rows of its request only when it has ended.
LEMMA JobReleases ==
    ASSUME WInv, HeldInv, LockHolder, JobNextState,
           NEW d \in Deleters, NEW w \in Held(d), HeldRow(w) # {}, HeldRow(w)' = {}
    PROVE  Released(d, w)
<1>1. CASE JobEnd \/ JobRaises
  <2>1. job.pc = "next" /\ lock = "job"
    BY <1>1 DEF JobEnd, JobRaises, LockHolder
  <2> QED
    BY <2>1 DEF HeldInv, LockHolder, Deleters
<1>2. CASE DeleteNext("job")
  <2>1. CASE d = "job"
    BY <1>2, <2>1, DeleteReleases DEF Deleters
  <2>2. CASE d # "job"
    <3>1. job.pc = "item" \/ UNCHANGED candidates
      BY <1>2 DEF DeleteNext, DeleteFiles, CommitDelete, StageMovies, tables, HeldInv, Held
    <3>2. CASE job.pc = "item"
      BY <2>2, <3>2 DEF LockHolder, HeldInv, Deleters
    <3>3. CASE UNCHANGED candidates
      BY <3>3, NoRowGone
    <3> QED
      BY <3>1, <3>2, <3>3
  <2> QED
    BY <2>1, <2>2
<1>3. CASE \/ JobClaim \/ JobLock \/ JobItemDone \/ JobAborts
           \/ \E i \in job.todo : JobNext(i) \/ JobPruneBlocked(i)
  BY <1>3, NoRowGone DEF JobClaim, JobLock, JobItemDone, JobAborts, JobNext, JobPruneBlocked, tables
<1> QED
  BY <1>1, <1>2, <1>3 DEF JobNextState, JobStep

\* While a deletion holds a candidate no scan and no other deletion takes its
\* row: what candidate_workflow_lock is for, over any syncs, requests and stops.
THEOREM HeldStays == Spec => HeldCandidatesStay
<1>1. ASSUME WInv, HeldInv, LockHolder, SyncCovers, [Next]_vars
      PROVE  [\A d \in Deleters : \A w \in op[d].rows \cup op[d].current :
                 (HeldRow(w) # {} /\ HeldRow(w)' = {}) =>
                    \/ w \in op[d].current /\ op'[d].current = {}
                    \/ asked' # asked
                    \/ task = "sync" /\ {f \in files : f[1] = w.row.movie} = {}
                    \/ \E m \in Movies : <<m, "manual">> \in protections' \ protections]_vars
  <2> SUFFICES ASSUME Next, NEW d \in Deleters, NEW w \in Held(d), HeldRow(w) # {}, HeldRow(w)' = {}
               PROVE  Released(d, w)
    BY <1>1 DEF Held, Released
  <2>1. CASE HandlerNext
    BY <2>1, HandlerReleases
  <2>2. CASE TaskNext
    BY <1>1, <2>2, TaskReleases
  <2>3. CASE JobNextState
    BY <1>1, <2>3, JobReleases
  <2>4. CASE (\E f \in files : FileVanishes(f)) \/ Stop
    BY <2>4, NoRowGone DEF FileVanishes, Stop, tables
  <2> QED
    BY <2>1, <2>2, <2>3, <2>4 DEF Next
<1>2. GoneInv => SyncCovers
  BY DEF GoneInv
<1>3. WInv /\ HeldInv /\ [Next]_vars => HeldInv'
  BY NextHeld
<1> QED
  BY <1>1, <1>2, <1>3, InitHeld, WorkflowInvariance, HolderHolds, GoneHolds, PTL
  DEF Spec, HeldCandidatesStay
=============================================================================
