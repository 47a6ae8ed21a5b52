------------------------- MODULE CandidateWorkflow -------------------------
(***************************************************************************)
(* The life of a cleanup candidate, from the scan or the approved request  *)
(* that creates it to the deletion of its files.  Five actors share the    *)
(* reclaim_candidates, delete_requests and protected_media tables:         *)
(*                                                                         *)
(*   - the cleanup scan and the automatic deletion (backend/tasks/         *)
(*     cleanup.py) and the sync of the library (backend/tasks/sync.py):    *)
(*     tasks of the default worker, one at a time;                         *)
(*   - candidate file operation jobs (backend/jobs/candidate_file_ops.py), *)
(*     on the file operation worker;                                       *)
(*   - the API handlers, which take no lock and run between any two awaits *)
(*     of the others.                                                      *)
(*                                                                         *)
(* candidate_workflow_lock (backend/core/workflow_locks.py) serializes the *)
(* scan, the automatic deletion and the jobs; the sync does not take it.   *)
(*                                                                         *)
(* The deployment modelled deletes movies through the main media server,   *)
(* without Radarr, favorites or moves.  Protections and requests are for   *)
(* whole movies; candidates of the rules are for single versions.  Rules,  *)
(* delays and provider failures are free choices.  Files may vanish from   *)
(* the server by themselves; new ones are not added.                       *)
(***************************************************************************)
EXTENDS Naturals, Sequences, FiniteSets

CONSTANTS
    Library,          \* files at the start: pairs <<movie, version>>
    Whole,            \* movie_version_id NULL: the candidate is for the movie
    RuleProtectable,  \* movies a protection rule may match
    Requests,         \* delete requests there can be
    NoRequest,
    Reviewers,        \* coroutines that approve, deny or cancel delete requests
    MaxId,            \* bound: candidate ids
    MaxScans, MaxAutos, MaxSyncs,  \* bounds: runs of each task
    MaxVanished,      \* bound: files deleted outside the program
    MaxManual,        \* bound: deletions queued by hand
    MaxProtections,   \* bound: protections made or asked for by users
    MaxErrors,        \* bound: failed writes to the jobs table
    MaxStops          \* bound: crashes and shutdowns

Movies == {f[1] : f \in Library}
Copies == {f[2] : f \in Library}

ASSUME WorkflowAssumption ==
    /\ IsFiniteSet(Library) /\ Library # {} /\ Library \subseteq Movies \X Copies
    /\ Whole \notin Copies
    /\ RuleProtectable \subseteq Movies
    /\ NoRequest \notin Requests
    /\ {MaxId, MaxScans, MaxAutos, MaxSyncs, MaxVanished, MaxManual, MaxProtections,
        MaxErrors, MaxStops} \subseteq Nat

Ids == 1..MaxId
Deleters == {"auto", "job"}
Bounds == {"scans", "autos", "syncs", "vanished", "manual", "protections", "errors", "stops"}

VARIABLES
    files,        \* what the media server holds
    versions,     \* movie_versions rows, as the files they describe
    removed,      \* movies with removed_at set
    candidates,   \* reclaim_candidates rows
    request,      \* request[r]: a delete_requests row and its outcome
    protections,  \* active protected_media rows: <<movie, source>>
    asked,        \* pending protection_requests: movie and candidate_id (0: NULL)
    queue,        \* pending candidate file operation jobs, oldest first
    review,       \* review[g]: a coroutine inside approve, deny or cancel
    lock,         \* holder of candidate_workflow_lock
    task,         \* what the default worker runs
    scan,         \* what the running scan has read
    sync,         \* what the running sync has read
    op,           \* op[d]: the delete_specific_candidates call of a deleter
    job,          \* the file operation job being run
    used          \* used[b]: how much of bound b is spent

tables    == <<versions, removed, candidates, request, protections, asked>>
handlers  == <<queue, review>>
workflows == <<lock, task, scan, sync, op, job>>
vars == <<files, tables, handlers, workflows, used>>

\* Mutant: the movie and its version swapped.
Row_Swapped(i, f, S) == [id |-> i, movie |-> f[2], copy |-> f[1], selected |-> S]

\* `selected' is a ghost: the files the row stands for when it is created.
Row(i, f, S) == [id |-> i, movie |-> f[1], copy |-> f[2], selected |-> S]

RowsOf(S) == {c \in candidates : c.id \in S}
FilesOf(m) == {f \in versions : f[1] = m}
ProtectedMovies == {p[1] : p \in protections}

\* SQLite reuses the id of a deleted last row: there is no AUTOINCREMENT.
NextId == IF candidates = {} THEN 1
          ELSE 1 + CHOOSE i \in {c.id : c \in candidates} : \A c \in candidates : c.id <= i

Spend(b, limit) == used[b] < limit /\ used' = [used EXCEPT ![b] = @ + 1]

NoScan == [records |-> {}, protect |-> {}]
NoSync == [found |-> {}, loaded |-> FALSE, active |-> {}, todo |-> {}]
NoOp == [pc |-> "idle", rows |-> {}, current |-> {}, found |-> 0, deleted |-> 0]
NoJob == [pc |-> "none", ids |-> {}, todo |-> {}, succeeded |-> 0, failed |-> 0,
          request |-> NoRequest]
NoReview == [pc |-> "idle", request |-> NoRequest, candidate |-> 0]

-----------------------------------------------------------------------------
(* API handlers: protections                                               *)

\* create_protection_entry: candidates of the movie stay.
Protect(m) ==
    /\ m \notin removed
    /\ <<m, "manual">> \notin protections
    /\ Spend("protections", MaxProtections)
    /\ protections' = protections \cup {<<m, "manual">>}
    /\ UNCHANGED <<files, versions, removed, candidates, request, asked, handlers, workflows>>

\* The candidate of the whole movie; scalar_one_or_none raises if there are two.
WholeRows(m) == {c \in candidates : c.movie = m /\ c.copy = Whole}

\* create_request, by a user who may approve their own request or may not.
RequestProtection(m, autoApprove) ==
    /\ m \notin removed \cup ProtectedMovies
    /\ \A a \in asked : a.movie # m
    /\ Cardinality(WholeRows(m)) <= 1
    /\ Spend("protections", MaxProtections)
    /\ IF autoApprove
       THEN /\ protections' = protections \cup {<<m, "manual">>}
            /\ candidates' = candidates \ WholeRows(m)
            /\ UNCHANGED asked
       ELSE /\ \E i \in IF WholeRows(m) = {} THEN {0} ELSE {c.id : c \in WholeRows(m)} :
                   asked' = asked \cup {[movie |-> m, candidate |-> i]}
            /\ UNCHANGED <<protections, candidates>>
    /\ UNCHANGED <<files, versions, removed, request, handlers, workflows>>

\* approve_request removes the one candidate the request names.  Its reference
\* to a row that is gone is NULL or, from a connection that does not enforce
\* foreign keys, left as it was, for the row that takes the id.
ApproveProtection(a) ==
    /\ a \in asked
    /\ asked' = asked \ {a}
    /\ protections' = protections \cup {<<a.movie, "manual">>}
    /\ \E i \in {0, a.candidate} : candidates' = candidates \ RowsOf({i})
    /\ UNCHANGED <<files, versions, removed, request, handlers, workflows, used>>

DenyProtection(a) ==
    /\ a \in asked
    /\ asked' = asked \ {a}
    /\ UNCHANGED <<files, versions, removed, candidates, request, protections, handlers,
                   workflows, used>>

-----------------------------------------------------------------------------
(* API handlers: delete requests and manual deletions                      *)

\* One user asks: a second request for the movie is refused while one is pending.
CreateDeleteRequest(r, m) ==
    /\ request[r].status = "NONE"
    /\ m \notin removed \cup ProtectedMovies
    /\ \A q \in Requests : ~(request[q].status = "PENDING" /\ request[q].movie = m)
    /\ request' = [request EXCEPT ![r] = [status |-> "PENDING", movie |-> m, outcome |-> {}]]
    /\ UNCHANGED <<files, versions, removed, candidates, protections, asked, handlers,
                   workflows, used>>

\* approve_, deny_ and cancel_delete_request read the request ...
ReviewRead(g, r, decision) ==
    /\ review[g].pc = "idle"
    /\ request[r].status = "PENDING"
    /\ review' = [review EXCEPT ![g] = [pc |-> decision, request |-> r, candidate |-> 0]]
    /\ UNCHANGED <<files, tables, queue, workflows, used>>

\* ... and write it some awaits later, whatever its status has become; only a
\* row that is gone cannot be written.  Approving adds a candidate for the movie
\* in the same transaction.
ApproveCommit(g) ==
    LET r == review[g].request
        m == request[r].movie
    IN  /\ review[g].pc = "approve"
        /\ request[r].status # "CANCELLED"
        /\ NextId \in Ids
        /\ request' = [request EXCEPT ![r].status = "APPROVED"]
        /\ candidates' = candidates \cup {Row(NextId, <<m, Whole>>, {f \in Library : f[1] = m})}
        /\ review' = [review EXCEPT ![g].pc = "approved", ![g].candidate = NextId]
        /\ UNCHANGED <<files, versions, removed, protections, asked, queue, workflows, used>>

\* The job is queued in a transaction of its own.
ApproveEnqueue(g) ==
    /\ review[g].pc = "approved"
    /\ queue' = Append(queue, [ids |-> {review[g].candidate}, request |-> review[g].request])
    /\ review' = [review EXCEPT ![g] = NoReview]
    /\ UNCHANGED <<files, tables, workflows, used>>

ApproveEnqueueFails(g) ==
    /\ review[g].pc = "approved"
    /\ Spend("errors", MaxErrors)
    /\ review' = [review EXCEPT ![g] = NoReview]
    /\ UNCHANGED <<files, tables, queue, workflows>>

DenyCommit(g) ==
    /\ review[g].pc = "deny"
    /\ request[review[g].request].status # "CANCELLED"
    /\ request' = [request EXCEPT ![review[g].request].status = "DENIED"]
    /\ review' = [review EXCEPT ![g] = NoReview]
    /\ UNCHANGED <<files, versions, removed, candidates, protections, asked, queue,
                   workflows, used>>

\* Cancelling deletes the row.
CancelCommit(g) ==
    /\ review[g].pc = "cancel"
    /\ request' = [request EXCEPT ![review[g].request].status = "CANCELLED"]
    /\ review' = [review EXCEPT ![g] = NoReview]
    /\ UNCHANGED <<files, versions, removed, candidates, protections, asked, queue,
                   workflows, used>>

\* The UPDATE of a cancelled request matches no row: rolled back, an error to
\* the manager.
ReviewFails(g) ==
    /\ review[g].pc \in {"approve", "deny"}
    /\ request[review[g].request].status = "CANCELLED"
    /\ review' = [review EXCEPT ![g] = NoReview]
    /\ UNCHANGED <<files, tables, queue, workflows, used>>

\* delete_candidates queues what an administrator picked from the list.
QueueDeletion(S) ==
    /\ S # {}
    /\ Spend("manual", MaxManual)
    /\ queue' = Append(queue, [ids |-> S, request |-> NoRequest])
    /\ UNCHANGED <<files, tables, review, workflows>>

-----------------------------------------------------------------------------
(* scan_cleanup_candidates                                                 *)

\* The versions the rules may select when the protection rules have matched P.
Matches(P) == SUBSET {f \in versions : /\ f[1] \notin removed \cup P
                                       /\ <<f[1], "manual">> \notin protections}

\* Mutant: the scan does not wait for the lock.
ScanRead_Unguarded ==
    /\ task = "none"
    /\ Spend("scans", MaxScans)
    /\ task' = "scan" /\ lock' = "scan"
    /\ \E P \in SUBSET (RuleProtectable \ removed) : \E M \in Matches(P) :
          scan' = [records |-> M, protect |-> P]
    /\ UNCHANGED <<files, tables, handlers, sync, op, job>>

\* The scan takes the lock and evaluates the rules, the protection rules first:
\* they take precedence.
ScanRead ==
    /\ task = "none" /\ lock = "free"
    /\ Spend("scans", MaxScans)
    /\ task' = "scan" /\ lock' = "scan"
    /\ \E P \in SUBSET (RuleProtectable \ removed) : \E M \in Matches(P) :
          scan' = [records |-> M, protect |-> P]
    /\ UNCHANGED <<files, tables, handlers, sync, op, job>>

\* _sync_movie_version_candidates: rows of versions that matched are kept, other
\* versions that matched get one, and every other row is stale, those of whole
\* movies included.
Kept == {c \in candidates : <<c.movie, c.copy>> \in scan.records}
\* Mutant: existing candidates are not looked up.
NewRecords_All == scan.records

NewRecords == scan.records \ {<<c.movie, c.copy>> : c \in candidates}

\* Ids of new rows, which are inserted before the stale rows are deleted.
Numberings(S) == {n \in [S -> NextId..(NextId + Cardinality(S) - 1)] :
                     \A x, y \in S : n[x] = n[y] => x = y}

\* Protections of the rules follow what the rules match; those of users stay.
Reconciled == {p \in protections : p[2] # "rule"} \cup {<<m, "rule">> : m \in scan.protect}

\* The candidates are read and written in one transaction with the protections.
ScanCommit ==
    /\ task = "scan"
    /\ NextId + Cardinality(NewRecords) <= MaxId + 1
    /\ \E n \in Numberings(NewRecords) :
          candidates' = Kept \cup {Row(n[f], f, {f}) : f \in NewRecords}
    /\ protections' = Reconciled
    /\ task' = "none" /\ lock' = "free" /\ scan' = NoScan
    /\ UNCHANGED <<files, versions, removed, request, asked, handlers, sync, op, job, used>>

\* A provider or the database fails: everything is rolled back.
ScanFails ==
    /\ task = "scan"
    /\ task' = "none" /\ lock' = "free" /\ scan' = NoScan
    /\ UNCHANGED <<files, tables, handlers, sync, op, job, used>>

-----------------------------------------------------------------------------
(* sync_movies of sync_media, without the lock                             *)

\* Mutant: a library that does not answer is skipped.
SyncGather_Partial ==
    /\ task = "none" /\ files # {}
    /\ Spend("syncs", MaxSyncs)
    /\ task' = "sync"
    /\ \E S \in SUBSET files : sync' = [NoSync EXCEPT !.found = S]
    /\ UNCHANGED <<files, tables, handlers, lock, scan, op, job>>

\* What the server lists, in all its libraries; nothing at all ends the sync.
SyncGather ==
    /\ task = "none" /\ files # {}
    /\ Spend("syncs", MaxSyncs)
    /\ task' = "sync"
    /\ sync' = [NoSync EXCEPT !.found = files]
    /\ UNCHANGED <<files, tables, handlers, lock, scan, op, job>>

\* The movies are loaded once, before their versions are brought up to date.
SyncLoad ==
    /\ task = "sync" /\ ~sync.loaded
    /\ sync' = [sync EXCEPT !.loaded = TRUE, !.active = Movies \ removed,
                           !.todo = {f[1] : f \in sync.found}]
    /\ UNCHANGED <<files, tables, handlers, lock, task, scan, op, job, used>>

\* A candidate whose version row is deleted: ON DELETE SET NULL takes effect on
\* the connections that had foreign keys enabled by an earlier API request.
Orphaned(c, enforced) == IF enforced THEN [c EXCEPT !.copy = Whole] ELSE c

\* A movie that is listed is restored if it was removed when it was loaded.
Restored(m) == IF m \in sync.active THEN removed ELSE removed \ {m}

\* _upsert_movie_versions, for a movie that is listed.
SyncUpsert(m) ==
    /\ m \in sync.todo
    /\ sync' = [sync EXCEPT !.todo = @ \ {m}]
    /\ versions' = (versions \ FilesOf(m)) \cup {f \in sync.found : f[1] = m}
    /\ removed' = Restored(m)
    /\ \E enforced \in BOOLEAN :
          candidates' = {IF <<c.movie, c.copy>> \in FilesOf(m) \ sync.found
                         THEN Orphaned(c, enforced) ELSE c : c \in candidates}
    /\ UNCHANGED <<files, request, protections, asked, handlers, lock, task, scan, op, job, used>>

NotListed == sync.active \ {f[1] : f \in sync.found}

\* Movies the server no longer lists are removed, with all that refers to them.
SyncRemove ==
    /\ task = "sync" /\ sync.loaded /\ sync.todo = {}
    /\ removed' = removed \cup NotListed
    /\ candidates' = {c \in candidates : c.movie \notin NotListed}
    /\ protections' = {p \in protections : p[1] \notin NotListed}
    /\ asked' = {a \in asked : a.movie \notin NotListed}
    /\ task' = "none" /\ sync' = NoSync
    /\ UNCHANGED <<files, versions, request, handlers, lock, scan, op, job, used>>

\* The server, TMDB or the database fails: batches that are committed stay.
SyncFails ==
    /\ task = "sync"
    /\ task' = "none" /\ sync' = NoSync
    /\ UNCHANGED <<files, tables, handlers, lock, scan, op, job, used>>

\* A file is deleted or lost outside the program.
FileVanishes(f) ==
    /\ Spend("vanished", MaxVanished)
    /\ files' = files \ {f}
    /\ UNCHANGED <<tables, handlers, workflows>>

-----------------------------------------------------------------------------
(* delete_specific_candidates, called by a deleter d that holds the lock   *)

\* Rows of movies that are already removed are found but not deleted.
Loadable(c) == c.movie \notin removed

\* What each of them stands for: its version if the row is still there; the
\* versions of whole movies are loaded later.
Targets(S) == {[row |-> c, files |-> {<<c.movie, c.copy>>} \cap versions]
                  : c \in {c \in RowsOf(S) : Loadable(c)}}

BeginDelete(d, S) ==
    op' = [op EXCEPT ![d] = [pc |-> "versions", rows |-> Targets(S), current |-> {},
                             found |-> Cardinality(RowsOf(S)), deleted |-> 0]]

\* Requests to the media server: a movie is deleted item by item and may be left
\* half deleted.  After an error, which may follow the deletion, the row stays.
DeleteFiles(d, w) ==
    /\ op[d].pc = IF w.row.copy = Whole THEN "movies" ELSE "versions"
    /\ op[d].current = {}
    /\ w \in op[d].rows
    /\ \E S \in SUBSET w.files, success \in BOOLEAN :
          /\ success => S = w.files /\ S # {}
          /\ files' = files \ S
          /\ op' = [op EXCEPT ![d].rows = @ \ {w}, ![d].current = IF success THEN {w} ELSE {}]
    /\ UNCHANGED <<tables, handlers, lock, task, scan, sync, job, used>>

\* Mutant: remaining versions are not looked for.
NowEmpty_Any(w) == w.files \cap versions # {}

\* A version's movie is removed once no version is left.
NowEmpty(w) == w.files \cap versions # {} /\ FilesOf(w.row.movie) \subseteq w.files

\* The rows are brought up to date after the files are gone.
CommitDelete(d) ==
    \E w \in op[d].current :
       /\ candidates' = candidates \ RowsOf({w.row.id})
       /\ IF w.row.copy = Whole
          THEN removed' = removed \cup {w.row.movie} /\ UNCHANGED versions
          ELSE /\ versions' = versions \ w.files
               /\ removed' = IF NowEmpty(w) THEN removed \cup {w.row.movie} ELSE removed
       /\ op' = [op EXCEPT ![d].current = {}, ![d].deleted = @ + 1]
       /\ UNCHANGED <<files, request, protections, asked, handlers, lock, task, scan, sync, job, used>>

\* Whole movies come after the versions, with the versions known by then.
StageMovies(d) ==
    /\ op[d].pc = "versions" /\ op[d].current = {}
    /\ \A w \in op[d].rows : w.row.copy = Whole
    /\ op' = [op EXCEPT ![d].pc = "movies",
                        ![d].rows = {[w EXCEPT !.files = FilesOf(w.row.movie)] : w \in @}]
    /\ UNCHANGED <<files, tables, handlers, lock, task, scan, sync, job, used>>

DeleteDone(d) == op[d].pc = "movies" /\ op[d].rows = {} /\ op[d].current = {}

-----------------------------------------------------------------------------
(* delete_cleanup_candidates                                               *)

AutoStart ==
    /\ task = "none" /\ lock = "free"
    /\ Spend("autos", MaxAutos)
    /\ task' = "auto" /\ lock' = "auto"
    /\ UNCHANGED <<files, tables, handlers, scan, sync, op, job>>

Blocked == ProtectedMovies \cup {a.movie : a \in asked}
           \cup {request[r].movie : r \in {r \in Requests : request[r].status = "PENDING"}}

\* Eligible candidates are not blocked and past their delay, which depends on
\* the clock; nothing is checked again later.
AutoSelect ==
    /\ task = "auto" /\ op["auto"] = NoOp
    /\ \E S \in SUBSET {c.id : c \in {c \in candidates : c.movie \notin Blocked}} :
          /\ S # {}
          /\ BeginDelete("auto", S)
    /\ UNCHANGED <<files, tables, handlers, lock, task, scan, sync, job, used>>

\* The task ends, with its deletions done, nothing eligible or an error.
AutoEnd ==
    /\ task = "auto"
    /\ op["auto"] = NoOp \/ DeleteDone("auto")
    /\ task' = "none" /\ lock' = "free"
    /\ op' = [op EXCEPT !["auto"] = NoOp]
    /\ UNCHANGED <<files, tables, handlers, scan, sync, job, used>>

-----------------------------------------------------------------------------
(* run_candidate_file_op_job                                               *)

JobClaim ==
    /\ job.pc = "none"
    /\ queue # <<>>
    /\ queue' = Tail(queue)
    /\ job' = [NoJob EXCEPT !.pc = "waiting", !.ids = Head(queue).ids, !.todo = Head(queue).ids,
                            !.request = Head(queue).request]
    /\ UNCHANGED <<files, tables, review, lock, task, scan, sync, op, used>>

\* Mutant: the job does not wait for the lock.
JobLock_Unguarded ==
    /\ job.pc = "waiting"
    /\ lock' = "job"
    /\ job' = [job EXCEPT !.pc = "next"]
    /\ UNCHANGED <<files, tables, handlers, task, scan, sync, op, used>>

JobLock ==
    /\ job.pc = "waiting"
    /\ lock = "free"
    /\ lock' = "job"
    /\ job' = [job EXCEPT !.pc = "next"]
    /\ UNCHANGED <<files, tables, handlers, task, scan, sync, op, used>>

JobNext(i) ==
    /\ job.pc = "next"
    /\ i \in job.todo
    /\ job' = [job EXCEPT !.pc = "item", !.todo = @ \ {i}]
    /\ BeginDelete("job", {i})
    /\ UNCHANGED <<files, tables, handlers, lock, task, scan, sync, used>>

\* The Leaving Soon collection could not be pruned: the item fails untouched.
JobPruneBlocked(i) ==
    /\ job.pc = "next"
    /\ i \in job.todo
    /\ job' = [job EXCEPT !.todo = @ \ {i}, !.failed = @ + 1]
    /\ UNCHANGED <<files, tables, handlers, lock, task, scan, sync, op, used>>

\* Mutant: a candidate that is gone counts for nothing.
ItemSucceeded_DeletedOnly(o) == o.deleted

\* Nothing found counts as a success: "a prior cascading delete/move may
\* already have removed this candidate".
ItemSucceeded(o) == IF o.found = 0 THEN 1 ELSE o.deleted

JobItemDone ==
    /\ job.pc = "item"
    /\ DeleteDone("job")
    /\ job' = [job EXCEPT !.pc = "next",
                          !.succeeded = @ + ItemSucceeded(op["job"]),
                          !.failed = @ + (op["job"].found - op["job"].deleted)]
    /\ op' = [op EXCEPT !["job"] = NoOp]
    /\ UNCHANGED <<files, tables, handlers, lock, task, scan, sync, used>>

\* _finalize_delete_request_job records the outcome; after a failure the
\* candidate the job was queued for is removed.
Finalize(succeeded, failed) ==
    LET r == job.request
        success == succeeded > 0 /\ failed = 0
    IN  IF r = NoRequest \/ request[r].status = "CANCELLED"
        THEN UNCHANGED <<request, candidates>>
        ELSE /\ request' = [request EXCEPT ![r].outcome =
                               IF success THEN {"executed"} ELSE @ \cup {"error"}]
             /\ candidates' = IF success THEN candidates ELSE candidates \ RowsOf(job.ids)

JobEnd ==
    /\ job.pc = "next" /\ job.todo = {}
    /\ Finalize(job.succeeded, job.failed)
    /\ lock' = "free"
    /\ job' = NoJob
    /\ UNCHANGED <<files, versions, removed, protections, asked, handlers, task, scan, sync, op, used>>

\* Mutant: an exception leaves the request without an outcome.
JobRaises_NoOutcome ==
    /\ job.pc = "next" /\ job.todo # {}
    /\ lock' = "free"
    /\ job' = NoJob
    /\ UNCHANGED <<files, tables, handlers, task, scan, sync, op, used>>

\* An exception ends the job early; what was not completed counts as failed.
JobRaises ==
    /\ job.pc = "next" /\ job.todo # {}
    /\ Finalize(job.succeeded, IF Cardinality(job.todo) > job.failed THEN Cardinality(job.todo)
                               ELSE job.failed)
    /\ lock' = "free"
    /\ job' = NoJob
    /\ UNCHANGED <<files, versions, removed, protections, asked, handlers, task, scan, sync, op, used>>

\* The last progress, or the one saved for an exception, cannot be written: the
\* job ends before its outcome is recorded.
JobAborts ==
    /\ job.pc = "next"
    /\ Spend("errors", MaxErrors)
    /\ lock' = "free"
    /\ job' = NoJob
    /\ UNCHANGED <<files, tables, handlers, task, scan, sync, op>>

-----------------------------------------------------------------------------

\* A crash or a shutdown: coroutines and the lock are gone, the running job
\* will be marked FAILED, pending jobs stay.
Stop ==
    /\ Spend("stops", MaxStops)
    /\ review' = [g \in Reviewers |-> NoReview]
    /\ lock' = "free" /\ task' = "none" /\ scan' = NoScan /\ sync' = NoSync
    /\ op' = [d \in Deleters |-> NoOp]
    /\ job' = NoJob
    /\ UNCHANGED <<files, tables, queue>>

Init ==
    /\ files = Library /\ versions = Library
    /\ removed = {} /\ candidates = {} /\ protections = {} /\ asked = {}
    /\ request = [r \in Requests |-> [status |-> "NONE", movie |-> CHOOSE m \in Movies : TRUE,
                                      outcome |-> {}]]
    /\ queue = <<>>
    /\ review = [g \in Reviewers |-> NoReview]
    /\ lock = "free" /\ task = "none" /\ scan = NoScan /\ sync = NoSync
    /\ op = [d \in Deleters |-> NoOp]
    /\ job = NoJob
    /\ used = [b \in Bounds |-> 0]

HandlerNext ==
    \/ \E m \in Movies : Protect(m)
    \/ \E m \in Movies, autoApprove \in BOOLEAN : RequestProtection(m, autoApprove)
    \/ \E a \in asked : ApproveProtection(a)
    \/ \E a \in asked : DenyProtection(a)
    \/ \E r \in Requests, m \in Movies : CreateDeleteRequest(r, m)
    \/ \E g \in Reviewers, r \in Requests, decision \in {"approve", "deny", "cancel"} :
          ReviewRead(g, r, decision)
    \/ \E g \in Reviewers : ApproveCommit(g)
    \/ \E g \in Reviewers : ApproveEnqueue(g)
    \/ \E g \in Reviewers : ApproveEnqueueFails(g)
    \/ \E g \in Reviewers : DenyCommit(g)
    \/ \E g \in Reviewers : CancelCommit(g)
    \/ \E g \in Reviewers : ReviewFails(g)
    \/ \E S \in SUBSET {c.id : c \in candidates} : QueueDeletion(S)

DeleteNext(d) ==
    \/ \E w \in op[d].rows : DeleteFiles(d, w)
    \/ CommitDelete(d)
    \/ StageMovies(d)

TaskNext ==
    \/ ScanRead
    \/ ScanCommit
    \/ ScanFails
    \/ SyncGather
    \/ SyncLoad
    \/ \E m \in sync.todo : SyncUpsert(m)
    \/ SyncRemove
    \/ SyncFails
    \/ AutoStart
    \/ AutoSelect
    \/ DeleteNext("auto")
    \/ AutoEnd

JobStep ==
    \/ \E i \in job.todo : JobNext(i)
    \/ \E i \in job.todo : JobPruneBlocked(i)
    \/ DeleteNext("job")
    \/ JobItemDone
    \/ JobEnd
    \/ JobRaises
    \/ JobAborts

JobNextState == JobClaim \/ JobLock \/ JobStep

Next == HandlerNext \/ TaskNext \/ JobNextState \/ (\E f \in files : FileVanishes(f)) \/ Stop

\* Handlers that have started finish, tasks and jobs run to their end, and the
\* asyncio lock serves its waiters in turn, so a waiting job cannot be passed
\* over for ever.
Fairness ==
    /\ \A g \in Reviewers : WF_vars(ApproveEnqueue(g))
    /\ WF_vars(ScanCommit \/ ScanFails)
    /\ WF_vars(SyncLoad \/ (\E m \in sync.todo : SyncUpsert(m)) \/ SyncRemove \/ SyncFails)
    /\ WF_vars(AutoSelect \/ DeleteNext("auto") \/ AutoEnd)
    /\ WF_vars(JobClaim)
    /\ SF_vars(JobLock)
    /\ WF_vars(JobStep)

Spec == Init /\ [][Next]_vars
FairSpec == Spec /\ Fairness

-----------------------------------------------------------------------------
(* Properties                                                              *)

Candidate == [id : Ids, movie : Movies, copy : Copies \cup {Whole}, selected : SUBSET Library]

\* Every variable has its type; a candidate names a movie and one version or none.
TypeOK ==
    /\ files \subseteq Library /\ versions \subseteq Library
    /\ removed \subseteq Movies
    /\ candidates \subseteq Candidate
    /\ request \in [Requests -> [status : {"NONE", "PENDING", "APPROVED", "DENIED", "CANCELLED"},
                                 movie : Movies, outcome : SUBSET {"executed", "error"}]]
    /\ protections \subseteq Movies \X {"manual", "rule"}
    /\ asked \subseteq [movie : Movies, candidate : Nat]
    /\ queue \in Seq([ids : SUBSET Ids, request : Requests \cup {NoRequest}])
    /\ review \in [Reviewers -> [pc : {"idle", "approve", "approved", "deny", "cancel"},
                                 request : Requests \cup {NoRequest}, candidate : Nat]]
    /\ lock \in {"free", "scan", "auto", "job"}
    /\ task \in {"none", "scan", "sync", "auto"}
    /\ scan \in [records : SUBSET Library, protect : SUBSET Movies]
    /\ sync \in [found : SUBSET Library, loaded : BOOLEAN, active : SUBSET Movies,
                 todo : SUBSET Movies]
    /\ op \in [Deleters -> [pc : {"idle", "versions", "movies"},
                            rows : SUBSET [row : Candidate, files : SUBSET Library],
                            current : SUBSET [row : Candidate, files : SUBSET Library],
                            found : Nat, deleted : Nat]]
    /\ job \in [pc : {"none", "waiting", "next", "item"}, ids : SUBSET Ids, todo : SUBSET Ids,
                succeeded : Nat, failed : Nat, request : Requests \cup {NoRequest}]
    /\ used \in [Bounds -> Nat]

\* The scan, the automatic deletion and a file operation job exclude each other:
\* "candidate scans, tag reconciliation, and file operations must not race".
OneWorkflowAtATime == ~(task \in {"scan", "auto"} /\ job.pc \in {"next", "item"})

\* The row a held candidate was read from, as the table has it now; an id that was
\* freed may be given to a candidate of another movie.
HeldRow(w) == {c \in RowsOf({w.row.id}) : c.movie = w.row.movie}

\* While a deletion holds a candidate its row is removed by that deletion, by the
\* approval of a protection or by a sync that finds the movie gone, never by a scan
\* or another deletion.
HeldCandidatesStay ==
    [][\A d \in Deleters : \A w \in op[d].rows \cup op[d].current :
          (HeldRow(w) # {} /\ HeldRow(w)' = {}) =>
             \/ w \in op[d].current /\ op'[d].current = {}
             \/ asked' # asked
             \/ task = "sync" /\ {f \in files : f[1] = w.row.movie} = {}
             \/ \E m \in Movies : <<m, "manual">> \in protections' \ protections]_vars

\* The scan keeps one candidate per version, over scans, approvals and syncs.
OneCandidatePerVersion ==
    \A c, e \in candidates : c.copy # Whole /\ c.movie = e.movie /\ c.copy = e.copy => c = e

\* A movie is marked as removed only when the server holds no file of it, whatever
\* fails or is half done on the way.
RemovedMeansGone == \A f \in files : f[1] \notin removed

\* A job accounts for each of its candidates once: as a success, as a failure or
\* as still to do; also for one that is gone by the time its turn comes.
JobTally ==
    job.pc # "none" =>
        job.succeeded + job.failed + Cardinality(job.todo) + (IF job.pc = "item" THEN 1 ELSE 0)
            = Cardinality(job.ids)

\* An approved delete request gets an outcome, whatever the deletion does, unless
\* the process stops, the jobs table fails or a concurrent review changes the request.
ApprovedIsSettled ==
    \A r \in Requests :
        request[r].status = "APPROVED" ~>
            \/ request[r].outcome # {} \/ request[r].status # "APPROVED"
            \/ used["errors"] > 0 \/ used["stops"] > 0

\* What the notification "Deletion completed for ..." of candidate_file_ops.py
\* tells the requester: the files of an executed request are gone.
ExecutedMeansDeleted ==
    \A r \in Requests : "executed" \in request[r].outcome =>
        \A f \in files : f[1] # request[r].movie

\* The files a step of the program deletes.
FilesDeleted == {f \in files \ files' : used' = used}

\* What docs/usage/how-it-works.md says: protected media is excluded from deletion.
ProtectedMediaSurvives == [][\A f \in FilesDeleted : f[1] \notin ProtectedMovies]_vars

\* What docs/usage/rules.md says: a movie version candidate is one physical file.
VersionScopeKept ==
    [][\A f \in FilesDeleted :
          \E d \in Deleters : \E w \in op[d].rows \ op'[d].rows : f \in w.row.selected]_vars

=============================================================================
