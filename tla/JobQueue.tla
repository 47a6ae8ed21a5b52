------------------------------ MODULE JobQueue ------------------------------
(***************************************************************************)
(* The durable background job queue: the background_jobs table            *)
(* (backend/jobs/queue.py), the two in-process worker loops that drain it  *)
(* (backend/core/worker.py), the callers that add to it, the start-up and  *)
(* shut-down sequence of the API process (lifespan in backend/api/main.py) *)
(* and the weekly trim of the table (backend/tasks/house_keeping.py).      *)
(*                                                                         *)
(* The process is one asyncio event loop over SQLite: a step here is what  *)
(* happens between two awaits, or one SQL statement or transaction.  What  *)
(* a job does is left to the other modules; here a run only ends well or   *)
(* badly.  Payloads, error messages and poll delays are left out.          *)
(***************************************************************************)
EXTENDS Naturals, FiniteSets

CONSTANTS
    MaxJobs,         \* bound: rows ever inserted
    MaxStamps,       \* bound: calls of enqueue_background_job
    MaxStops,        \* bound: crashes and shutdowns of the process
    MaxDbErrors,     \* bound: database errors raised in a worker loop
    KeepRecent,      \* rows the weekly trim keeps (200 in the code)
    Callers,         \* coroutines that can be inside enqueue_background_job
    ToggleKeys,      \* dedupe keys "service-toggle-<config id>"
    TaskKeys,        \* dedupe keys "task-run-<task>"
    HouseKeepingKey, \* the one of the weekly house keeping task
    NoKey            \* candidate file operations carry no dedupe key

ASSUME QueueAssumption ==
    /\ {MaxJobs, MaxStamps, MaxStops, MaxDbErrors} \subseteq Nat
    /\ KeepRecent \in Nat \ {0}
    /\ HouseKeepingKey \in TaskKeys
    /\ ToggleKeys \cap TaskKeys = {}
    /\ NoKey \notin ToggleKeys \cup TaskKeys

Jobs == 1..MaxJobs
NoJob == 0
Keys == ToggleKeys \cup TaskKeys \cup {NoKey}

VARIABLES
    \* the background_jobs table
    status,      \* status[j]; ABSENT before the insert, TRIMMED once deleted
    key,         \* dedupe_key[j], which also tells the job type
    runAt,       \* scheduled_at[j], as the order in which the clock was read
    attempts,    \* attempts[j]
    \* the process
    phase,       \* how far lifespan has come
    clock,       \* readings of the clock taken so far
    stops,       \* crashes and shutdowns so far
    dbErrors,    \* database errors in worker loops so far
    \* callers inside enqueue_background_job
    callerPc, callerKey, callerAt,
    \* worker loops
    workerPc, workerJob

table   == <<status, key, runAt, attempts>>
process == <<phase, clock, stops, dbErrors>>
callers == <<callerPc, callerKey, callerAt>>
workers == <<workerPc, workerJob>>
vars == <<table, process, callers, workers>>

Statuses == {"ABSENT", "PENDING", "RUNNING", "COMPLETED", "FAILED", "CANCELED", "TRIMMED"}
Phases == {"down", "scheduling", "reset", "up"}

JobTypes == {"SERVICE_TOGGLE", "TASK_RUN", "CANDIDATE_FILE_OP"}

JobType(k) == IF k \in ToggleKeys THEN "SERVICE_TOGGLE"
              ELSE IF k \in TaskKeys THEN "TASK_RUN"
              ELSE "CANDIDATE_FILE_OP"

\* The two worker loops lifespan creates, and the job types each may claim.
Workers == {"default", "file_ops"}

\* Mutant: the default worker is created without SERVICE_TOGGLE.
AllowedJobTypes_NoToggles ==
    [w \in Workers |-> IF w = "default" THEN {"TASK_RUN"} ELSE {"CANDIDATE_FILE_OP"}]

AllowedJobTypes ==
    [w \in Workers |-> IF w = "default" THEN {"SERVICE_TOGGLE", "TASK_RUN"}
                                        ELSE {"CANDIDATE_FILE_OP"}]

\* The lane of a job: the worker loop that may claim it.
LaneOf(k) == IF JobType(k) = "CANDIDATE_FILE_OP" THEN "file_ops" ELSE "default"

Pending == {j \in Jobs : status[j] = "PENDING"}
Active  == {j \in Jobs : status[j] \in {"PENDING", "RUNNING"}}
Rows    == {j \in Jobs : status[j] \notin {"ABSENT", "TRIMMED"}}

WithKey(S, k) == {j \in S : key[j] = k}

-----------------------------------------------------------------------------
(* enqueue_background_job, called by an API handler, a scheduler trigger   *)
(* or a running job.                                                       *)

\* The locals of a call are gone when it returns.
CallReturns(S) ==
    /\ callerPc'  = [c \in Callers |-> IF c \in S THEN "idle" ELSE callerPc[c]]
    /\ callerKey' = [c \in Callers |-> IF c \in S THEN NoKey ELSE callerKey[c]]
    /\ callerAt'  = [c \in Callers |-> IF c \in S THEN 0 ELSE callerAt[c]]

\* run_at is read on entry.  API handlers run once lifespan has yielded; the
\* scheduler starts earlier, so task runs can be requested during start-up.
EnqueueBegin(c, k) ==
    /\ callerPc[c] = "idle"
    /\ phase = "up" \/ (phase # "down" /\ k \in TaskKeys)
    /\ clock < MaxStamps
    /\ clock' = clock + 1
    /\ callerPc' = [callerPc EXCEPT ![c] = "stamped"]
    /\ callerKey' = [callerKey EXCEPT ![c] = k]
    /\ callerAt' = [callerAt EXCEPT ![c] = clock + 1]
    /\ UNCHANGED <<table, phase, stops, dbErrors, workers>>

\* skip_if_active: the SELECT, in its own read; the INSERT comes later.
SkipIfActive(c) ==
    /\ callerPc[c] = "stamped"
    /\ callerKey[c] \in TaskKeys
    /\ IF WithKey(Active, callerKey[c]) = {}
       THEN /\ callerPc' = [callerPc EXCEPT ![c] = "checked"]
            /\ UNCHANGED <<callerKey, callerAt>>
       ELSE CallReturns({c})
    /\ UNCHANGED <<table, process, workers>>

\* Mutant: replace_pending is forgotten.
Replaced_Nothing(k) == {}

\* replace_pending cancels the pending jobs of the key in the transaction
\* that inserts the new one.
Replaced(k) == IF k \in ToggleKeys THEN WithKey(Pending, k) ELSE {}

\* SQLite gives the row the next free id.
NextRow(j) == status[j] = "ABSENT" /\ \A i \in 1..(j - 1) : status[i] # "ABSENT"

Insert(c) ==
    /\ callerPc[c] = IF callerKey[c] \in TaskKeys THEN "checked" ELSE "stamped"
    /\ \E j \in Jobs :
          /\ NextRow(j)
          /\ status' = [i \in Jobs |-> IF i = j THEN "PENDING"
                                       ELSE IF i \in Replaced(callerKey[c]) THEN "CANCELED"
                                       ELSE status[i]]
          /\ key' = [key EXCEPT ![j] = callerKey[c]]
          /\ runAt' = [runAt EXCEPT ![j] = callerAt[c]]
          /\ UNCHANGED attempts
    /\ CallReturns({c})
    /\ UNCHANGED <<process, workers>>

\* Mutant: the status is a misspelt literal.
CancelPendingByKey_Misspelt(k) ==
    /\ phase = "up"
    /\ status' = [j \in Jobs |-> IF j \in WithKey(Pending, k) THEN "CANCELLED" ELSE status[j]]
    /\ UNCHANGED <<key, runAt, attempts, process, callers, workers>>

\* A task is disabled, or a service configuration deleted: its pending jobs go.
CancelPendingByKey(k) ==
    /\ phase = "up"
    /\ status' = [j \in Jobs |-> IF j \in WithKey(Pending, k) THEN "CANCELED" ELSE status[j]]
    /\ UNCHANGED <<key, runAt, attempts, process, callers, workers>>

-----------------------------------------------------------------------------
(* worker_loop                                                             *)

Claimable(w) == {j \in Pending : JobType(key[j]) \in AllowedJobTypes[w]}

Precedes(i, j) == runAt[i] < runAt[j] \/ (runAt[i] = runAt[j] /\ i <= j)

\* The SELECT of claim_next_background_job: the oldest pending job, if any.
ClaimSelect(w) ==
    /\ workerPc[w] = "idle"
    /\ \E j \in Claimable(w) :
          /\ \A i \in Claimable(w) : Precedes(j, i)
          /\ workerJob' = [workerJob EXCEPT ![w] = j]
    /\ workerPc' = [workerPc EXCEPT ![w] = "selected"]
    /\ UNCHANGED <<table, process, callers>>

\* Mutant: the UPDATE of the claim lost its status = PENDING condition.
ClaimWon_Unguarded(w) ==
    LET j == workerJob[w] IN
    /\ workerPc[w] = "selected"
    /\ status' = [status EXCEPT ![j] = "RUNNING"]
    /\ attempts' = [attempts EXCEPT ![j] = @ + 1]
    /\ workerPc' = [workerPc EXCEPT ![w] = "running"]
    /\ UNCHANGED <<key, runAt, process, callers, workerJob>>

\* The guarded UPDATE took the row.
ClaimWon(w) ==
    LET j == workerJob[w] IN
    /\ workerPc[w] = "selected"
    /\ status[j] = "PENDING"
    /\ status' = [status EXCEPT ![j] = "RUNNING"]
    /\ attempts' = [attempts EXCEPT ![j] = @ + 1]
    /\ workerPc' = [workerPc EXCEPT ![w] = "running"]
    /\ UNCHANGED <<key, runAt, process, callers, workerJob>>

\* The row was canceled, or trimmed, between the SELECT and the UPDATE.
ClaimLost(w) ==
    /\ workerPc[w] = "selected"
    /\ status[workerJob[w]] # "PENDING"
    /\ workerPc' = [workerPc EXCEPT ![w] = "idle"]
    /\ workerJob' = [workerJob EXCEPT ![w] = NoJob]
    /\ UNCHANGED <<table, process, callers>>

\* complete_background_job and fail_background_job update by id, whatever the
\* status; a trimmed row is no longer there to be updated.
Ended(j, s) == [status EXCEPT ![j] = IF @ = "TRIMMED" THEN @ ELSE s]

EndRun(w, s) ==
    /\ workerPc[w] = "running"
    /\ status' = Ended(workerJob[w], s)
    /\ workerPc' = [workerPc EXCEPT ![w] = "idle"]
    /\ workerJob' = [workerJob EXCEPT ![w] = NoJob]
    /\ UNCHANGED <<key, runAt, attempts, process, callers>>

CompleteRun(w) == EndRun(w, "COMPLETED")
FailRun(w)     == EndRun(w, "FAILED")

\* An exception outside a job, while claiming, or raised by fail_background_job
\* itself, leaves worker_loop for good: nothing restarts the asyncio task.  In
\* the second case the row stays RUNNING.
WorkerDies(w) ==
    /\ workerPc[w] \in {"idle", "selected", "running"}
    /\ dbErrors < MaxDbErrors
    /\ dbErrors' = dbErrors + 1
    /\ workerPc' = [workerPc EXCEPT ![w] = "dead"]
    /\ workerJob' = [workerJob EXCEPT ![w] = IF workerPc[w] = "running" THEN @ ELSE NoJob]
    /\ UNCHANGED <<table, phase, clock, stops, callers>>

\* weekly_house_keeping, a task run on the default worker, trims the table to
\* the most recent rows, whatever their status.
TrimBackgroundJobs ==
    LET Recent(j) == Cardinality({i \in Rows : i > j}) < KeepRecent
    IN  /\ workerPc["default"] = "running"
        /\ key[workerJob["default"]] = HouseKeepingKey
        /\ status' = [j \in Jobs |-> IF j \in Rows /\ ~Recent(j) THEN "TRIMMED" ELSE status[j]]
        /\ UNCHANGED <<key, runAt, attempts, process, callers, workers>>

-----------------------------------------------------------------------------
(* lifespan                                                                *)

StartScheduler ==
    /\ phase = "down"
    /\ phase' = "scheduling"
    /\ UNCHANGED <<table, clock, stops, dbErrors, callers, workers>>

\* Mutant: interrupted jobs are queued again, as max_attempts = 3 suggests.
ResetStaleJobs_Requeues ==
    /\ phase = "scheduling"
    /\ phase' = "reset"
    /\ status' = [j \in Jobs |-> IF status[j] = "RUNNING" THEN "PENDING" ELSE status[j]]
    /\ UNCHANGED <<key, runAt, attempts, clock, stops, dbErrors, callers, workers>>

ResetStaleJobs ==
    /\ phase = "scheduling"
    /\ phase' = "reset"
    /\ status' = [j \in Jobs |-> IF status[j] = "RUNNING" THEN "FAILED" ELSE status[j]]
    /\ UNCHANGED <<key, runAt, attempts, clock, stops, dbErrors, callers, workers>>

\* Mutant: the workers start without waiting for the reset.
StartWorkers_Early ==
    /\ phase \in {"scheduling", "reset"}
    /\ phase' = "up"
    /\ workerPc' = [w \in Workers |-> "idle"]
    /\ UNCHANGED <<table, clock, stops, dbErrors, callers, workerJob>>

StartWorkers ==
    /\ phase = "reset"
    /\ phase' = "up"
    /\ workerPc' = [w \in Workers |-> "idle"]
    /\ UNCHANGED <<table, clock, stops, dbErrors, callers, workerJob>>

\* A crash or a shutdown: coroutines end where they are, rows stay as they are.
Stop ==
    /\ phase # "down"
    /\ stops < MaxStops
    /\ stops' = stops + 1
    /\ phase' = "down"
    /\ workerPc' = [w \in Workers |-> "off"]
    /\ workerJob' = [w \in Workers |-> NoJob]
    /\ CallReturns(Callers)
    /\ UNCHANGED <<table, clock, dbErrors>>

-----------------------------------------------------------------------------

Init ==
    /\ status = [j \in Jobs |-> "ABSENT"]
    /\ key = [j \in Jobs |-> NoKey]
    /\ runAt = [j \in Jobs |-> 0]
    /\ attempts = [j \in Jobs |-> 0]
    /\ phase = "down"
    /\ clock = 0
    /\ stops = 0
    /\ dbErrors = 0
    /\ callerPc = [c \in Callers |-> "idle"]
    /\ callerKey = [c \in Callers |-> NoKey]
    /\ callerAt = [c \in Callers |-> 0]
    /\ workerPc = [w \in Workers |-> "off"]
    /\ workerJob = [w \in Workers |-> NoJob]

CallerNext ==
    \/ \E c \in Callers, k \in Keys : EnqueueBegin(c, k)
    \/ \E c \in Callers : SkipIfActive(c) \/ Insert(c)
    \/ \E k \in ToggleKeys \cup TaskKeys : CancelPendingByKey(k)

WorkerNext ==
    \/ \E w \in Workers : ClaimSelect(w)
    \/ \E w \in Workers : ClaimWon(w)
    \/ \E w \in Workers : ClaimLost(w)
    \/ \E w \in Workers : CompleteRun(w)
    \/ \E w \in Workers : FailRun(w)
    \/ \E w \in Workers : WorkerDies(w)
    \/ TrimBackgroundJobs

LifespanNext == StartScheduler \/ ResetStaleJobs \/ StartWorkers \/ Stop

Next == CallerNext \/ WorkerNext \/ LifespanNext

\* Each worker loop keeps polling and every job body ends; the container is
\* restarted ("restart: unless-stopped") and lifespan runs to its yield.
Fairness ==
    /\ WF_vars(StartScheduler)
    /\ WF_vars(ResetStaleJobs)
    /\ WF_vars(StartWorkers)
    /\ \A w \in Workers :
          /\ WF_vars(ClaimSelect(w))
          /\ WF_vars(ClaimWon(w) \/ ClaimLost(w))
          /\ WF_vars(CompleteRun(w) \/ FailRun(w))

Spec == Init /\ [][Next]_vars
FairSpec == Spec /\ Fairness

-----------------------------------------------------------------------------
(* Properties                                                              *)

\* Every variable stays in its domain; statuses are members of
\* BackgroundJobStatus, or one of the two ghosts for a row that is not there.
TypeOK ==
    /\ status \in [Jobs -> Statuses]
    /\ key \in [Jobs -> Keys]
    /\ runAt \in [Jobs -> Nat]
    /\ attempts \in [Jobs -> Nat]
    /\ phase \in Phases
    /\ {clock, stops, dbErrors} \subseteq Nat
    /\ callerPc \in [Callers -> {"idle", "stamped", "checked"}]
    /\ callerKey \in [Callers -> Keys]
    /\ callerAt \in [Callers -> Nat]
    /\ workerPc \in [Workers -> {"off", "idle", "selected", "running", "dead"}]
    /\ workerJob \in [Workers -> Jobs \cup {NoJob}]

\* While the workers are up, a RUNNING row is in the hands of the one worker
\* loop that may run it: no row is left RUNNING by a previous process, and
\* none is run by two loops.  reset_stale_jobs rests on this ("any job still
\* in RUNNING state at startup is guaranteed to be from a previous process").
WorkersOwnRunning ==
    phase = "up" =>
        \A j \in Jobs : status[j] = "RUNNING" =>
            /\ workerJob[LaneOf(key[j])] = j
            /\ workerPc[LaneOf(key[j])] \in {"running", "dead"}

\* A job is handed to a worker at most once in its life, over any number of
\* crashes: a deletion that was interrupted is never silently run again.
AtMostOneAttempt == \A j \in Jobs : attempts[j] <= 1

\* A pending service toggle is the newest row of its key: the runtime is never
\* left to apply settings that a later save has already replaced in the queue.
NewestTogglePending ==
    \A k \in ToggleKeys : \A i \in WithKey(Pending, k) :
        \A j \in WithKey(Jobs, k) : j <= i

\* The queue implements the promise stated in OneShotJobs: one start per job,
\* one RUNNING job per worker loop, final outcomes.
OneShot == INSTANCE OneShotJobs
    WITH Lanes <- Workers, lane <- [j \in Jobs |-> LaneOf(key[j])]

ImplementsOneShotJobs == OneShot!AbstractSpec

\* A queued job does not wait for ever: it is claimed, replaced, canceled or
\* trimmed, unless the worker loop of its lane has died (see WorkerDies).
QueuedJobLeavesQueue ==
    \A j \in Jobs :
        status[j] = "PENDING" ~>
            \/ status[j] # "PENDING"
            \/ workerPc[LaneOf(key[j])] = "dead"

=============================================================================
