--------------------------- MODULE JobQueueProofs ---------------------------
(***************************************************************************)
(* Theorems about JobQueue, for every number of jobs, callers, keys,       *)
(* restarts and database errors.  The inductive invariant Inv adds to the  *)
(* checked invariants what makes them inductive: rows are numbered without *)
(* gaps, a worker loop holds only jobs of its own lane, and the only rows  *)
(* RUNNING outside a worker's hands are those of a stopped process, which  *)
(* reset_stale_jobs has not reached yet.                                   *)
(***************************************************************************)
EXTENDS JobQueue, TLAPS

\* Rows get consecutive ids and a row that was never inserted has no key.
RowsConsecutive ==
    /\ \A j \in Jobs : status[j] # "ABSENT" => \A i \in 1..(j - 1) : status[i] # "ABSENT"
    /\ \A j \in Jobs : status[j] = "ABSENT" => key[j] = NoKey

\* The loops exist only in phase "up", and each one holds a job of its lane.
WorkersHoldOwnLane ==
    /\ phase # "up" => \A w \in Workers : workerPc[w] = "off" /\ workerJob[w] = NoJob
    /\ \A w \in Workers : workerPc[w] \in {"selected", "running"} => workerJob[w] # NoJob
    /\ \A w \in Workers : workerJob[w] # NoJob =>
          /\ status[workerJob[w]] # "ABSENT"
          /\ LaneOf(key[workerJob[w]]) = w
    /\ \A w \in Workers : workerPc[w] = "running" => status[workerJob[w]] \in {"RUNNING", "TRIMMED"}

\* Between the reset and the start of the workers nothing is RUNNING.
NoneRunningAfterReset == phase = "reset" => \A j \in Jobs : status[j] # "RUNNING"

\* A job that was never claimed counts no attempt.
UnclaimedHasNoAttempt ==
    \A j \in Jobs : status[j] \in {"ABSENT", "PENDING"} => attempts[j] = 0

Inv ==
    /\ TypeOK
    /\ RowsConsecutive
    /\ WorkersHoldOwnLane
    /\ NoneRunningAfterReset
    /\ WorkersOwnRunning
    /\ UnclaimedHasNoAttempt
    /\ AtMostOneAttempt
    /\ NewestTogglePending

-----------------------------------------------------------------------------

\* Lane of a key: the worker loop whose allowed job types hold the key's type.
LEMMA LaneIsAllowed ==
    ASSUME NEW k \in Keys, NEW w \in Workers
    PROVE  /\ LaneOf(k) \in Workers
           /\ JobType(k) \in AllowedJobTypes[w] <=> LaneOf(k) = w
  BY QueueAssumption DEF LaneOf, JobType, AllowedJobTypes, Workers, Keys

\* The empty table of a stopped process satisfies the invariant.
LEMMA InitInv == Init => Inv
  BY QueueAssumption
  DEF Init, Inv, TypeOK, RowsConsecutive, WorkersHoldOwnLane, NoneRunningAfterReset,
      WorkersOwnRunning, UnclaimedHasNoAttempt, AtMostOneAttempt, NewestTogglePending,
      Statuses, Phases, Keys, WithKey, Pending, Workers, Jobs, NoJob

\* A table of counters stays one when a counter is incremented.
LEMMA CountedUp ==
    ASSUME NEW S, NEW f \in [S -> Nat], NEW x
    PROVE  [f EXCEPT ![x] = @ + 1] \in [S -> Nat]
<1> DEFINE g == [f EXCEPT ![x] = @ + 1]
<1>1. g = [i \in S |-> IF i = x THEN f[i] + 1 ELSE f[i]]
  OBVIOUS
<1>2. \A i \in S : f[i] \in Nat /\ f[i] + 1 \in Nat
  OBVIOUS
<1> QED
  BY <1>1, <1>2

\* Every action keeps every variable in its domain.
LEMMA TypeStep == TypeOK /\ [Next]_vars => TypeOK'
<1> SUFFICES ASSUME TypeOK, [Next]_vars PROVE TypeOK'
  OBVIOUS
<1> USE QueueAssumption DEF TypeOK, Keys, Statuses, Phases
<1>1. ASSUME NEW c \in Callers, NEW k \in Keys, EnqueueBegin(c, k) PROVE TypeOK'
  BY <1>1 DEF EnqueueBegin, table, workers
<1>2. ASSUME NEW c \in Callers, SkipIfActive(c) PROVE TypeOK'
  BY <1>2 DEF SkipIfActive, CallReturns, table, process, workers
<1>3. ASSUME NEW c \in Callers, Insert(c) PROVE TypeOK'
  BY <1>3 DEF Insert, CallReturns, process, workers
<1>4. ASSUME NEW k \in ToggleKeys \cup TaskKeys, CancelPendingByKey(k) PROVE TypeOK'
  BY <1>4 DEF CancelPendingByKey, process, callers, workers
<1>5. ASSUME NEW w \in Workers, ClaimSelect(w) PROVE TypeOK'
  BY <1>5 DEF ClaimSelect, Claimable, Pending, table, process, callers
<1>6. ASSUME NEW w \in Workers, ClaimWon(w) PROVE TypeOK'
  <2>1. attempts' \in [Jobs -> Nat]
    BY <1>6, CountedUp DEF ClaimWon
  <2> QED
    BY <1>6, <2>1 DEF ClaimWon, process, callers
<1>7. ASSUME NEW w \in Workers, ClaimLost(w) PROVE TypeOK'
  BY <1>7 DEF ClaimLost, table, process, callers, NoJob
<1>8. ASSUME NEW w \in Workers, CompleteRun(w) \/ FailRun(w) PROVE TypeOK'
  BY <1>8 DEF CompleteRun, FailRun, EndRun, Ended, process, callers, NoJob
<1>9. ASSUME NEW w \in Workers, WorkerDies(w) PROVE TypeOK'
  BY <1>9 DEF WorkerDies, table, callers, NoJob
<1>10. ASSUME TrimBackgroundJobs PROVE TypeOK'
  BY <1>10 DEF TrimBackgroundJobs, process, callers, workers
<1>11. ASSUME StartScheduler PROVE TypeOK'
  BY <1>11 DEF StartScheduler, table, callers, workers
<1>12. ASSUME ResetStaleJobs PROVE TypeOK'
  BY <1>12 DEF ResetStaleJobs, callers, workers
<1>13. ASSUME StartWorkers PROVE TypeOK'
  BY <1>13 DEF StartWorkers, table, callers
<1>14. ASSUME Stop PROVE TypeOK'
  BY <1>14 DEF Stop, CallReturns, table, NoJob
<1>15. ASSUME UNCHANGED vars PROVE TypeOK'
  BY <1>15 DEF vars, table, process, callers, workers
<1> QED
  BY <1>1, <1>2, <1>3, <1>4, <1>5, <1>6, <1>7, <1>8, <1>9, <1>10, <1>11, <1>12,
     <1>13, <1>14, <1>15
  DEF Next, CallerNext, WorkerNext, LifespanNext

\* Type correctness: whatever the interleaving, every status is a member of
\* BackgroundJobStatus (or a ghost) and every loop is at a known point.
THEOREM TypeCorrect == Spec => []TypeOK
<1>1. Init => TypeOK
  BY InitInv DEF Inv
<1> QED
  BY <1>1, TypeStep, PTL DEF Spec

-----------------------------------------------------------------------------

\* A step that leaves the table, the phase and the workers alone keeps Inv.
LEMMA QuietInv ==
    ASSUME Inv, TypeOK', UNCHANGED <<table, phase, workers>>
    PROVE  Inv'
  BY DEF Inv, table, workers, RowsConsecutive, WorkersHoldOwnLane, NoneRunningAfterReset,
         WorkersOwnRunning, UnclaimedHasNoAttempt, AtMostOneAttempt, NewestTogglePending,
         WithKey, Pending, Jobs, Workers, LaneOf, JobType

\* The insert takes the next id, so a pending toggle it does not replace would
\* have a smaller id and the same key: it is one of those it cancels.
LEMMA InsertInv ==
    ASSUME Inv, TypeOK', NEW c \in Callers, Insert(c)
    PROVE  Inv'
<1> DEFINE k == callerKey[c]
<1>1. PICK n \in Jobs :
        /\ NextRow(n)
        /\ status' = [i \in Jobs |-> IF i = n THEN "PENDING"
                                     ELSE IF i \in Replaced(k) THEN "CANCELED"
                                     ELSE status[i]]
        /\ key' = [key EXCEPT ![n] = k]
        /\ UNCHANGED <<attempts, phase, workerPc, workerJob>>
  BY DEF Insert, process, workers
<1>2. k \in Keys /\ Jobs \subseteq Nat
  BY DEF Inv, TypeOK, Jobs
<1>3. \A i \in Replaced(k) : i \in Jobs /\ status[i] = "PENDING" /\ key[i] = k
  BY DEF Replaced, WithKey, Pending
<1>4. \A i \in Jobs : status[i] # "ABSENT" => i # n /\ key'[i] = key[i]
  BY <1>1 DEF NextRow, Inv, TypeOK
<1>5. \A i \in Jobs : i # n => key'[i] = key[i]
  BY <1>1 DEF Inv, TypeOK
<1>6. key'[n] = k /\ status'[n] = "PENDING" /\ status[n] = "ABSENT"
  BY <1>1 DEF NextRow, Inv, TypeOK
<1>7. \A i \in Jobs : i # n =>
        \/ status'[i] = status[i]
        \/ status[i] = "PENDING" /\ status'[i] = "CANCELED"
  BY <1>1, <1>3
<1>8. \A i \in Jobs : status[i] # "ABSENT" => i < n
  <2> SUFFICES ASSUME NEW i \in Jobs, status[i] # "ABSENT" PROVE i < n
    OBVIOUS
  <2>1. i \in Nat /\ n \in Nat /\ 1 <= n /\ i # n
    BY <1>2, <1>6 DEF Jobs
  <2>2. ~(n < i)
    BY <1>6, <2>1 DEF Inv, RowsConsecutive
  <2> QED
    BY <2>1, <2>2
<1>9. RowsConsecutive'
  <2>1. ASSUME NEW j \in Jobs, status'[j] # "ABSENT" PROVE \A i \in 1..(j - 1) : status'[i] # "ABSENT"
    <3> SUFFICES ASSUME NEW i \in 1..(j - 1) PROVE status'[i] # "ABSENT"
      OBVIOUS
    <3>1. i \in Jobs
      BY QueueAssumption DEF Jobs
    <3>2. CASE j = n
      BY <1>1, <1>6, <1>7, <3>1, <3>2 DEF NextRow
    <3>3. CASE j # n
      BY <1>6, <1>7, <2>1, <3>1, <3>3 DEF Inv, RowsConsecutive
    <3> QED
      BY <3>2, <3>3
  <2>2. ASSUME NEW j \in Jobs, status'[j] = "ABSENT" PROVE key'[j] = NoKey
    BY <1>5, <1>6, <1>7, <2>2 DEF Inv, RowsConsecutive
  <2> QED
    BY <2>1, <2>2 DEF RowsConsecutive
<1>10. WorkersHoldOwnLane'
  <2>1. \A w \in Workers : workerJob[w] # NoJob =>
           /\ workerJob[w] \in Jobs
           /\ workerJob[w] # n
           /\ key'[workerJob[w]] = key[workerJob[w]]
    BY <1>4 DEF Inv, TypeOK, WorkersHoldOwnLane
  <2>2. ASSUME NEW w \in Workers, workerJob[w] # NoJob
        PROVE  status'[workerJob[w]] # "ABSENT" /\ LaneOf(key'[workerJob[w]]) = w
    BY <1>7, <2>1, <2>2 DEF Inv, WorkersHoldOwnLane
  <2>3. ASSUME NEW w \in Workers, workerPc[w] = "running"
        PROVE  status'[workerJob[w]] \in {"RUNNING", "TRIMMED"}
    BY <1>7, <2>1, <2>3 DEF Inv, WorkersHoldOwnLane
  <2> QED
    BY <1>1, <2>2, <2>3 DEF Inv, WorkersHoldOwnLane
<1>11. NoneRunningAfterReset'
  BY <1>1, <1>6, <1>7 DEF Inv, NoneRunningAfterReset
<1>12. WorkersOwnRunning'
  BY <1>1, <1>4, <1>6, <1>7 DEF Inv, WorkersOwnRunning
<1>13. UnclaimedHasNoAttempt' /\ AtMostOneAttempt'
  BY <1>1, <1>6, <1>7 DEF Inv, UnclaimedHasNoAttempt, AtMostOneAttempt
<1>14. NewestTogglePending'
  <2> SUFFICES ASSUME NEW t \in ToggleKeys,
                      NEW i \in Jobs, status'[i] = "PENDING", key'[i] = t,
                      NEW j \in Jobs, key'[j] = t
               PROVE  j <= i
    BY DEF NewestTogglePending, WithKey, Pending
  <2>1. t # NoKey /\ t \notin TaskKeys
    BY QueueAssumption
  <2>2. status'[j] # "ABSENT"
    BY <1>9, <2>1 DEF RowsConsecutive
  <2>3. CASE i = n
    BY <1>2, <1>6, <1>7, <1>8, <2>2, <2>3
  <2>4. CASE i # n /\ k = t
    <3>1. status[i] = "PENDING" /\ key[i] = t
      BY <1>5, <1>7, <2>4
    <3>2. i \in Replaced(k)
      BY <2>4, <3>1 DEF Replaced, WithKey, Pending
    <3> QED
      BY <1>1, <2>4, <3>2
  <2>5. CASE i # n /\ k # t
    BY <1>5, <1>6, <1>7, <2>5 DEF Inv, NewestTogglePending, WithKey, Pending
  <2> QED
    BY <2>3, <2>4, <2>5
<1> QED
  BY <1>9, <1>10, <1>11, <1>12, <1>13, <1>14 DEF Inv

\* A cancellation only turns PENDING rows into CANCELED ones.
LEMMA CancelInv ==
    ASSUME Inv, TypeOK', NEW k \in ToggleKeys \cup TaskKeys, CancelPendingByKey(k)
    PROVE  Inv'
<1>1. UNCHANGED <<key, attempts, phase, workerPc, workerJob>>
  BY DEF CancelPendingByKey, process, workers
<1>2. \A i \in Jobs :
        \/ status'[i] = status[i]
        \/ status[i] = "PENDING" /\ status'[i] = "CANCELED"
  BY DEF CancelPendingByKey, WithKey, Pending
<1>3. RowsConsecutive'
  <2>1. \A j \in Jobs : \A i \in 1..(j - 1) : i \in Jobs
    BY QueueAssumption DEF Jobs
  <2> QED
    BY <1>1, <1>2, <2>1 DEF Inv, RowsConsecutive
<1>4. WorkersHoldOwnLane'
  BY <1>1, <1>2 DEF Inv, TypeOK, WorkersHoldOwnLane
<1>5. NoneRunningAfterReset' /\ WorkersOwnRunning'
  BY <1>1, <1>2 DEF Inv, NoneRunningAfterReset, WorkersOwnRunning
<1>6. UnclaimedHasNoAttempt' /\ AtMostOneAttempt' /\ NewestTogglePending'
  BY <1>1, <1>2
  DEF Inv, UnclaimedHasNoAttempt, AtMostOneAttempt, NewestTogglePending, WithKey, Pending
<1> QED
  BY <1>3, <1>4, <1>5, <1>6 DEF Inv

\* The SELECT of a claim only picks a job of the worker's own lane.
LEMMA SelectInv ==
    ASSUME Inv, TypeOK', NEW w \in Workers, ClaimSelect(w)
    PROVE  Inv'
<1>1. PICK j \in Claimable(w) : workerJob' = [workerJob EXCEPT ![w] = j]
  BY DEF ClaimSelect
<1>2. /\ workerPc' = [workerPc EXCEPT ![w] = "selected"]
      /\ workerPc[w] = "idle"
      /\ UNCHANGED <<status, key, attempts, phase>>
  BY DEF ClaimSelect, table, process
<1>3. j \in Jobs /\ status[j] = "PENDING" /\ LaneOf(key[j]) = w
  BY LaneIsAllowed DEF Claimable, Pending, Inv, TypeOK
<1>4. WorkersHoldOwnLane'
  BY <1>1, <1>2, <1>3 DEF Inv, TypeOK, WorkersHoldOwnLane, NoJob, Jobs
<1>5. WorkersOwnRunning'
  BY <1>1, <1>2, <1>3 DEF Inv, TypeOK, WorkersOwnRunning
<1> QED
  BY <1>2, <1>4, <1>5
  DEF Inv, RowsConsecutive, NoneRunningAfterReset, UnclaimedHasNoAttempt, AtMostOneAttempt,
      NewestTogglePending, WithKey, Pending

\* The guarded UPDATE starts a PENDING job, which was never started before.
LEMMA ClaimInv ==
    ASSUME Inv, TypeOK', NEW w \in Workers, ClaimWon(w)
    PROVE  Inv'
<1> DEFINE n == workerJob[w]
<1>1. /\ workerPc[w] = "selected"
      /\ n \in Jobs /\ status[n] = "PENDING" /\ LaneOf(key[n]) = w
  BY DEF ClaimWon, Inv, TypeOK, WorkersHoldOwnLane
<1>2. /\ workerPc' = [workerPc EXCEPT ![w] = "running"]
      /\ UNCHANGED <<key, phase, workerJob>>
  BY DEF ClaimWon, process
<1>3. \A i \in Jobs : i # n => status'[i] = status[i] /\ attempts'[i] = attempts[i]
  BY DEF ClaimWon, Inv, TypeOK
<1>4. status'[n] = "RUNNING" /\ attempts'[n] = 1
  <2>1. attempts'[n] = attempts[n] + 1
    BY <1>1 DEF ClaimWon, Inv, TypeOK
  <2> QED
    BY <1>1, <2>1 DEF ClaimWon, Inv, TypeOK, UnclaimedHasNoAttempt
<1>5. phase = "up"
  BY <1>1 DEF Inv, WorkersHoldOwnLane
<1>6. RowsConsecutive'
  <2>1. \A j \in Jobs : \A i \in 1..(j - 1) : i \in Jobs
    BY QueueAssumption DEF Jobs
  <2>2. \A i \in Jobs : status'[i] = "ABSENT" <=> status[i] = "ABSENT"
    BY <1>1, <1>3, <1>4
  <2> QED
    BY <1>2, <2>1, <2>2 DEF Inv, RowsConsecutive
<1>7. WorkersHoldOwnLane'
  <2>1. \A v \in Workers : v # w => workerPc'[v] = workerPc[v] /\ workerJob[v] # n
    BY <1>1, <1>2 DEF Inv, TypeOK, WorkersHoldOwnLane, NoJob, Jobs
  <2> QED
    BY <1>1, <1>2, <1>3, <1>4, <1>5, <2>1 DEF Inv, TypeOK, WorkersHoldOwnLane, NoJob, Jobs
<1>8. WorkersOwnRunning'
  BY <1>1, <1>2, <1>3, <1>4 DEF Inv, TypeOK, WorkersOwnRunning
<1>9. UnclaimedHasNoAttempt' /\ AtMostOneAttempt'
  BY <1>1, <1>3, <1>4 DEF Inv, UnclaimedHasNoAttempt, AtMostOneAttempt
<1>10. NoneRunningAfterReset' /\ NewestTogglePending'
  BY <1>2, <1>3, <1>4, <1>5
  DEF Inv, NoneRunningAfterReset, NewestTogglePending, WithKey, Pending
<1> QED
  BY <1>6, <1>7, <1>8, <1>9, <1>10 DEF Inv

\* A loop that gives up its claim, or dies, does not touch the table.
LEMMA DropInv ==
    ASSUME Inv, TypeOK', NEW w \in Workers, ClaimLost(w) \/ WorkerDies(w)
    PROVE  Inv'
<1>1. UNCHANGED <<status, key, attempts, phase>>
  BY DEF ClaimLost, WorkerDies, table, process
<1>2. \A v \in Workers : v # w => workerPc'[v] = workerPc[v] /\ workerJob'[v] = workerJob[v]
  BY DEF ClaimLost, WorkerDies, Inv, TypeOK
<1>3. \/ workerPc'[w] = "idle" /\ workerPc[w] = "selected" /\ workerJob'[w] = NoJob
      \/ workerPc'[w] = "dead" /\ workerPc[w] = "running" /\ workerJob'[w] = workerJob[w]
      \/ workerPc'[w] = "dead" /\ workerPc[w] \in {"idle", "selected"} /\ workerJob'[w] = NoJob
  BY DEF ClaimLost, WorkerDies, Inv, TypeOK
<1>4. WorkersHoldOwnLane'
  BY <1>1, <1>2, <1>3 DEF Inv, WorkersHoldOwnLane
<1>5. WorkersOwnRunning'
  <2>1. \A j \in Jobs : LaneOf(key[j]) \in Workers
    BY LaneIsAllowed DEF Inv, TypeOK
  <2> QED
    BY <1>1, <1>2, <1>3, <2>1 DEF Inv, WorkersOwnRunning, WorkersHoldOwnLane
<1> QED
  BY <1>1, <1>4, <1>5
  DEF Inv, RowsConsecutive, NoneRunningAfterReset, UnclaimedHasNoAttempt, AtMostOneAttempt,
      NewestTogglePending, WithKey, Pending

\* The end of a run changes its own row, unless that row was trimmed meanwhile.
LEMMA EndInv ==
    ASSUME Inv, TypeOK', NEW w \in Workers, NEW s \in {"COMPLETED", "FAILED"}, EndRun(w, s)
    PROVE  Inv'
<1> DEFINE n == workerJob[w]
<1>1. /\ UNCHANGED <<key, attempts, phase>>
      /\ workerPc[w] = "running"
      /\ n \in Jobs /\ status[n] \in {"RUNNING", "TRIMMED"}
      /\ LaneOf(key[n]) = w /\ phase = "up"
  BY DEF EndRun, process, Inv, TypeOK, WorkersHoldOwnLane
<1>2. /\ \A v \in Workers : v # w => workerPc'[v] = workerPc[v] /\ workerJob'[v] = workerJob[v]
      /\ workerPc'[w] = "idle" /\ workerJob'[w] = NoJob
  BY DEF EndRun, Inv, TypeOK
<1>3. \A i \in Jobs : i # n => status'[i] = status[i]
  BY DEF EndRun, Ended, Inv, TypeOK
<1>4. status'[n] \in {"COMPLETED", "FAILED", "TRIMMED"}
  BY <1>1 DEF EndRun, Ended, Inv, TypeOK
<1>5. RowsConsecutive'
  <2>1. \A j \in Jobs : \A i \in 1..(j - 1) : i \in Jobs
    BY QueueAssumption DEF Jobs
  <2>2. \A i \in Jobs : status'[i] = "ABSENT" <=> status[i] = "ABSENT"
    BY <1>1, <1>3, <1>4
  <2> QED
    BY <1>1, <2>1, <2>2 DEF Inv, RowsConsecutive
<1>6. WorkersHoldOwnLane'
  <2>1. \A v \in Workers : v # w /\ workerJob[v] # NoJob => workerJob[v] \in Jobs /\ workerJob[v] # n
    BY <1>1 DEF Inv, TypeOK, WorkersHoldOwnLane
  <2>2. \A v \in Workers : v # w /\ workerPc[v] = "running" => workerJob[v] # NoJob
    BY DEF Inv, WorkersHoldOwnLane
  <2> QED
    BY <1>1, <1>2, <1>3, <2>1, <2>2 DEF Inv, WorkersHoldOwnLane
<1>7. WorkersOwnRunning'
  <2>1. \A j \in Jobs : LaneOf(key[j]) \in Workers
    BY LaneIsAllowed DEF Inv, TypeOK
  <2> QED
    BY <1>1, <1>2, <1>3, <1>4, <2>1 DEF Inv, WorkersOwnRunning
<1>8. UnclaimedHasNoAttempt' /\ AtMostOneAttempt'
  BY <1>1, <1>3, <1>4 DEF Inv, UnclaimedHasNoAttempt, AtMostOneAttempt
<1>9. NoneRunningAfterReset' /\ NewestTogglePending'
  BY <1>1, <1>3, <1>4 DEF Inv, NoneRunningAfterReset, NewestTogglePending, WithKey, Pending
<1> QED
  BY <1>5, <1>6, <1>7, <1>8, <1>9 DEF Inv

\* The weekly trim may take any row, even one being run, but adds nothing.
LEMMA TrimInv ==
    ASSUME Inv, TypeOK', TrimBackgroundJobs
    PROVE  Inv'
<1>1. UNCHANGED <<key, attempts, phase, workerPc, workerJob>>
  BY DEF TrimBackgroundJobs, process, workers
<1>2. \A i \in Jobs :
        \/ status'[i] = status[i]
        \/ status[i] # "ABSENT" /\ status'[i] = "TRIMMED"
  BY DEF TrimBackgroundJobs, Rows
<1>3. RowsConsecutive'
  <2>1. \A j \in Jobs : \A i \in 1..(j - 1) : i \in Jobs
    BY QueueAssumption DEF Jobs
  <2>2. \A i \in Jobs : status'[i] = "ABSENT" <=> status[i] = "ABSENT"
    BY <1>2
  <2> QED
    BY <1>1, <2>1, <2>2 DEF Inv, RowsConsecutive
<1>4. WorkersHoldOwnLane'
  <2>1. \A v \in Workers : workerJob[v] # NoJob => workerJob[v] \in Jobs
    BY DEF Inv, TypeOK
  <2> QED
    BY <1>1, <1>2, <2>1 DEF Inv, WorkersHoldOwnLane
<1>5. NoneRunningAfterReset' /\ WorkersOwnRunning'
  BY <1>1, <1>2 DEF Inv, NoneRunningAfterReset, WorkersOwnRunning
<1>6. UnclaimedHasNoAttempt' /\ AtMostOneAttempt' /\ NewestTogglePending'
  BY <1>1, <1>2
  DEF Inv, UnclaimedHasNoAttempt, AtMostOneAttempt, NewestTogglePending, WithKey, Pending
<1> QED
  BY <1>3, <1>4, <1>5, <1>6 DEF Inv

\* The reset leaves nothing RUNNING; the other steps of lifespan, and a stop,
\* leave the table alone.
LEMMA LifespanInv ==
    ASSUME Inv, TypeOK', LifespanNext
    PROVE  Inv'
<1>1. CASE StartScheduler
  <2>1. UNCHANGED <<table, workers>> /\ phase # "up" /\ phase' = "scheduling"
    BY <1>1 DEF StartScheduler
  <2> QED
    BY <2>1
    DEF Inv, table, workers, RowsConsecutive, WorkersHoldOwnLane, NoneRunningAfterReset,
        WorkersOwnRunning, UnclaimedHasNoAttempt, AtMostOneAttempt, NewestTogglePending,
        WithKey, Pending
<1>2. CASE ResetStaleJobs
  <2>1. /\ UNCHANGED <<key, attempts, workerPc, workerJob>>
        /\ phase # "up" /\ phase' = "reset"
    BY <1>2 DEF ResetStaleJobs, workers
  <2>2. \A i \in Jobs : status'[i] = IF status[i] = "RUNNING" THEN "FAILED" ELSE status[i]
    BY <1>2 DEF ResetStaleJobs
  <2>3. RowsConsecutive'
    <3>1. \A j \in Jobs : \A i \in 1..(j - 1) : i \in Jobs
      BY QueueAssumption DEF Jobs
    <3>2. \A i \in Jobs : status'[i] = "ABSENT" <=> status[i] = "ABSENT"
      BY <2>2
    <3> QED
      BY <2>1, <3>1, <3>2 DEF Inv, RowsConsecutive
  <2>4. WorkersHoldOwnLane' /\ WorkersOwnRunning' /\ NoneRunningAfterReset'
    BY <2>1, <2>2 DEF Inv, WorkersHoldOwnLane, WorkersOwnRunning, NoneRunningAfterReset
  <2>5. UnclaimedHasNoAttempt' /\ AtMostOneAttempt' /\ NewestTogglePending'
    BY <2>1, <2>2
    DEF Inv, UnclaimedHasNoAttempt, AtMostOneAttempt, NewestTogglePending, WithKey, Pending
  <2> QED
    BY <2>3, <2>4, <2>5 DEF Inv
<1>3. CASE StartWorkers
  <2>1. /\ UNCHANGED <<table, workerJob>>
        /\ phase = "reset" /\ phase' = "up"
        /\ workerPc' = [w \in Workers |-> "idle"]
    BY <1>3 DEF StartWorkers
  <2>2. WorkersHoldOwnLane' /\ WorkersOwnRunning' /\ NoneRunningAfterReset'
    BY <2>1
    DEF Inv, table, WorkersHoldOwnLane, WorkersOwnRunning, NoneRunningAfterReset
  <2> QED
    BY <2>1, <2>2
    DEF Inv, table, RowsConsecutive, UnclaimedHasNoAttempt, AtMostOneAttempt,
        NewestTogglePending, WithKey, Pending
<1>4. CASE Stop
  <2>1. /\ UNCHANGED table
        /\ phase' = "down"
        /\ workerPc' = [w \in Workers |-> "off"]
        /\ workerJob' = [w \in Workers |-> NoJob]
    BY <1>4 DEF Stop
  <2>2. WorkersHoldOwnLane' /\ WorkersOwnRunning' /\ NoneRunningAfterReset'
    BY <2>1 DEF table, WorkersHoldOwnLane, WorkersOwnRunning, NoneRunningAfterReset
  <2> QED
    BY <2>1, <2>2
    DEF Inv, table, RowsConsecutive, UnclaimedHasNoAttempt, AtMostOneAttempt,
        NewestTogglePending, WithKey, Pending
<1> QED
  BY <1>1, <1>2, <1>3, <1>4 DEF LifespanNext

\* Every step of the specification keeps the inductive invariant.
LEMMA StepInv == Inv /\ [Next]_vars => Inv'
<1> SUFFICES ASSUME Inv, [Next]_vars PROVE Inv'
  OBVIOUS
<1>1. TypeOK'
  BY TypeStep DEF Inv
<1>2. CASE CallerNext
  <2>1. ASSUME NEW c \in Callers, NEW k \in Keys, EnqueueBegin(c, k) PROVE Inv'
    BY <1>1, <2>1, QuietInv DEF EnqueueBegin
  <2>2. ASSUME NEW c \in Callers, SkipIfActive(c) PROVE Inv'
    BY <1>1, <2>2, QuietInv DEF SkipIfActive, process
  <2> QED
    BY <1>1, <1>2, <2>1, <2>2, InsertInv, CancelInv DEF CallerNext
<1>3. CASE WorkerNext
  BY <1>1, <1>3, SelectInv, ClaimInv, DropInv, EndInv, TrimInv
  DEF WorkerNext, CompleteRun, FailRun
<1>4. CASE LifespanNext
  BY <1>1, <1>4, LifespanInv
<1>5. CASE UNCHANGED vars
  BY <1>1, <1>5, QuietInv DEF vars, process
<1> QED
  BY <1>2, <1>3, <1>4, <1>5 DEF Next

\* The inductive invariant holds in every reachable state.
THEOREM InvHolds == Spec => []Inv
  BY InitInv, StepInv, PTL DEF Spec

\* worker.py and reset_stale_jobs: while the workers are up, a RUNNING row is
\* in the hands of the one worker loop that may run it.
THEOREM RunningIsOwned == Spec => []WorkersOwnRunning
<1>1. Inv => WorkersOwnRunning
  BY DEF Inv
<1> QED
  BY <1>1, InvHolds, PTL

\* claim_next_background_job and reset_stale_jobs: over any number of crashes,
\* no job is started twice.
THEOREM NeverRunTwice == Spec => []AtMostOneAttempt
<1>1. Inv => AtMostOneAttempt
  BY DEF Inv
<1> QED
  BY <1>1, InvHolds, PTL

\* enqueue_background_job with replace_pending: a pending service toggle is the
\* newest row of its key.
THEOREM TogglesInOrder == Spec => []NewestTogglePending
<1>1. Inv => NewestTogglePending
  BY DEF Inv
<1> QED
  BY <1>1, InvHolds, PTL

-----------------------------------------------------------------------------
(* JobQueue implements OneShotJobs.  The jobs, the loops and the statuses  *)
(* are the same; the lane of a job is computed from its key.               *)

Lane == [j \in Jobs |-> LaneOf(key[j])]

\* The empty table is the abstract initial state.
LEMMA InitRefines == Init => OneShot!AbstractInit
  BY LaneIsAllowed DEF Init, OneShot!AbstractInit, Workers, LaneOf, JobType

\* An insert submits the new job in place of the pending ones it replaces.
LEMMA InsertRefines ==
    ASSUME Inv, NEW c \in Callers, Insert(c)
    PROVE  OneShot!AbstractNext
<1> DEFINE k == callerKey[c]
<1>1. PICK n \in Jobs :
        /\ NextRow(n)
        /\ status' = [i \in Jobs |-> IF i = n THEN "PENDING"
                                     ELSE IF i \in Replaced(k) THEN "CANCELED"
                                     ELSE status[i]]
        /\ key' = [key EXCEPT ![n] = k]
  BY DEF Insert
<1>2. LaneOf(k) \in Workers
  BY DEF LaneOf, Workers
<1>3. Lane' = [Lane EXCEPT ![n] = LaneOf(k)]
  BY <1>1 DEF Lane, Inv, TypeOK
<1>4. Replaced(k) \in SUBSET Jobs /\ \A i \in Replaced(k) : status[i] = "PENDING"
  BY DEF Replaced, WithKey, Pending
<1>5. OneShot!Submit(n, LaneOf(k), Replaced(k))
  BY <1>1, <1>3, <1>4 DEF OneShot!Submit, Lane, NextRow
<1> QED
  BY <1>2, <1>4, <1>5 DEF OneShot!AbstractNext

\* A cancellation withdraws the pending jobs of the key.
LEMMA CancelRefines ==
    ASSUME Inv, NEW k \in ToggleKeys \cup TaskKeys, CancelPendingByKey(k)
    PROVE  OneShot!AbstractNext
<1> DEFINE W == WithKey(Pending, k)
<1>1. W \in SUBSET Jobs /\ \A i \in W : status[i] = "PENDING"
  BY DEF WithKey, Pending
<1>2. OneShot!Withdraw(W)
  BY <1>1 DEF CancelPendingByKey, OneShot!Withdraw, OneShot!Move
<1> QED
  BY <1>1, <1>2 DEF OneShot!AbstractNext

\* A claim starts a job in a lane where no other job is RUNNING: that job would
\* be in the hands of the same loop, which is between a SELECT and an UPDATE.
LEMMA ClaimRefines ==
    ASSUME Inv, NEW w \in Workers, ClaimWon(w)
    PROVE  OneShot!AbstractNext
<1> DEFINE n == workerJob[w]
<1>1. /\ workerPc[w] = "selected" /\ phase = "up"
      /\ n \in Jobs /\ status[n] = "PENDING" /\ LaneOf(key[n]) = w
  BY DEF ClaimWon, Inv, TypeOK, WorkersHoldOwnLane
<1>2. status' = [j \in Jobs |-> IF j \in {n} THEN "RUNNING" ELSE status[j]]
  BY DEF ClaimWon, Inv, TypeOK
<1>3. \A i \in Jobs : Lane[i] = Lane[n] => status[i] # "RUNNING"
  BY <1>1 DEF Lane, Inv, WorkersOwnRunning
<1>4. OneShot!Start(n)
  BY <1>1, <1>2, <1>3 DEF OneShot!Start, OneShot!Move, Lane, ClaimWon
<1> QED
  BY <1>1, <1>4 DEF OneShot!AbstractNext

\* The end of a run finishes the job, or stutters if its row was trimmed.
LEMMA EndRefines ==
    ASSUME Inv, NEW w \in Workers, NEW s \in {"COMPLETED", "FAILED"}, EndRun(w, s)
    PROVE  OneShot!AbstractNext \/ UNCHANGED OneShot!aVars
<1> DEFINE n == workerJob[w]
<1>1. n \in Jobs /\ status[n] \in {"RUNNING", "TRIMMED"} /\ key' = key
  BY DEF EndRun, Inv, TypeOK, WorkersHoldOwnLane
<1>2. CASE status[n] = "RUNNING"
  <2>1. status' = [j \in Jobs |-> IF j \in {n} THEN s ELSE status[j]]
    BY <1>2 DEF EndRun, Ended, Inv, TypeOK
  <2>2. OneShot!Finish(n, s)
    BY <1>1, <1>2, <2>1 DEF OneShot!Finish, OneShot!Move
  <2> QED
    BY <1>1, <2>2 DEF OneShot!AbstractNext, OneShot!Outcomes
<1>3. CASE status[n] = "TRIMMED"
  <2>1. status' = status
    BY <1>1, <1>3 DEF EndRun, Ended, Inv, TypeOK
  <2> QED
    BY <1>1, <2>1 DEF OneShot!aVars
<1> QED
  BY <1>1, <1>2, <1>3

\* The trim forgets rows.
LEMMA TrimRefines ==
    ASSUME Inv, TrimBackgroundJobs
    PROVE  OneShot!AbstractNext
<1>1. PICK S \in SUBSET Rows : status' = [j \in Jobs |-> IF j \in S THEN "TRIMMED" ELSE status[j]]
  <2> DEFINE Recent(j) == Cardinality({i \in Rows : i > j}) < KeepRecent
             S == {j \in Rows : ~Recent(j)}
  <2>1. status' = [j \in Jobs |-> IF j \in S THEN "TRIMMED" ELSE status[j]]
    BY DEF TrimBackgroundJobs
  <2> HIDE DEF Recent
  <2>2. S \in SUBSET Rows
    OBVIOUS
  <2> QED
    BY <2>1, <2>2
<1>2. S \in SUBSET Jobs /\ \A j \in S : status[j] # "ABSENT"
  BY DEF Rows
<1>3. OneShot!Forget(S)
  BY <1>1, <1>2 DEF OneShot!Forget, OneShot!Move, TrimBackgroundJobs
<1> QED
  BY <1>2, <1>3 DEF OneShot!AbstractNext

\* Every step of the queue is an abstract step or a stutter.
LEMMA StepRefines == Inv /\ [Next]_vars => [OneShot!AbstractNext]_(OneShot!aVars)
<1> SUFFICES ASSUME Inv, [Next]_vars
             PROVE  OneShot!AbstractNext \/ UNCHANGED OneShot!aVars
  OBVIOUS
<1>1. ASSUME UNCHANGED <<status, key>> PROVE UNCHANGED OneShot!aVars
  BY <1>1 DEF OneShot!aVars
<1>2. CASE CallerNext
  BY <1>1, <1>2, InsertRefines, CancelRefines
  DEF CallerNext, EnqueueBegin, SkipIfActive, table
<1>3. CASE WorkerNext
  BY <1>1, <1>3, ClaimRefines, EndRefines, TrimRefines
  DEF WorkerNext, CompleteRun, FailRun, ClaimSelect, ClaimLost, WorkerDies, table
<1>4. CASE LifespanNext
  <2>1. ASSUME ResetStaleJobs PROVE OneShot!Abandon
    BY <2>1 DEF ResetStaleJobs, OneShot!Abandon, OneShot!Move
  <2> QED
    BY <1>1, <1>4, <2>1
    DEF LifespanNext, StartScheduler, StartWorkers, Stop, table, OneShot!AbstractNext
<1>5. CASE UNCHANGED vars
  BY <1>1, <1>5 DEF vars, table
<1> QED
  BY <1>2, <1>3, <1>4, <1>5 DEF Next

\* The two worker loops, the guarded claim, the reset and the trim together keep
\* the promise of OneShotJobs: one start per job, one RUNNING job per loop, final
\* outcomes.
THEOREM Refinement == Spec => ImplementsOneShotJobs
<1>1. Spec => []Inv
  BY InvHolds
<1> QED
  BY <1>1, InitRefines, StepRefines, PTL
  DEF Spec, ImplementsOneShotJobs, OneShot!AbstractSpec

=============================================================================
