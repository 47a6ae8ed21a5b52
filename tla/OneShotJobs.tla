---------------------------- MODULE OneShotJobs ----------------------------
(***************************************************************************)
(* What the background job table promises to the rest of the backend,      *)
(* whatever the order in which API handlers, the scheduler, the two worker *)
(* loops, house keeping and restarts touch it:                             *)
(*                                                                         *)
(*   - a job is started at most once: there is no way back to PENDING;     *)
(*   - a lane (one worker loop) has at most one RUNNING job;               *)
(*   - COMPLETED, FAILED and CANCELED are final, except that the row of    *)
(*     any job may eventually be forgotten (TRIMMED).                      *)
(*                                                                         *)
(* JobQueue is the detailed protocol that implements this.                 *)
(***************************************************************************)

CONSTANTS
    Jobs,       \* the identities jobs may get
    Lanes       \* the worker loops

VARIABLES
    status,     \* status[j]: where job j is in its life
    lane        \* lane[j]: the lane that may run job j, fixed when j is submitted

aVars == <<status, lane>>

Outcomes == {"COMPLETED", "FAILED"}

JobStatuses ==
    {"ABSENT", "PENDING", "RUNNING", "CANCELED", "TRIMMED"} \cup Outcomes

AbstractTypeOK ==
    /\ status \in [Jobs -> JobStatuses]
    /\ lane \in [Jobs -> Lanes]

AbstractInit ==
    /\ status = [j \in Jobs |-> "ABSENT"]
    /\ lane \in [Jobs -> Lanes]

\* S moves, all at once, to status s.
Move(S, s) == status' = [j \in Jobs |-> IF j \in S THEN s ELSE status[j]]

\* A new job enters the table, in place of the pending jobs W.
Submit(j, l, W) ==
    /\ status[j] = "ABSENT"
    /\ \A i \in W : status[i] = "PENDING"
    /\ status' = [i \in Jobs |-> IF i = j THEN "PENDING"
                                 ELSE IF i \in W THEN "CANCELED"
                                 ELSE status[i]]
    /\ lane' = [lane EXCEPT ![j] = l]

Withdraw(W) ==
    /\ \A j \in W : status[j] = "PENDING"
    /\ Move(W, "CANCELED")
    /\ UNCHANGED lane

Start(j) ==
    /\ status[j] = "PENDING"
    /\ \A i \in Jobs : lane[i] = lane[j] => status[i] # "RUNNING"
    /\ Move({j}, "RUNNING")
    /\ UNCHANGED lane

Finish(j, outcome) ==
    /\ status[j] = "RUNNING"
    /\ Move({j}, outcome)
    /\ UNCHANGED lane

\* A restart gives up on everything the previous process was running.
Abandon ==
    /\ Move({j \in Jobs : status[j] = "RUNNING"}, "FAILED")
    /\ UNCHANGED lane

Forget(S) ==
    /\ \A j \in S : status[j] # "ABSENT"
    /\ Move(S, "TRIMMED")
    /\ UNCHANGED lane

AbstractNext ==
    \/ \E j \in Jobs, l \in Lanes, W \in SUBSET Jobs : Submit(j, l, W)
    \/ \E W \in SUBSET Jobs : Withdraw(W)
    \/ \E j \in Jobs : Start(j)
    \/ \E j \in Jobs, outcome \in Outcomes : Finish(j, outcome)
    \/ Abandon
    \/ \E S \in SUBSET Jobs : Forget(S)

AbstractSpec == AbstractInit /\ [][AbstractNext]_aVars

=============================================================================
