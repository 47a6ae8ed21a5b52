-------------------------- MODULE OperationSessions -------------------------
(***************************************************************************)
(* Bulk execution of recommendations (backend/services/mie/                *)
(* operations_execution.py).  A session is a task in memory that takes its *)
(* items one after the other through preview, validation and execution;    *)
(* its row in the operation history says "running" until the task writes   *)
(* the result.  Executing a recommendation (operations_service.py) writes  *)
(* one audit row of its own.                                               *)
(*                                                                         *)
(* Recommendations are computed from the database at every look, so one    *)
(* may become invalid or vanish between two steps.                         *)
(***************************************************************************)
EXTENDS Naturals, Sequences, SequencesExt

CONSTANTS
    Sessions,
    Recs,          \* recommendations
    Investigated,  \* those whose action is investigate_torrent
    Stages,        \* the number of stages of each (_pipeline_keys_for_recommendation)
    MaxItems,      \* bound on the items of a session
    NoRecord

Settled == {"completed", "failed", "blocked"}
StageStates == {"pending", "running", "completed", "failed", "skipped"}
SessionStates == {"running", "completed", "failed", "partial"}
SessionItems == [rec : Recs, status : {"pending", "running"} \cup Settled, stages : Seq(StageStates)]
Records == [status : SessionStates, items : Seq(SessionItems)]

ASSUME OpsAssumption ==
    /\ Investigated \subseteq Recs
    /\ Stages \in [Recs -> Nat \ {0}]
    /\ MaxItems \in Nat
    /\ NoRecord \notin Records

VARIABLES
    opsRecs,    \* what each recommendation is now: "valid", "invalid" or "gone"
    opsMemory,  \* the sessions of the manager
    opsHistory, \* the history row of each session
    opsAudit    \* the audit rows

opsVars == <<opsRecs, opsMemory, opsHistory, opsAudit>>

\* step: "preview", "validate", "revalidate" and "find", the two looks of
\* recommendation_execute.  verdict: what the first of them found.
NoSession == [status |-> "none", items |-> <<>>, at |-> 0, step |-> "none", verdict |-> FALSE]

OpsInit ==
    /\ opsRecs = [r \in Recs |-> "valid"]
    /\ opsMemory = [s \in Sessions |-> NoSession]
    /\ opsHistory = [s \in Sessions |-> NoRecord]
    /\ opsAudit = {}

RecChanges(r) ==
    /\ \E state \in {"valid", "invalid", "gone"} \ {opsRecs[r]} : opsRecs' = [opsRecs EXCEPT ![r] = state]
    /\ UNCHANGED <<opsMemory, opsHistory, opsAudit>>

-----------------------------------------------------------------------------
(* The stages of an item                                                   *)

Advance(item, i) == [item EXCEPT !.stages[i] = "running"]
Complete(item, i) == [item EXCEPT !.stages[i] = "completed"]

Rest(item, from, state) ==
    [item EXCEPT !.stages = [i \in DOMAIN @ |-> IF i >= from /\ @[i] = "pending" THEN state ELSE @[i]]]

Failed(item, i, status) == Rest([item EXCEPT !.stages[i] = "failed", !.status = status], i + 1, "skipped")

\* _fail_first_open_step
FailedOpen(item) ==
    LET open == {i \in DOMAIN item.stages : item.stages[i] \in {"pending", "running"}}
        first == CHOOSE i \in open : \A j \in open : i <= j
    IN  IF open = {} THEN [item EXCEPT !.status = "failed"] ELSE Failed(item, first, "failed")

ValidationStage(item) == IF Len(item.stages) > 1 THEN 2 ELSE 1
ExecutionStage(item) ==
    IF ValidationStage(item) < Len(item.stages) THEN ValidationStage(item) + 1 ELSE Len(item.stages)

-----------------------------------------------------------------------------
(* OperationsExecutionManager.start_session                                *)

NewItem(r) == [rec |-> r, status |-> "pending", stages |-> [i \in 1..Stages[r] |-> "pending"]]
Begun(item) == Advance([item EXCEPT !.status = "running"], 1)

StartSession(s, chosen) ==
    LET items == [i \in DOMAIN chosen |-> NewItem(chosen[i])]
    IN  /\ opsHistory[s] = NoRecord
        /\ chosen # <<>> /\ \A r \in ToSet(chosen) : opsRecs[r] # "gone"
        /\ opsHistory' = [opsHistory EXCEPT ![s] = [status |-> "running", items |-> items]]
        /\ opsMemory' = [opsMemory EXCEPT
              ![s] = [status |-> "running", items |-> [items EXCEPT ![1] = Begun(@)],
                      at |-> 1, step |-> "preview", verdict |-> FALSE]]
        /\ UNCHANGED <<opsRecs, opsAudit>>

-----------------------------------------------------------------------------
(* _run_session: one look at the recommendation at a time                  *)

Current(s) == opsMemory[s].items[opsMemory[s].at]
State(s) == opsRecs[Current(s).rec]
InStep(s, step) == opsMemory[s].status = "running" /\ opsMemory[s].step = step

Continue(s, item, step, verdict) ==
    opsMemory' = [opsMemory EXCEPT
        ![s] = [@ EXCEPT !.items[@.at] = item, !.step = step, !.verdict = verdict]]

\* The item is settled and the next one, if any, begins.
Settle(s, item) ==
    LET session == opsMemory[s]
        items == [session.items EXCEPT ![session.at] = item]
        next == session.at + 1
    IN  opsMemory' = [opsMemory EXCEPT
            ![s] = IF next > Len(items)
                   THEN [session EXCEPT !.items = items, !.at = next, !.step = "finish"]
                   ELSE [session EXCEPT !.items = [items EXCEPT ![next] = Begun(@)], !.at = next,
                                        !.step = "preview", !.verdict = FALSE]]

\* recommendation_preview looks a missing recommendation over.
Preview(s) ==
    LET item == Current(s)
    IN  /\ InStep(s, "preview")
        /\ Continue(s, Advance(Complete(item, 1), ValidationStage(item)), "validate", FALSE)
        /\ UNCHANGED <<opsRecs, opsHistory, opsAudit>>

Validated(s) ==
    LET item == Current(s)
    IN  /\ InStep(s, "validate")
        /\ State(s) = "valid"
        /\ Continue(s, Advance(Complete(item, ValidationStage(item)), ExecutionStage(item)), "revalidate", FALSE)
        /\ UNCHANGED <<opsRecs, opsHistory, opsAudit>>

Blocked(s) ==
    /\ InStep(s, "validate")
    /\ State(s) # "valid"
    /\ Settle(s, Failed(Current(s), ValidationStage(Current(s)), "blocked"))
    /\ UNCHANGED <<opsRecs, opsHistory, opsAudit>>

Revalidated(s) ==
    /\ InStep(s, "revalidate")
    /\ Continue(s, Current(s), "find", State(s) = "valid")
    /\ UNCHANGED <<opsRecs, opsHistory, opsAudit>>

\* Mutant: an investigation counts as executed.
Executes_Any(s) == opsMemory[s].verdict /\ State(s) # "gone"

\* recommendation_execute logs an investigation as failed.
Executes(s) == opsMemory[s].verdict /\ State(s) # "gone" /\ Current(s).rec \notin Investigated

Audited(s, result) ==
    opsAudit' = opsAudit \cup {[session |-> s, item |-> opsMemory[s].at, result |-> result]}

AuditResult(r) == IF r \in Investigated THEN "failed" ELSE "completed"

Executed(s) ==
    LET item == Current(s)
        done == [Complete(item, ExecutionStage(item)) EXCEPT !.status = "completed"]
    IN  /\ InStep(s, "find")
        /\ Executes(s)
        /\ Audited(s, AuditResult(item.rec))
        /\ Settle(s, Rest(done, ExecutionStage(item) + 1, "completed"))
        /\ UNCHANGED <<opsRecs, opsHistory>>

NotExecuted(s) ==
    /\ InStep(s, "find")
    /\ ~Executes(s)
    /\ IF opsMemory[s].verdict /\ State(s) # "gone" THEN Audited(s, AuditResult(Current(s).rec))
       ELSE UNCHANGED opsAudit
    /\ Settle(s, Failed(Current(s), ExecutionStage(Current(s)), "failed"))
    /\ UNCHANGED <<opsRecs, opsHistory>>

\* Any look may raise, and so may the commit of the audit row.
StepRaises(s) ==
    /\ opsMemory[s].step \in {"preview", "validate", "revalidate", "find"}
    /\ Settle(s, FailedOpen(Current(s)))
    /\ UNCHANGED <<opsRecs, opsHistory, opsAudit>>

Completed(items) == {i \in DOMAIN items : items[i].status = "completed"}
Outcome(items) ==
    IF Completed(items) = DOMAIN items THEN "completed"
    ELSE IF Completed(items) = {} THEN "failed" ELSE "partial"

\* The session in memory is finished before its row is written, and stays so
\* when that fails.
Finish(s, written) ==
    LET session == opsMemory[s]
        status == Outcome(session.items)
    IN  /\ InStep(s, "finish")
        /\ opsMemory' = [opsMemory EXCEPT ![s] = [@ EXCEPT !.status = status, !.step = "none"]]
        /\ opsHistory' = IF written
                         THEN [opsHistory EXCEPT ![s] = [status |-> status, items |-> session.items]]
                         ELSE opsHistory
        /\ UNCHANGED <<opsRecs, opsAudit>>

\* The manager's sessions are in memory only; nothing repairs their rows.
OpsRestart ==
    /\ opsMemory # [s \in Sessions |-> NoSession]
    /\ opsMemory' = [s \in Sessions |-> NoSession]
    /\ UNCHANGED <<opsRecs, opsHistory, opsAudit>>

Chosen == UNION {[1..n -> Recs] : n \in 1..MaxItems}

OpsNext ==
    \/ \E r \in Recs : RecChanges(r)
    \/ \E s \in Sessions, chosen \in Chosen : StartSession(s, chosen)
    \/ \E s \in Sessions : Preview(s)
    \/ \E s \in Sessions : Validated(s)
    \/ \E s \in Sessions : Blocked(s)
    \/ \E s \in Sessions : Revalidated(s)
    \/ \E s \in Sessions : Executed(s)
    \/ \E s \in Sessions : NotExecuted(s)
    \/ \E s \in Sessions : StepRaises(s)
    \/ \E s \in Sessions, written \in BOOLEAN : Finish(s, written)
    \/ OpsRestart

OpsSpec == OpsInit /\ [][OpsNext]_opsVars

-----------------------------------------------------------------------------
\* Every variable keeps its type.
OpsTypeOK ==
    /\ opsRecs \in [Recs -> {"valid", "invalid", "gone"}]
    /\ \A s \in Sessions : opsHistory[s] = NoRecord \/ opsHistory[s] \in Records
    /\ \A s \in Sessions :
          \/ opsMemory[s] = NoSession
          \/ opsMemory[s].status \in SessionStates /\ opsMemory[s].items \in Seq(SessionItems)
    /\ opsAudit \subseteq [session : Sessions, item : 1..MaxItems, result : {"completed", "failed"}]

AuditOf(s, i) == {row.result : row \in {a \in opsAudit : a.session = s /\ a.item = i}}

\* The result a session leaves behind is true: an item is completed exactly
\* when its audit row says so and every stage of it is, an item that is not has
\* one failed stage, no stage is left open, and the status follows the items,
\* whatever vanished, failed or raised on the way (_run_session,
\* recommendation_execute).
SessionRecordTrue ==
    \A s \in Sessions :
        opsHistory[s] # NoRecord /\ opsHistory[s].status # "running" =>
            LET items == opsHistory[s].items IN
            /\ \A i \in DOMAIN items :
                  LET stages == ToSet(items[i].stages)
                  IN  IF items[i].status = "completed"
                      THEN AuditOf(s, i) = {"completed"} /\ stages = {"completed"}
                      ELSE AuditOf(s, i) \subseteq {"failed"} /\ stages \cap {"pending", "running"} = {}
                           /\ "failed" \in stages
            /\ opsHistory[s].status = Outcome(items)
=============================================================================
