------------------------- MODULE TaskSchedulerProofs -------------------------
(***************************************************************************)
(* For any set of tasks and timings and any number of coroutines: the type *)
(* invariant, that the tasks users may not disable keep their triggers,    *)
(* and that the automatic deletion never starts without the opt-in.        *)
(***************************************************************************)
EXTENDS TaskScheduler, TLAPS

USE SchedulerAssumption

\* What a coroutine of pc `commit' or later knows of the task it edits, and which
\* task the others are about.
ClientKnows(c) ==
    LET k == client[c]
    IN  /\ k.pc \in {"opt-in", "commit", "cancel", "reflect", "request", "select", "insert"}
              => k.task \in Tasks
        /\ k.pc = "opt-in" => k.task \in DisableAble
        /\ k.pc \in {"commit", "cancel", "reflect"} /\ k.task \notin DisableAble
              => /\ k.enabled = schedule[k.task].enabled
                 /\ k.row.enabled = schedule[k.task].enabled

ClientsKnow == \A c \in Clients : ClientKnows(c)

\* The row a refresh holds, as far as it cannot have changed since.
ToggleKnows ==
    /\ toggle.pc = "act" => toggle.task \in MainServerTasks
    /\ toggle.pc = "act" /\ toggle.task \notin DisableAble
          => toggle.row.enabled = schedule[toggle.task].enabled

WorkerKnows ==
    /\ worker.pc \in {"claimed", "waiting", "running"} => worker.task \in Tasks
    /\ worker.pc = "waiting" => worker.task = AutoDelete

\* The toggle in progress, if any, has dealt with t.
Settled(t) ==
    t \in MainServerTasks =>
        \/ toggle.pc = "none"
        \/ toggle.pc \in {"refresh", "act"} /\ t \notin toggle.todo
           /\ ~(toggle.pc = "act" /\ toggle.task = t)

\* MandatoryTasksScheduled while a toggle is in progress, task by task ...
Scheduled ==
    phase = "up" =>
        \A t \in Tasks \ DisableAble :
            Due(t) /\ ~Reflecting(t) /\ Settled(t) => trigger[t] # Manual

\* ... and for the task whose row was read when it had no timing.
ActScheduled ==
    phase = "up" /\ toggle.pc = "act" /\ toggle.row.when = Manual =>
        \A t \in Tasks \ DisableAble :
            toggle.task = t /\ Due(t) /\ ~Reflecting(t) => trigger[t] # Manual

Knows == ClientsKnow /\ ToggleKnows /\ WorkerKnows
IInv == TypeOK /\ Knows /\ Scheduled /\ ActScheduled

-----------------------------------------------------------------------------

\* The initial state satisfies the invariant.
LEMMA InitIInv == Init => IInv
<1> SUFFICES ASSUME Init PROVE IInv
  OBVIOUS
<1>1. NoRow \in Schedule /\ Idle \in Coroutine /\ NoToggle \in ServiceToggle /\ NoRun \in Run
  BY DEF NoRow, Schedule, Idle, Coroutine, NoToggle, ServiceToggle, NoRun, Run
<1>2. TypeOK
  BY <1>1 DEF Init, TypeOK
<1>3. Knows
  BY DEF Init, Knows, ClientsKnow, ClientKnows, ToggleKnows, WorkerKnows, Idle, NoToggle, NoRun
<1>4. Scheduled /\ ActScheduled
  BY DEF Init, Scheduled, ActScheduled
<1> QED
  BY <1>2, <1>3, <1>4 DEF IInv

\* A step that leaves these variables alone keeps the invariant.
LEMMA QuietIInv ==
    ASSUME IInv, UNCHANGED <<tables, runtime, client, toggle, worker>>, used' \in [Bounds -> Nat]
    PROVE  IInv'
  BY DEF IInv, TypeOK, Knows, ClientsKnow, ClientKnows, ToggleKnows, WorkerKnows, Scheduled,
         ActScheduled, Settled, Due, Reflecting, tables, runtime

\* Spending a bound keeps the counters natural numbers.
LEMMA SpendType ==
    ASSUME TypeOK, NEW b \in Bounds, NEW limit, Spend(b, limit)
    PROVE  used' \in [Bounds -> Nat]
  BY DEF TypeOK, Spend

-----------------------------------------------------------------------------
(* Steps of coroutines that set no trigger                                 *)

\* A coroutine that goes on, without having been about to set a trigger, keeps
\* every edit that is still to be reflected.
LEMMA MovesOn ==
    ASSUME TypeOK, NEW c \in Clients, NEW k \in Coroutine,
           client' = [client EXCEPT ![c] = k], client[c].pc # "reflect"
    PROVE  \A t \in Tasks : Reflecting(t) => Reflecting(t)'
  BY DEF TypeOK, Reflecting

\* A step of coroutine c that changes no schedule and no trigger.
LEMMA ClientStep ==
    ASSUME IInv, NEW c \in Clients, NEW k \in Coroutine,
           client' = [client EXCEPT ![c] = k], client[c].pc # "reflect",
           UNCHANGED <<schedule, runtime, toggle, worker>>,
           optIn' \in BOOLEAN, runs' \in [Tasks -> Nat], used' \in [Bounds -> Nat],
           ClientKnows(c)'
    PROVE  IInv'
<1>1. TypeOK'
  BY DEF IInv, TypeOK, runtime
<1>2. ClientsKnow'
  <2> SUFFICES ASSUME NEW d \in Clients
               PROVE  ClientKnows(d)'
    BY DEF ClientsKnow
  <2>1. CASE d = c
    BY <2>1
  <2>2. CASE d # c
    BY <2>2 DEF IInv, TypeOK, Knows, ClientsKnow, ClientKnows
  <2> QED
    BY <2>1, <2>2
<1>3. ToggleKnows' /\ WorkerKnows'
  BY DEF IInv, Knows, ToggleKnows, WorkerKnows
<1>4. \A t \in Tasks : Reflecting(t) => Reflecting(t)'
  BY MovesOn DEF IInv
<1>5. Scheduled' /\ ActScheduled'
  BY <1>4 DEF IInv, Scheduled, ActScheduled, Due, Settled, runtime
<1> QED
  BY <1>1, <1>2, <1>3, <1>5 DEF IInv, Knows

Labels == {"idle", "opt-in", "commit", "cancel", "reflect", "schedule", "save", "disable",
           "request", "select", "insert"}

\* Going on changes the label only.
LEMMA GoesForm ==
    ASSUME TypeOK, NEW c \in Clients, NEW to \in Labels, Goes(c, to)
    PROVE  /\ client' = [client EXCEPT ![c] = [client[c] EXCEPT !.pc = to]]
           /\ [client[c] EXCEPT !.pc = to] \in Coroutine
  BY DEF TypeOK, Goes, Coroutine, Labels

\* Returning leaves nothing behind.
LEMMA IdleKnows == Idle \in Coroutine /\ \A c \in Clients : client[c]' = Idle => ClientKnows(c)'
  BY DEF Idle, Coroutine, NoRow, Schedule, ClientKnows

\* A coroutine returns before it has written anything.
LEMMA ReturnsStep ==
    ASSUME IInv, NEW c \in Clients, Returns(c), client[c].pc # "reflect",
           UNCHANGED <<schedule, runtime, toggle, worker>>,
           optIn' \in BOOLEAN, runs' \in [Tasks -> Nat], used' \in [Bounds -> Nat]
    PROVE  IInv'
<1>1. client[c]' = Idle
  BY DEF IInv, TypeOK, Returns
<1> QED
  BY <1>1, IdleKnows, ClientStep DEF Returns

\* A coroutine goes on and changes no schedule.
LEMMA GoesStep ==
    ASSUME IInv, NEW c \in Clients, NEW to \in Labels, Goes(c, to), client[c].pc # "reflect",
           UNCHANGED <<schedule, runtime, toggle, worker>>,
           optIn' \in BOOLEAN, runs' \in [Tasks -> Nat], used' \in [Bounds -> Nat],
           to \in {"opt-in", "commit", "cancel", "reflect", "request", "select", "insert"} =>
               client[c].task \in Tasks,
           to = "opt-in" => client[c].task \in DisableAble,
           to \in {"commit", "cancel", "reflect"} =>
               \/ client[c].task \in DisableAble
               \/ client[c].pc \in {"commit", "cancel"}
    PROVE  IInv'
<1> DEFINE k == [client[c] EXCEPT !.pc = to]
<1>1. client' = [client EXCEPT ![c] = k] /\ k \in Coroutine
  BY GoesForm DEF IInv
<1>2. client[c]' = k
  BY <1>1 DEF IInv, TypeOK
<1>3. ClientKnows(c)
  BY DEF IInv, Knows, ClientsKnow
<1>4. ClientKnows(c)'
  BY <1>2, <1>3 DEF ClientKnows, IInv, TypeOK, Coroutine
<1> HIDE DEF k
<1> QED
  BY <1>1, <1>4, ClientStep

\* Reading a row for an edit: what cannot be disabled is not.
LEMMA ReadRowStep ==
    ASSUME IInv, NEW c \in Clients, NEW t \in Tasks, NEW w \in Timings \cup {Manual},
           NEW e \in BOOLEAN, ReadRow(c, t, w, e), client[c].pc # "reflect",
           UNCHANGED <<tables, runtime, toggle, worker>>, used' \in [Bounds -> Nat]
    PROVE  IInv'
<1> DEFINE k == [pc |-> IF t = AutoDelete /\ e THEN "opt-in" ELSE "commit", task |-> t,
                 when |-> w, enabled |-> e, row |-> schedule[t]]
<1>1. client' = [client EXCEPT ![c] = k] /\ k \in Coroutine
  BY DEF IInv, TypeOK, ReadRow, Coroutine
<1>2. client[c]' = k
  BY <1>1 DEF IInv, TypeOK
<1>3. ClientKnows(c)'
  BY <1>2 DEF ClientKnows, ReadRow, tables
<1>4. optIn' \in BOOLEAN /\ runs' \in [Tasks -> Nat] /\ UNCHANGED schedule
  BY DEF IInv, TypeOK, tables
<1> HIDE DEF k
<1> QED
  BY <1>1, <1>3, <1>4, ClientStep
-----------------------------------------------------------------------------
(* Edits                                                                   *)

\* A new schedule is still to be reflected by the coroutine that wrote it; the
\* `enabled' of a task that cannot be disabled is written as it is.
LEMMA CommitScheduleKeeps ==
    ASSUME IInv, NEW c \in Clients, CommitSchedule(c)
    PROVE  IInv'
<1> DEFINE k  == client[c]
           to == IF k.row.enabled /\ ~k.enabled THEN "cancel" ELSE "reflect"
           n  == Written(k.row, k, schedule[k.task])
<1>1. k \in Coroutine /\ k.pc = "commit" /\ k.task \in Tasks /\ ClientKnows(c)
  BY DEF IInv, TypeOK, CommitSchedule, Knows, ClientsKnow, ClientKnows
<1>2. client' = [client EXCEPT ![c] = [k EXCEPT !.pc = to]] /\ [k EXCEPT !.pc = to] \in Coroutine
  BY <1>1 DEF CommitSchedule, Goes, IInv, TypeOK, Coroutine
<1>3. n \in Schedule /\ schedule' = [schedule EXCEPT ![k.task] = n]
  BY <1>1 DEF CommitSchedule, IInv, TypeOK, Coroutine, Schedule, Written
<1>4. UNCHANGED <<optIn, runs, phase, main, trigger, toggle, worker, used>>
  BY DEF CommitSchedule, runtime
<1>5. TypeOK'
  BY <1>1, <1>2, <1>3, <1>4 DEF IInv, TypeOK
<1>6. \A t \in Tasks \ DisableAble : schedule[t]' .enabled = schedule[t].enabled
  BY <1>1, <1>3 DEF ClientKnows, Written, IInv, TypeOK, Coroutine, Schedule
<1>7. ClientsKnow'
  <2> SUFFICES ASSUME NEW d \in Clients
               PROVE  ClientKnows(d)'
    BY DEF ClientsKnow
  <2>1. ClientKnows(d)
    BY DEF IInv, Knows, ClientsKnow
  <2>2. CASE d = c
    <3>1. client[d]' = [k EXCEPT !.pc = to]
      BY <1>2, <2>2 DEF IInv, TypeOK
    <3> HIDE DEF to
    <3>2. /\ client[d]'.pc = to /\ client[d]'.task = k.task /\ client[d]'.enabled = k.enabled
          /\ client[d]'.row = k.row
      BY <1>1, <3>1 DEF Coroutine
    <3>3. to \in {"cancel", "reflect"}
      BY DEF to
    <3> QED
      BY <1>1, <1>6, <3>2, <3>3 DEF ClientKnows
  <2>3. CASE d # c
    <3>1. client[d]' = client[d]
      BY <1>2, <2>3 DEF IInv, TypeOK
    <3> QED
      BY <1>6, <2>1, <3>1 DEF ClientKnows
  <2> QED
    BY <2>2, <2>3
<1>8. ToggleKnows' /\ WorkerKnows'
  BY <1>4, <1>6 DEF IInv, Knows, ToggleKnows, WorkerKnows
<1>9. \A t \in Tasks \ DisableAble : Due(t)' /\ ~Reflecting(t)' => Due(t) /\ ~Reflecting(t)
  <2> SUFFICES ASSUME NEW t \in Tasks \ DisableAble, Due(t)', ~Reflecting(t)'
               PROVE  Due(t) /\ ~Reflecting(t)
    OBVIOUS
  <2>1. ~Reflecting(t)
    BY <1>1, <1>2, MovesOn DEF IInv
  <2>2. CASE t # k.task
    BY <1>3, <1>4, <2>1, <2>2 DEF Due, IInv, TypeOK
  <2>3. CASE t = k.task
    <3>1. k.row.enabled = k.enabled
      BY <1>1, <2>3 DEF ClientKnows
    <3>2. client[c]' = [k EXCEPT !.pc = "reflect"]
      BY <1>2, <3>1 DEF IInv, TypeOK
    <3>3. client[c]'.pc = "reflect" /\ client[c]'.task = t /\ client[c]'.when = k.when
      BY <1>1, <2>3, <3>2 DEF Coroutine
    <3>4. k.when = Manual
      BY <3>3 DEF Reflecting
    <3>5. schedule[t]' = n
      BY <1>3, <2>3 DEF IInv, TypeOK
    <3>6. n.when # Manual
      BY <3>5 DEF Due
    <3>7. n.when = schedule[t].when
      BY <2>3, <3>4, <3>6 DEF Written
    <3> QED
      BY <1>4, <1>6, <2>1, <3>5, <3>6, <3>7 DEF Due
  <2> QED
    BY <2>2, <2>3
<1>10. Scheduled' /\ ActScheduled'
  BY <1>4, <1>9 DEF IInv, Scheduled, ActScheduled, Settled
<1> QED
  BY <1>5, <1>7, <1>8, <1>10 DEF IInv, Knows

\* The trigger is set, or left alone when the edit made the task manual.
LEMMA ReflectKeeps ==
    ASSUME IInv, NEW c \in Clients, Reflect(c)
    PROVE  IInv'
<1> DEFINE k == client[c]
<1>1. k \in Coroutine /\ k.pc = "reflect" /\ k.task \in Tasks /\ ClientKnows(c)
  BY DEF IInv, TypeOK, Reflect, Knows, ClientsKnow, ClientKnows
<1>2. client' = [client EXCEPT ![c] = Idle] /\ Idle \in Coroutine /\ ClientKnows(c)'
  BY IdleKnows DEF Reflect, Returns, IInv, TypeOK
<1>3. UNCHANGED <<schedule, optIn, runs, phase, main, toggle, worker, used>>
  BY DEF Reflect, tables
<1>4. trigger' = [trigger EXCEPT ![k.task] = Reflected(k, trigger[k.task])]
  BY <1>1 DEF Reflect, IInv, TypeOK
<1>5. TypeOK'
  BY <1>1, <1>2, <1>3, <1>4 DEF IInv, TypeOK, Reflected, Coroutine
<1>6. ClientsKnow'
  BY <1>2, <1>3 DEF IInv, TypeOK, Knows, ClientsKnow, ClientKnows
<1>7. ToggleKnows' /\ WorkerKnows'
  BY <1>3 DEF IInv, Knows, ToggleKnows, WorkerKnows
<1>8. \A t \in Tasks \ DisableAble :
          Due(t)' /\ ~Reflecting(t)' =>
              Due(t) /\ (trigger'[t] = Manual => ~Reflecting(t) /\ trigger[t] = Manual)
  <2> SUFFICES ASSUME NEW t \in Tasks \ DisableAble, Due(t)', ~Reflecting(t)'
               PROVE  Due(t) /\ (trigger'[t] = Manual => ~Reflecting(t) /\ trigger[t] = Manual)
    OBVIOUS
  <2>1. Due(t)
    BY <1>3 DEF Due
  <2>2. \A d \in Clients \ {c} : client[d]' = client[d]
    BY <1>2 DEF IInv, TypeOK
  <2>3. CASE t # k.task
    BY <1>4, <2>1, <2>2, <2>3 DEF Reflecting, IInv, TypeOK
  <2>4. CASE t = k.task
    <3>1. k.enabled
      BY <1>1, <2>1, <2>4 DEF ClientKnows, Due
    <3>2. trigger'[t] = IF k.when = Manual THEN trigger[t] ELSE k.when
      BY <1>4, <2>4, <3>1 DEF Reflected, IInv, TypeOK
    <3> QED
      BY <2>1, <2>2, <3>2 DEF Reflecting
  <2> QED
    BY <2>3, <2>4
<1>9. Scheduled' /\ ActScheduled'
  BY <1>3, <1>8 DEF IInv, Scheduled, ActScheduled, Settled
<1> QED
  BY <1>5, <1>6, <1>7, <1>9 DEF IInv, Knows
\* Edits, from the request on.
LEMMA EditKeeps ==
    ASSUME IInv, NEW c \in Clients,
           \/ \E t \in Tasks, w \in Timings \cup {Manual}, e \in BOOLEAN : EditSchedule(c, t, w, e)
           \/ CheckOptIn(c)
           \/ CancelRuns(c)
    PROVE  IInv'
<1> USE DEF Labels
<1>1. TypeOK /\ ClientKnows(c)
  BY DEF IInv, Knows, ClientsKnow
<1>2. ASSUME NEW t \in Tasks, NEW w \in Timings \cup {Manual}, NEW e \in BOOLEAN,
             EditSchedule(c, t, w, e)
      PROVE  IInv'
  <2>1. used' \in [Bounds -> Nat]
    BY <1>1, <1>2, SpendType DEF EditSchedule, Bounds
  <2> QED
    BY <1>2, <2>1, ReadRowStep DEF EditSchedule, Idle
<1>3. CASE CheckOptIn(c)
  <2>1. /\ client[c].pc = "opt-in" /\ client[c].task \in DisableAble
        /\ UNCHANGED <<schedule, runtime, toggle, worker>>
        /\ optIn' \in BOOLEAN /\ runs' \in [Tasks -> Nat] /\ used' \in [Bounds -> Nat]
    BY <1>1, <1>3 DEF CheckOptIn, ClientKnows, TypeOK, tables
  <2>2. CASE Goes(c, "commit")
    BY <2>1, <2>2, GoesStep
  <2>3. CASE Returns(c)
    BY <2>1, <2>3, ReturnsStep
  <2> QED
    BY <1>3, <2>2, <2>3 DEF CheckOptIn
<1>4. CASE CancelRuns(c)
  <2>1. /\ client[c].pc = "cancel" /\ client[c].task \in Tasks /\ Goes(c, "reflect")
        /\ UNCHANGED <<schedule, runtime, toggle, worker>>
        /\ optIn' \in BOOLEAN /\ runs' \in [Tasks -> Nat] /\ used' \in [Bounds -> Nat]
    BY <1>1, <1>4 DEF CancelRuns, ClientKnows, TypeOK
  <2> QED
    BY <2>1, GoesStep
<1> QED
  BY <1>2, <1>3, <1>4

-----------------------------------------------------------------------------
(* General settings and requests                                           *)

\* Saving the general settings, and the edit that opting out leads to.
LEMMA SettingsKeep ==
    ASSUME IInv, NEW c \in Clients,
           \/ \E v \in BOOLEAN : SaveSettings(c, v)
           \/ LookUpSchedule(c)
           \/ CommitSettings(c)
           \/ DisableAutoDelete(c)
    PROVE  IInv'
<1> USE DEF Labels
<1>1. TypeOK /\ client[c] \in Coroutine /\ AutoDelete \in Tasks
  BY DEF IInv, TypeOK
<1>2. ASSUME NEW v \in BOOLEAN, SaveSettings(c, v)
      PROVE  IInv'
  <2> DEFINE k == [Idle EXCEPT !.pc = IF optIn /\ ~v THEN "schedule" ELSE "save",
                               !.enabled = v, !.row.enabled = optIn]
  <2>1. used' \in [Bounds -> Nat] /\ optIn' \in BOOLEAN /\ runs' \in [Tasks -> Nat]
    BY <1>1, <1>2, SpendType DEF SaveSettings, Bounds, tables, TypeOK
  <2>2. client' = [client EXCEPT ![c] = k] /\ k \in Coroutine
    BY <1>1, <1>2 DEF SaveSettings, TypeOK, Idle, NoRow, Coroutine, Schedule
  <2>3. client[c]'.pc \in {"schedule", "save"}
    BY <1>1, <2>2 DEF TypeOK, Idle, NoRow
  <2>4. ClientKnows(c)'
    BY <2>3 DEF ClientKnows
  <2> HIDE DEF k
  <2>5. client[c] = Idle
    BY <1>2 DEF SaveSettings
  <2>6. client[c].pc # "reflect"
    BY <2>5 DEF Idle
  <2>7. UNCHANGED <<tables, runtime, toggle, worker>>
    BY <1>2 DEF SaveSettings
  <2> QED
    BY <2>1, <2>2, <2>4, <2>6, <2>7, ClientStep DEF tables
<1>3. CASE LookUpSchedule(c)
  <2> DEFINE k == [client[c] EXCEPT !.pc = "save", !.when = schedule[AutoDelete].when,
                      !.task = IF schedule[AutoDelete].enabled THEN AutoDelete ELSE NoTask]
  <2>1. client' = [client EXCEPT ![c] = k] /\ k \in Coroutine
    BY <1>1, <1>3 DEF LookUpSchedule, TypeOK, Coroutine, Schedule
  <2>2. client[c]'.pc = "save"
    BY <1>1, <2>1 DEF TypeOK, Coroutine
  <2>3. ClientKnows(c)'
    BY <2>2 DEF ClientKnows
  <2>4. /\ client[c].pc # "reflect" /\ UNCHANGED <<schedule, runtime, toggle, worker>>
        /\ optIn' \in BOOLEAN /\ runs' \in [Tasks -> Nat] /\ used' \in [Bounds -> Nat]
    BY <1>1, <1>3 DEF LookUpSchedule, tables, TypeOK
  <2> HIDE DEF k
  <2> QED
    BY <2>1, <2>3, <2>4, ClientStep
<1>4. CASE CommitSettings(c)
  <2>1. /\ client[c].pc = "save" /\ UNCHANGED <<schedule, runtime, toggle, worker>>
        /\ optIn' \in BOOLEAN /\ runs' \in [Tasks -> Nat] /\ used' \in [Bounds -> Nat]
    BY <1>1, <1>4 DEF CommitSettings, TypeOK, Coroutine
  <2>2. CASE Goes(c, "disable")
    BY <2>1, <2>2, GoesStep
  <2>3. CASE Returns(c)
    BY <2>1, <2>3, ReturnsStep
  <2> QED
    BY <1>4, <2>2, <2>3 DEF CommitSettings
<1>5. CASE DisableAutoDelete(c)
  <2>1. ReadRow(c, AutoDelete, client[c].when, FALSE) /\ client[c].pc # "reflect"
    BY <1>5 DEF DisableAutoDelete
  <2>2. UNCHANGED <<tables, runtime, toggle, worker>> /\ used' \in [Bounds -> Nat]
    BY <1>1, <1>5 DEF DisableAutoDelete, TypeOK
  <2>3. client[c].when \in Timings \cup {Manual}
    BY <1>1 DEF Coroutine
  <2> QED
    BY <1>1, <2>1, <2>2, <2>3, ReadRowStep
<1> QED
  BY <1>2, <1>3, <1>4, <1>5

\* Requests of runs change no schedule.
LEMMA RequestsKeep ==
    ASSUME IInv, NEW c \in Clients,
           \/ \E t \in Tasks : RunTaskNow(c, t)
           \/ \E t \in Tasks : TriggerFires(c, t)
           \/ CheckEnabled(c)
           \/ SelectActive(c)
           \/ InsertRun(c)
    PROVE  IInv'
<1> USE DEF Labels
<1>1. TypeOK /\ ClientKnows(c)
  BY DEF IInv, Knows, ClientsKnow
<1>2. ASSUME NEW t \in Tasks, Requests(c, t)
      PROVE  IInv'
  <2> DEFINE k == [Idle EXCEPT !.pc = "request", !.task = t]
  <2>1. used' \in [Bounds -> Nat] /\ optIn' \in BOOLEAN /\ runs' \in [Tasks -> Nat]
    BY <1>1, <1>2, SpendType DEF Requests, Bounds, tables, TypeOK
  <2>2. client' = [client EXCEPT ![c] = k] /\ k \in Coroutine
    BY <1>2 DEF Requests, Idle, NoRow, Coroutine, Schedule
  <2>3. client[c]'.pc = "request" /\ client[c]'.task = t
    BY <1>1, <2>2 DEF TypeOK, Idle
  <2>4. ClientKnows(c)'
    BY <2>3 DEF ClientKnows
  <2>5. client[c].pc # "reflect" /\ UNCHANGED <<schedule, runtime, toggle, worker>>
    BY <1>2 DEF Requests, Idle, tables
  <2> HIDE DEF k
  <2> QED
    BY <2>1, <2>2, <2>4, <2>5, ClientStep
<1>3. ASSUME NEW from \in {"request", "select", "insert"}, NEW to \in {"select", "insert"},
             client[c].pc = from, Goes(c, to) \/ Returns(c),
             UNCHANGED <<schedule, runtime, toggle, worker>>,
             optIn' \in BOOLEAN, runs' \in [Tasks -> Nat], used' \in [Bounds -> Nat]
      PROVE  IInv'
  <2>1. client[c].task \in Tasks /\ client[c].pc # "reflect"
    BY <1>1, <1>3 DEF ClientKnows
  <2>2. CASE Goes(c, to)
    BY <1>3, <2>1, <2>2, GoesStep
  <2>3. CASE Returns(c)
    BY <1>3, <2>1, <2>3, ReturnsStep
  <2> QED
    BY <1>3, <2>2, <2>3
<1>4. CASE CheckEnabled(c)
  BY <1>1, <1>3, <1>4 DEF CheckEnabled, tables, TypeOK
<1>5. CASE SelectActive(c)
  BY <1>1, <1>3, <1>5 DEF SelectActive, tables, TypeOK
<1>6. CASE InsertRun(c)
  <2>1. client[c].task \in Tasks
    BY <1>1, <1>6 DEF InsertRun, ClientKnows
  <2> QED
    BY <1>1, <1>3, <1>6, <2>1 DEF InsertRun, TypeOK
<1> QED
  BY <1>2, <1>4, <1>5, <1>6 DEF RunTaskNow, TriggerFires

\* Every step of a coroutine keeps the invariant.
LEMMA ClientKeeps ==
    ASSUME IInv, NEW c \in Clients, ClientNext(c)
    PROVE  IInv'
  BY EditKeeps, CommitScheduleKeeps, ReflectKeeps, SettingsKeep, RequestsKeep DEF ClientNext
-----------------------------------------------------------------------------
(* The worker, toggles, starts and stops                                   *)

\* The worker changes no schedule and no trigger, and knows its task.
LEMMA WorkerKeeps ==
    ASSUME IInv, WorkerNext
    PROVE  IInv'
<1>1. TypeOK /\ WorkerKnows /\ AutoDelete \in Tasks
  BY DEF IInv, Knows
<1>2. UNCHANGED <<schedule, optIn, phase, main, trigger, client, toggle, used>>
  BY DEF WorkerNext, Claim, ExecuteTask, LockDeletion, RunEnds, tables, runtime
<1>3. runs' \in [Tasks -> Nat] /\ worker' \in Run /\ WorkerKnows'
  <2>1. ASSUME NEW t \in Tasks, Claim(t)
        PROVE  runs' \in [Tasks -> Nat] /\ worker' \in Run /\ WorkerKnows'
    BY <1>1, <2>1 DEF Claim, TypeOK, Run, WorkerKnows
  <2>2. CASE ExecuteTask
    BY <1>1, <2>2 DEF ExecuteTask, TypeOK, Run, WorkerKnows, NoRun, tables
  <2>3. CASE LockDeletion
    BY <1>1, <2>3 DEF LockDeletion, TypeOK, Run, WorkerKnows, NoRun, tables
  <2>4. CASE RunEnds
    BY <1>1, <2>4 DEF RunEnds, TypeOK, Run, WorkerKnows, NoRun, tables
  <2> QED
    BY <2>1, <2>2, <2>3, <2>4 DEF WorkerNext
<1>4. TypeOK'
  BY <1>1, <1>2, <1>3 DEF TypeOK
<1>5. ClientsKnow' /\ ToggleKnows' /\ Scheduled' /\ ActScheduled'
  BY <1>2 DEF IInv, Knows, ClientsKnow, ClientKnows, ToggleKnows, Scheduled, ActScheduled,
              Settled, Due, Reflecting
<1> QED
  BY <1>3, <1>4, <1>5 DEF IInv, Knows

\* A toggle starts or goes on: tasks of the main server are not settled.
LEMMA ToggleStarts ==
    ASSUME IInv,
           \/ \E resync \in BOOLEAN : ToggleService(resync)
           \/ DeleteService
           \/ InitializeService
    PROVE  IInv'
<1>1. TypeOK /\ WorkerKnows
  BY DEF IInv, Knows
<1>2. UNCHANGED <<schedule, optIn, runs, phase, trigger, client>>
  BY DEF ToggleService, DeleteService, InitializeService, tables
<1>3. used' \in [Bounds -> Nat]
  BY <1>1, SpendType DEF ToggleService, DeleteService, InitializeService, Bounds, TypeOK
<1>4. worker' \in Run /\ WorkerKnows' /\ main' \in BOOLEAN
  BY <1>1 DEF ToggleService, DeleteService, InitializeService, TypeOK, Run, WorkerKnows, NoRun
<1>5. /\ toggle' \in ServiceToggle
      /\ toggle'.pc = "apply" \/ (toggle'.pc = "refresh" /\ toggle'.todo = MainServerTasks)
  <2>1. NoToggle \in ServiceToggle
    BY DEF NoToggle, ServiceToggle, NoRow, Schedule
  <2>2. ASSUME NEW resync \in BOOLEAN, ToggleService(resync)
        PROVE  toggle' \in ServiceToggle /\ toggle'.pc = "apply"
    BY <2>1, <2>2 DEF ToggleService, ServiceToggle
  <2>3. CASE DeleteService
    BY <2>1, <2>3 DEF DeleteService, ServiceToggle
  <2>4. CASE InitializeService
    BY <1>1, <2>4 DEF InitializeService, TypeOK, ServiceToggle
  <2> QED
    BY <2>2, <2>3, <2>4
<1>6. TypeOK'
  BY <1>1, <1>2, <1>3, <1>4, <1>5 DEF TypeOK
<1>7. ClientsKnow'
  BY <1>2 DEF IInv, Knows, ClientsKnow, ClientKnows
<1>8. ToggleKnows' /\ ActScheduled'
  BY <1>5 DEF ToggleKnows, ActScheduled
<1>9. ASSUME NEW t \in Tasks \ DisableAble, phase' = "up", Due(t)', ~Reflecting(t)', Settled(t)'
      PROVE  trigger'[t] # Manual
  <2>1. t \notin MainServerTasks
    BY <1>5, <1>9 DEF Settled
  <2>2. Due(t) /\ ~Reflecting(t) /\ Settled(t)
    BY <1>2, <1>9, <2>1 DEF Due, Reflecting, Settled
  <2> QED
    BY <1>2, <1>9, <2>2 DEF IInv, Scheduled
<1> QED
  BY <1>4, <1>6, <1>7, <1>8, <1>9 DEF IInv, Knows, Scheduled

\* The row read is the one there is.
LEMMA RefreshReadKeeps ==
    ASSUME IInv, NEW t \in toggle.todo, RefreshRead(t)
    PROVE  IInv'
<1>1. TypeOK /\ toggle \in ServiceToggle /\ t \in MainServerTasks /\ t \in Tasks
  BY DEF IInv, TypeOK, ServiceToggle
<1>2. UNCHANGED <<schedule, optIn, runs, phase, main, trigger, client, worker, used>>
  BY DEF RefreshRead, tables, runtime
<1>3. /\ toggle' \in ServiceToggle /\ toggle'.pc = "act" /\ toggle'.task = t
      /\ toggle'.todo = toggle.todo \ {t} /\ toggle'.row = schedule[t]
  BY <1>1 DEF RefreshRead, ServiceToggle, TypeOK
<1>4. TypeOK' /\ ClientsKnow' /\ ToggleKnows' /\ WorkerKnows'
  BY <1>1, <1>2, <1>3 DEF IInv, TypeOK, Knows, ClientsKnow, ClientKnows, ToggleKnows, WorkerKnows
<1>5. ActScheduled'
  BY <1>2, <1>3 DEF ActScheduled, Due
<1>6. \A u \in Tasks : Settled(u)' => Settled(u)
  BY <1>3 DEF Settled, RefreshRead
<1>7. Scheduled'
  BY <1>2, <1>6 DEF IInv, Scheduled, Due, Reflecting
<1> QED
  BY <1>4, <1>5, <1>7 DEF IInv, Knows

\* The task that was read gets a trigger if it is due and has none.
LEMMA RefreshActKeeps ==
    ASSUME IInv, RefreshAct
    PROVE  IInv'
<1> DEFINE t == toggle.task
<1>1. /\ TypeOK /\ toggle \in ServiceToggle /\ ToggleKnows /\ t \in MainServerTasks /\ t \in Tasks
      /\ toggle.pc = "act" /\ toggle.row \in Schedule
  BY DEF IInv, TypeOK, Knows, ToggleKnows, RefreshAct, ServiceToggle
<1>2. UNCHANGED <<schedule, optIn, runs, phase, main, client, worker, used>>
  BY DEF RefreshAct, tables
<1>3. trigger' = [trigger EXCEPT ![t] = Refreshed(toggle.row, trigger[t])]
  BY <1>1 DEF RefreshAct, TypeOK
<1>4. /\ toggle' \in ServiceToggle /\ toggle'.pc = "refresh" /\ toggle'.todo = toggle.todo
  BY <1>1 DEF RefreshAct, ServiceToggle, NoRow, Schedule
<1>5. trigger' \in [Tasks -> Timings \cup {Manual}]
  BY <1>1, <1>3 DEF Refreshed, TypeOK, Schedule
<1>6. TypeOK' /\ ClientsKnow' /\ ToggleKnows' /\ WorkerKnows' /\ ActScheduled'
  BY <1>1, <1>2, <1>4, <1>5 DEF IInv, TypeOK, Knows, ClientsKnow, ClientKnows, ToggleKnows,
                                WorkerKnows, ActScheduled
<1>7. ASSUME NEW u \in Tasks \ DisableAble, phase' = "up", Due(u)', ~Reflecting(u)', Settled(u)'
      PROVE  trigger'[u] # Manual
  <2>1. Due(u) /\ ~Reflecting(u) /\ phase = "up"
    BY <1>2, <1>7 DEF Due, Reflecting
  <2>2. CASE u # t
    <3>1. Settled(u)
      BY <1>1, <1>4, <1>7, <2>2 DEF Settled
    <3> QED
      BY <1>1, <1>3, <2>1, <2>2, <3>1 DEF IInv, Scheduled, TypeOK
  <2>3. CASE u = t
    <3>1. toggle.row.enabled /\ main
      BY <1>1, <2>1, <2>3 DEF ToggleKnows, Due
    <3>2. CASE toggle.row.when = Manual
      BY <1>1, <1>3, <2>1, <2>3, <3>2 DEF IInv, ActScheduled, Refreshed, TypeOK
    <3>3. CASE toggle.row.when # Manual
      BY <1>1, <1>3, <2>3, <3>1, <3>3 DEF Refreshed, TypeOK
    <3> QED
      BY <3>2, <3>3
  <2> QED
    BY <2>2, <2>3
<1> QED
  BY <1>6, <1>7 DEF IInv, Knows, Scheduled

\* A toggle ends when every task is settled.
LEMMA ToggleEndsKeeps ==
    ASSUME IInv, ToggleEnds
    PROVE  IInv'
<1>1. TypeOK /\ WorkerKnows /\ toggle.pc = "refresh" /\ toggle.todo = {} /\ Resync \in Tasks
  BY DEF IInv, Knows, ToggleEnds
<1>2. UNCHANGED <<schedule, optIn, phase, main, trigger, client, used>> /\ toggle' = NoToggle
  BY DEF ToggleEnds, runtime
<1>3. runs' \in [Tasks -> Nat] /\ worker' \in Run /\ WorkerKnows'
  BY <1>1 DEF ToggleEnds, TypeOK, Run, WorkerKnows, NoRun
<1>4. toggle' \in ServiceToggle /\ toggle'.pc = "none"
  BY <1>2 DEF NoToggle, ServiceToggle, NoRow, Schedule
<1>5. TypeOK' /\ ClientsKnow' /\ ToggleKnows' /\ ActScheduled'
  BY <1>1, <1>2, <1>3, <1>4 DEF IInv, TypeOK, Knows, ClientsKnow, ClientKnows, ToggleKnows,
                                ActScheduled
<1>6. \A t \in Tasks : Settled(t)
  BY <1>1 DEF Settled
<1>7. Scheduled'
  BY <1>2, <1>6 DEF IInv, Scheduled, Due, Reflecting
<1> QED
  BY <1>3, <1>5, <1>7 DEF IInv, Knows

\* The triggers are set up from the schedules.
LEMMA StartKeeps ==
    ASSUME IInv, Start
    PROVE  IInv'
<1>1. TypeOK
  BY DEF IInv
<1>2. UNCHANGED <<schedule, optIn, runs, client, toggle, worker, used>> /\ phase' = "up"
  BY DEF Start, tables
<1>3. PICK m \in BOOLEAN :
          /\ main' = m
          /\ trigger' = [t \in Tasks |-> IF schedule[t].enabled /\ (t \in MainServerTasks => m)
                                         THEN schedule[t].when ELSE Manual]
  BY DEF Start
<1>4. trigger' \in [Tasks -> Timings \cup {Manual}]
  BY <1>1, <1>3 DEF TypeOK, Schedule
<1>5. TypeOK' /\ Knows'
  BY <1>1, <1>2, <1>3, <1>4 DEF IInv, TypeOK, Knows, ClientsKnow, ClientKnows, ToggleKnows,
                                WorkerKnows
<1>6. \A t \in Tasks : Due(t)' => trigger'[t] # Manual
  BY <1>2, <1>3 DEF Due
<1> QED
  BY <1>5, <1>6 DEF IInv, Scheduled, ActScheduled

\* A stop leaves nothing in memory.
LEMMA StopKeeps ==
    ASSUME IInv, Stop
    PROVE  IInv'
<1>1. used' \in [Bounds -> Nat]
  BY SpendType DEF IInv, Stop, Bounds
<1>2. UNCHANGED <<schedule, optIn, runs>> /\ toggle' = NoToggle /\ worker' = NoRun
      /\ phase' = "down" /\ main' = FALSE
      /\ client' = [c \in Clients |-> Idle] /\ trigger' = [t \in Tasks |-> Manual]
  BY DEF Stop, tables
<1>3. NoToggle \in ServiceToggle /\ NoRun \in Run /\ Idle \in Coroutine
  BY IdleKnows DEF NoToggle, NoRun, ServiceToggle, Run, NoRow, Schedule
<1>4. TypeOK'
  BY <1>1, <1>2, <1>3 DEF IInv, TypeOK
<1>5. Knows'
  BY <1>2 DEF Knows, ClientsKnow, ClientKnows, ToggleKnows, WorkerKnows, Idle, NoToggle, NoRun
<1> QED
  BY <1>2, <1>4, <1>5 DEF IInv, Scheduled, ActScheduled

-----------------------------------------------------------------------------

\* The invariant holds in every reachable state.
THEOREM Invariance == Spec => []IInv
<1>1. IInv /\ [Next]_vars => IInv'
  <2> SUFFICES ASSUME IInv, [Next]_vars
               PROVE  IInv'
    OBVIOUS
  <2>1. CASE UNCHANGED vars
    BY <2>1, QuietIInv DEF vars, IInv, TypeOK
  <2>2. CASE ToggleNext
    BY <2>2, ToggleStarts, RefreshReadKeeps, RefreshActKeeps, ToggleEndsKeeps DEF ToggleNext
  <2> QED
    BY <2>1, <2>2, ClientKeeps, WorkerKeeps, StartKeeps, StopKeeps DEF Next
<1> QED
  BY <1>1, InitIInv, PTL DEF Spec

\* Every variable of the scheduler keeps its type.
THEOREM TypeCorrect == Spec => []TypeOK
<1>1. IInv => TypeOK
  BY DEF IInv
<1> QED
  BY <1>1, Invariance, PTL

\* The tasks users may not disable keep their triggers, whatever edits, toggles and
\* restarts interleave.
THEOREM MandatoryScheduled == Spec => []MandatoryTasksScheduled
<1>1. IInv => MandatoryTasksScheduled
  BY DEF IInv, Scheduled, Settled, MandatoryTasksScheduled
<1> QED
  BY <1>1, Invariance, PTL

\* Only LockDeletion starts an automatic deletion, and it reads the opt-in.
THEOREM DeletionNeedsOptIn == Spec => NoDeletionWithoutOptIn
<1>1. IInv /\ [Next]_vars => [Starts(AutoDelete) => optIn]_vars
  <2> SUFFICES ASSUME IInv, [Next]_vars, Starts(AutoDelete)
               PROVE  optIn
    OBVIOUS
  <2>1. worker' # worker /\ worker'.pc = "running"
    BY DEF Starts
  <2>2. CASE ExecuteTask
    BY <2>1, <2>2 DEF ExecuteTask, Starts, IInv, TypeOK, Run, NoRun
  <2>3. CASE LockDeletion
    BY <2>1, <2>3 DEF LockDeletion, NoRun
  <2>4. CASE \E c \in Clients : ClientNext(c)
    <3>1. worker' = worker
      BY <2>4 DEF ClientNext, EditSchedule, CheckOptIn, CommitSchedule, CancelRuns, Reflect,
                 SaveSettings, LookUpSchedule, CommitSettings, DisableAutoDelete, RunTaskNow,
                 TriggerFires, Requests, CheckEnabled, SelectActive, InsertRun
    <3> QED
      BY <2>1, <3>1
  <2>5. CASE ToggleNext
    <3>1. ASSUME NEW resync \in BOOLEAN, ToggleService(resync)
          PROVE  worker'.pc = "toggle"
      BY <3>1 DEF ToggleService, NoRun
    <3>2. CASE ToggleEnds
      BY <2>1, <3>2 DEF ToggleEnds, NoRun
    <3>3. CASE DeleteService \/ InitializeService \/ RefreshAct
      BY <2>1, <3>3 DEF DeleteService, InitializeService, RefreshAct
    <3>4. CASE \E t \in toggle.todo : RefreshRead(t)
      BY <2>1, <3>4 DEF RefreshRead
    <3> QED
      BY <2>1, <2>5, <3>1, <3>2, <3>3, <3>4 DEF ToggleNext
  <2>6. CASE \E t \in Tasks : Claim(t)
    BY <2>1, <2>6 DEF Claim
  <2>7. CASE RunEnds \/ Start \/ Stop \/ UNCHANGED vars
    BY <2>1, <2>7 DEF RunEnds, Start, Stop, NoRun, vars
  <2> QED
    BY <2>2, <2>3, <2>4, <2>5, <2>6, <2>7 DEF Next, WorkerNext
<1> QED
  BY <1>1, Invariance, PTL DEF Spec, NoDeletionWithoutOptIn

=============================================================================
