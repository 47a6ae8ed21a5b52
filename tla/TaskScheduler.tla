---------------------------- MODULE TaskScheduler ----------------------------
(***************************************************************************)
(* When a task may run: the task_schedules table and the live triggers     *)
(* that mirror it (backend/scheduler.py), the checks before a run is       *)
(* queued and before it starts (backend/core/task_runtime.py,              *)
(* backend/api/routes/tasks.py, backend/tasks/cleanup.py), the opt-in to   *)
(* automatic deletion (backend/api/routes/settings/general.py), and the    *)
(* main media server, which comes and goes with the service settings       *)
(* (backend/core/service_runtime.py).                                      *)
(*                                                                         *)
(* A step is what happens between two awaits.  Runs wait in background_jobs*)
(* (see JobQueue for its protocol) and are taken by the default worker,    *)
(* which also applies service settings; what a run does is left out.       *)
(***************************************************************************)
EXTENDS Naturals

CONSTANTS
    Tasks,
    MainServerTasks,  \* MAIN_SERVER_REQUIRED_TASKS
    DisableAble,      \* DISABLE_ABLE_TASKS
    AutoDelete,       \* delete_cleanup_candidates
    Resync,           \* resync_media
    NoTask,
    Timings,          \* intervals and cron expressions
    Manual,           \* no timing; as a trigger: none
    Defaults,         \* DEFAULT_SCHEDULES
    Clients,          \* coroutines of API handlers and of triggers that fire
    MaxSaves,         \* bound: schedules edited and general settings saved
    MaxRequests,      \* bound: runs asked for
    MaxToggles,       \* bound: media server settings applied
    MaxStops          \* bound: crashes and shutdowns

Schedule == [when : Timings \cup {Manual}, enabled : BOOLEAN]

ASSUME SchedulerAssumption ==
    /\ MainServerTasks \subseteq Tasks
    /\ DisableAble \subseteq Tasks
    /\ AutoDelete \in DisableAble
    /\ Resync \in MainServerTasks \ DisableAble
    /\ NoTask \notin Tasks
    /\ Manual \notin Timings
    /\ Defaults \in [Tasks -> Schedule]
    /\ {MaxSaves, MaxRequests, MaxToggles, MaxStops} \subseteq Nat

Bounds == {"saves", "requests", "toggles", "stops"}

VARIABLES
    schedule,   \* task_schedules rows
    optIn,      \* GeneralSettings.auto_delete_enabled
    runs,       \* runs[t]: pending TASK_RUN jobs of t
    phase,      \* whether the process is up
    main,       \* service_manager.main_media_server is not None
    trigger,    \* trigger[t]: the APScheduler job of t; Manual: none
    client,     \* client[c]: a coroutine and its locals
    toggle,     \* the holder of _service_toggle_lock
    worker,     \* what the default worker runs
    used        \* used[b]: how much of bound b is spent

tables  == <<schedule, optIn, runs>>
runtime == <<phase, main, trigger>>
vars == <<tables, runtime, client, toggle, worker, used>>

NoRow == [when |-> Manual, enabled |-> FALSE]
Idle == [pc |-> "idle", task |-> NoTask, when |-> Manual, enabled |-> FALSE, row |-> NoRow]
NoToggle == [pc |-> "none", by |-> "none", resync |-> FALSE, todo |-> {}, task |-> NoTask,
             row |-> NoRow]
NoRun == [pc |-> "idle", task |-> NoTask]

Spend(b, limit) == used[b] < limit /\ used' = [used EXCEPT ![b] = @ + 1]

\* Client c goes on to pc `to', or returns.
Goes(c, to) == client' = [client EXCEPT ![c].pc = to]
Returns(c)  == client' = [client EXCEPT ![c] = Idle]

-----------------------------------------------------------------------------
(* update_task_schedule                                                    *)

\* The row is read; a task that cannot be disabled keeps its `enabled'.
ReadRow(c, t, w, e) ==
    /\ t \in DisableAble \/ schedule[t].enabled = e
    /\ client' = [client EXCEPT ![c] = [pc |-> IF t = AutoDelete /\ e THEN "opt-in" ELSE "commit",
                                        task |-> t, when |-> w, enabled |-> e,
                                        row |-> schedule[t]]]

EditSchedule(c, t, w, e) ==
    /\ phase = "up" /\ client[c] = Idle
    /\ Spend("saves", MaxSaves)
    /\ ReadRow(c, t, w, e)
    /\ UNCHANGED <<tables, runtime, toggle, worker>>

\* Enabling the automatic deletion needs the opt-in, read on its own.
CheckOptIn(c) ==
    /\ client[c].pc = "opt-in"
    /\ IF optIn THEN Goes(c, "commit") ELSE Returns(c)
    /\ UNCHANGED <<tables, runtime, toggle, worker, used>>

\* The session writes the columns that differ from what it read.
Written(read, k, now) ==
    [when |-> IF k.when # read.when THEN k.when ELSE now.when,
     enabled |-> IF k.enabled # read.enabled THEN k.enabled ELSE now.enabled]

CommitSchedule(c) ==
    LET k == client[c]
    IN  /\ k.pc = "commit"
        /\ Goes(c, IF k.row.enabled /\ ~k.enabled THEN "cancel" ELSE "reflect")
        /\ schedule' = [schedule EXCEPT ![k.task] = Written(k.row, k, @)]
        /\ UNCHANGED <<optIn, runs, runtime, toggle, worker, used>>

\* Pending runs of a task that was disabled are canceled.
CancelRuns(c) ==
    /\ client[c].pc = "cancel"
    /\ Goes(c, "reflect")
    /\ runs' = [runs EXCEPT ![client[c].task] = 0]
    /\ UNCHANGED <<schedule, optIn, runtime, toggle, worker, used>>

\* A task made manual keeps the trigger it had.
Reflected(k, now) == IF ~k.enabled THEN Manual ELSE IF k.when = Manual THEN now ELSE k.when

Reflect(c) ==
    /\ client[c].pc = "reflect"
    /\ Returns(c)
    /\ trigger' = [trigger EXCEPT ![client[c].task] = Reflected(client[c], @)]
    /\ UNCHANGED <<tables, phase, main, toggle, worker, used>>

-----------------------------------------------------------------------------
(* update_general_settings, as far as the opt-in goes                      *)

\* `row.enabled' is the opt-in that was read, `enabled' the new one.
SaveSettings(c, v) ==
    /\ phase = "up" /\ client[c] = Idle
    /\ Spend("saves", MaxSaves)
    /\ client' = [client EXCEPT ![c] = [Idle EXCEPT !.pc = IF optIn /\ ~v THEN "schedule" ELSE "save",
                                                   !.enabled = v, !.row.enabled = optIn]]
    /\ UNCHANGED <<tables, runtime, toggle, worker>>

\* Opting out looks whether the automatic deletion is to be disabled.
LookUpSchedule(c) ==
    /\ client[c].pc = "schedule"
    /\ client' = [client EXCEPT ![c].pc = "save", ![c].when = schedule[AutoDelete].when,
                      ![c].task = IF schedule[AutoDelete].enabled THEN AutoDelete ELSE NoTask]
    /\ UNCHANGED <<tables, runtime, toggle, worker, used>>

CommitSettings(c) ==
    LET k == client[c]
    IN  /\ k.pc = "save"
        /\ IF k.task = AutoDelete THEN Goes(c, "disable") ELSE Returns(c)
        /\ optIn' = IF k.enabled # k.row.enabled THEN k.enabled ELSE optIn
        /\ UNCHANGED <<schedule, runs, runtime, toggle, worker, used>>

\* ... which is an edit of its own, after the settings are saved.
DisableAutoDelete(c) ==
    /\ client[c].pc = "disable"
    /\ ReadRow(c, AutoDelete, client[c].when, FALSE)
    /\ UNCHANGED <<tables, runtime, toggle, worker, used>>

-----------------------------------------------------------------------------
(* request_task_run, for run_task_now and enqueue_scheduled_task           *)

Requests(c, t) ==
    /\ phase = "up" /\ client[c] = Idle
    /\ Spend("requests", MaxRequests)
    /\ client' = [client EXCEPT ![c] = [Idle EXCEPT !.pc = "request", !.task = t]]
    /\ UNCHANGED <<tables, runtime, toggle, worker>>

RunTaskNow(c, t) == (t = AutoDelete => optIn) /\ Requests(c, t)

TriggerFires(c, t) == trigger[t] # Manual /\ Requests(c, t)

CheckEnabled(c) ==
    /\ client[c].pc = "request"
    /\ IF schedule[client[c].task].enabled THEN Goes(c, "select") ELSE Returns(c)
    /\ UNCHANGED <<tables, runtime, toggle, worker, used>>

\* enqueue_background_job with skip_if_active reads first and inserts later.
Active(t) == runs[t] > 0 \/ worker.task = t

SelectActive(c) ==
    /\ client[c].pc = "select"
    /\ IF Active(client[c].task) THEN Returns(c) ELSE Goes(c, "insert")
    /\ UNCHANGED <<tables, runtime, toggle, worker, used>>

InsertRun(c) ==
    /\ client[c].pc = "insert"
    /\ Returns(c)
    /\ runs' = [runs EXCEPT ![client[c].task] = @ + 1]
    /\ UNCHANGED <<schedule, optIn, runtime, toggle, worker, used>>

-----------------------------------------------------------------------------
(* execute_task, on the default worker                                     *)

\* Mutant: the UPDATE of the claim lost its status = PENDING condition.
Claim_Unguarded(t) ==
    /\ phase = "up" /\ worker = NoRun
    /\ runs' = [runs EXCEPT ![t] = @ - 1]
    /\ worker' = [pc |-> "claimed", task |-> t]
    /\ UNCHANGED <<schedule, optIn, runtime, client, toggle, used>>

Claim(t) ==
    /\ phase = "up" /\ worker = NoRun
    /\ runs[t] > 0
    /\ runs' = [runs EXCEPT ![t] = @ - 1]
    /\ worker' = [pc |-> "claimed", task |-> t]
    /\ UNCHANGED <<schedule, optIn, runtime, client, toggle, used>>

\* The automatic deletion then waits for candidate_workflow_lock.
ExecuteTask ==
    /\ worker.pc = "claimed"
    /\ worker' = IF ~schedule[worker.task].enabled THEN NoRun
                 ELSE [worker EXCEPT !.pc = IF worker.task = AutoDelete THEN "waiting" ELSE "running"]
    /\ UNCHANGED <<tables, runtime, client, toggle, used>>

\* Mutant: the opt-in is not read again under the lock.
LockDeletion_Unguarded ==
    /\ worker.pc = "waiting"
    /\ worker' = [worker EXCEPT !.pc = "running"]
    /\ UNCHANGED <<tables, runtime, client, toggle, used>>

\* With the lock, whenever that is, the opt-in is read again.
LockDeletion ==
    /\ worker.pc = "waiting"
    /\ worker' = IF optIn THEN [worker EXCEPT !.pc = "running"] ELSE NoRun
    /\ UNCHANGED <<tables, runtime, client, toggle, used>>

RunEnds ==
    /\ worker.pc = "running"
    /\ worker' = NoRun
    /\ UNCHANGED <<tables, runtime, client, toggle, used>>

-----------------------------------------------------------------------------
(* handle_service_toggle and clear_deleted_service_runtime, for media      *)
(* servers: both hold _service_toggle_lock                                 *)

\* A saved configuration is applied: its client is closed.
ToggleService(resync) ==
    /\ phase = "up" /\ worker = NoRun /\ toggle = NoToggle
    /\ Spend("toggles", MaxToggles)
    /\ worker' = [NoRun EXCEPT !.pc = "toggle"]
    /\ \E m \in {main, FALSE} : main' = m
    /\ toggle' = [NoToggle EXCEPT !.pc = "apply", !.by = "worker", !.resync = resync]
    /\ UNCHANGED <<tables, phase, trigger, client>>

\* A configuration is deleted.
DeleteService ==
    /\ phase = "up" /\ toggle = NoToggle
    /\ Spend("toggles", MaxToggles)
    /\ \E m \in {main, FALSE} : main' = m
    /\ toggle' = [NoToggle EXCEPT !.pc = "refresh", !.by = "api", !.todo = MainServerTasks]
    /\ UNCHANGED <<tables, phase, trigger, client, worker>>

\* The service is disabled, not the main one, healthy or not.
InitializeService ==
    /\ toggle.pc = "apply"
    /\ \E m \in {main, TRUE} : main' = m
    /\ toggle' = [toggle EXCEPT !.pc = "refresh", !.todo = MainServerTasks]
    /\ UNCHANGED <<tables, phase, trigger, client, worker, used>>

\* refresh_main_server_tasks reads a row ...
RefreshRead(t) ==
    /\ toggle.pc = "refresh" /\ t \in toggle.todo
    /\ toggle' = [toggle EXCEPT !.pc = "act", !.todo = @ \ {t}, !.task = t, !.row = schedule[t]]
    /\ UNCHANGED <<tables, runtime, client, worker, used>>

\* Mutant: only the loss of the main server is acted on.
Refreshed_RemovesOnly(row, now) ==
    IF row.enabled /\ row.when # Manual /\ ~main THEN Manual ELSE now

\* ... and adds a trigger that is missing, or removes one that lacks its server.
Refreshed(row, now) ==
    IF ~row.enabled \/ row.when = Manual THEN now
    ELSE IF ~main THEN Manual
    ELSE IF now = Manual THEN row.when ELSE now

RefreshAct ==
    /\ toggle.pc = "act"
    /\ trigger' = [trigger EXCEPT ![toggle.task] = Refreshed(toggle.row, @)]
    /\ toggle' = [toggle EXCEPT !.pc = "refresh", !.task = NoTask, !.row = NoRow]
    /\ UNCHANGED <<tables, phase, main, client, worker, used>>

\* The resync is requested unless it is disabled, which fails the job.
ToggleEnds ==
    /\ toggle.pc = "refresh" /\ toggle.todo = {}
    /\ runs' = IF toggle.resync /\ schedule[Resync].enabled /\ ~Active(Resync)
               THEN [runs EXCEPT ![Resync] = 1] ELSE runs
    /\ toggle' = NoToggle
    /\ worker' = IF toggle.by = "worker" THEN NoRun ELSE worker
    /\ UNCHANGED <<schedule, optIn, runtime, client, used>>

-----------------------------------------------------------------------------

\* setup_scheduler, with the main server that load_enabled_services has found.
Start ==
    /\ phase = "down"
    /\ phase' = "up"
    /\ \E m \in BOOLEAN :
          /\ main' = m
          /\ trigger' = [t \in Tasks |-> IF schedule[t].enabled /\ (t \in MainServerTasks => m)
                                         THEN schedule[t].when ELSE Manual]
    /\ UNCHANGED <<tables, client, toggle, worker, used>>

Stop ==
    /\ phase = "up"
    /\ Spend("stops", MaxStops)
    /\ phase' = "down"
    /\ main' = FALSE
    /\ trigger' = [t \in Tasks |-> Manual]
    /\ client' = [c \in Clients |-> Idle]
    /\ toggle' = NoToggle
    /\ worker' = NoRun
    /\ UNCHANGED tables

Init ==
    /\ schedule = Defaults
    /\ optIn = FALSE
    /\ runs = [t \in Tasks |-> 0]
    /\ phase = "down"
    /\ main = FALSE
    /\ trigger = [t \in Tasks |-> Manual]
    /\ client = [c \in Clients |-> Idle]
    /\ toggle = NoToggle
    /\ worker = NoRun
    /\ used = [b \in Bounds |-> 0]

ClientNext(c) ==
    \/ \E t \in Tasks, w \in Timings \cup {Manual}, e \in BOOLEAN : EditSchedule(c, t, w, e)
    \/ CheckOptIn(c)
    \/ CommitSchedule(c)
    \/ CancelRuns(c)
    \/ Reflect(c)
    \/ \E v \in BOOLEAN : SaveSettings(c, v)
    \/ LookUpSchedule(c)
    \/ CommitSettings(c)
    \/ DisableAutoDelete(c)
    \/ \E t \in Tasks : RunTaskNow(c, t)
    \/ \E t \in Tasks : TriggerFires(c, t)
    \/ CheckEnabled(c)
    \/ SelectActive(c)
    \/ InsertRun(c)

WorkerNext ==
    \/ \E t \in Tasks : Claim(t)
    \/ ExecuteTask
    \/ LockDeletion
    \/ RunEnds

ToggleNext ==
    \/ \E resync \in BOOLEAN : ToggleService(resync)
    \/ DeleteService
    \/ InitializeService
    \/ \E t \in toggle.todo : RefreshRead(t)
    \/ RefreshAct
    \/ ToggleEnds

Next == (\E c \in Clients : ClientNext(c)) \/ WorkerNext \/ ToggleNext \/ Start \/ Stop

Spec == Init /\ [][Next]_vars

-----------------------------------------------------------------------------
(* Properties                                                              *)

Coroutine ==
    [pc : {"idle", "opt-in", "commit", "cancel", "reflect", "schedule", "save", "disable",
           "request", "select", "insert"},
     task : Tasks \cup {NoTask}, when : Timings \cup {Manual}, enabled : BOOLEAN, row : Schedule]

ServiceToggle ==
    [pc : {"none", "apply", "refresh", "act"}, by : {"none", "worker", "api"}, resync : BOOLEAN,
     todo : SUBSET MainServerTasks, task : MainServerTasks \cup {NoTask}, row : Schedule]

Run == [pc : {"idle", "claimed", "waiting", "running", "toggle"}, task : Tasks \cup {NoTask}]

\* Every variable has its type.
TypeOK ==
    /\ schedule \in [Tasks -> Schedule]
    /\ optIn \in BOOLEAN
    /\ runs \in [Tasks -> Nat]
    /\ phase \in {"down", "up"}
    /\ main \in BOOLEAN
    /\ trigger \in [Tasks -> Timings \cup {Manual}]
    /\ client \in [Clients -> Coroutine]
    /\ toggle \in ServiceToggle
    /\ worker \in Run
    /\ used \in [Bounds -> Nat]

\* An edit of t has been committed, and its trigger has yet to be set.
Reflecting(t) ==
    \E c \in Clients : client[c].pc = "reflect" /\ client[c].task = t /\ client[c].when # Manual

\* t has a timing, and the main server it may need.
Due(t) ==
    /\ schedule[t].enabled /\ schedule[t].when # Manual
    /\ t \in MainServerTasks => main

\* The tasks users may not disable (the sync and the scan among them) keep their
\* trigger: no interleaving of edits, toggles of media servers and restarts leaves
\* one unscheduled while it has a timing and its server.
MandatoryTasksScheduled ==
    phase = "up" /\ toggle.pc = "none" =>
        \A t \in Tasks \ DisableAble : Due(t) /\ ~Reflecting(t) => trigger[t] # Manual

Starts(t) == worker.pc # "running" /\ worker'.pc = "running" /\ worker'.task = t

\* "Automatic deletion is off by default and requires an explicit opt-in": it never
\* starts without one, whatever was queued, claimed or waiting when it was withdrawn.
NoDeletionWithoutOptIn == [][Starts(AutoDelete) => optIn]_vars

\* What the dialog that disables a task says: "Disable to stop scheduled and manual
\* runs."
DisabledTasksDoNotStart == [][\A t \in Tasks : Starts(t) => schedule[t].enabled]_vars

\* What the settings page says of another main server: it "will trigger a full media
\* resync".
SwitchQueuesResync ==
    [][(toggle.resync /\ toggle' = NoToggle /\ phase' = "up") => Active(Resync)']_vars

=============================================================================
