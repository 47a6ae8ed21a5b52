--------------------------- MODULE ServiceSettings --------------------------
(***************************************************************************)
(* The settings of the media servers and of the Radarr and Sonarr          *)
(* instances (backend/api/routes/settings/services.py), and the clients    *)
(* the process keeps for them (backend/core/service_runtime.py,            *)
(* service_manager.py).  A save writes the row and queues a toggle job; a  *)
(* deletion removes the row, cancels the queued toggle and clears the      *)
(* client itself.  A toggle and the clearing hold _service_toggle_lock;    *)
(* the rows are written without it.                                        *)
(*                                                                         *)
(* A media server has one row, found by its type.  A key is part of the    *)
(* URL.  The rows a deletion detaches and the tasks a toggle schedules are *)
(* modelled elsewhere (the catalogue, TaskScheduler).                      *)
(***************************************************************************)
EXTENDS Naturals, FiniteSets

CONSTANTS
    MediaIds,        \* media servers
    ArrIds,          \* Radarr and Sonarr instances
    Urls,            \* addresses
    Nothing,         \* no row, no job, no client, no main server
    MaxServiceSteps, \* bound on saves, deletions and restarts
    MaxServiceSaves  \* bound on saves at work together

ServiceIds == MediaIds \cup ArrIds
Settings == [enabled : BOOLEAN, main : BOOLEAN, url : Urls]
Toggles == [id : ServiceIds, data : Settings, step : {"waiting", "checked", "cleared"}]

ASSUME ServiceAssumption ==
    /\ MediaIds \cap ArrIds = {}
    /\ Nothing \notin ServiceIds \cup Urls \cup Settings \cup Toggles
    /\ MaxServiceSteps \in Nat
    /\ MaxServiceSaves \in Nat

VARIABLES
    svcRows,     \* the saved settings of each service
    svcSaves,    \* saves at work
    svcPending,  \* the queued toggle of each service
    svcToggle,   \* the toggle the worker runs
    svcDeleting, \* deletions that have committed and not yet cleared
    svcClients,  \* the URL each service's client calls
    svcMain,     \* the main media server in memory
    svcBehind,   \* services whose last row has no toggle of its own
    svcSteps     \* saves, deletions and restarts so far

svcStored == <<svcRows, svcSaves, svcPending, svcBehind, svcSteps>>
svcMemory == <<svcClients, svcMain>>
svcVars == <<svcStored, svcToggle, svcDeleting, svcMemory>>

\* Mutant: the main flag is not validated.
SettingsOf_Unchecked(id) == Settings

\* Only a media server can be the main one.
SettingsOf(id) == {d \in Settings : id \in MediaIds \/ ~d.main}

Saves == [id : ServiceIds, data : Settings, edit : BOOLEAN, written : BOOLEAN]

SvcInit ==
    /\ svcRows = [id \in ServiceIds |-> Nothing]
    /\ svcSaves = {}
    /\ svcPending = [id \in ServiceIds |-> Nothing]
    /\ svcToggle = Nothing
    /\ svcDeleting = {}
    /\ svcClients = [id \in ServiceIds |-> Nothing]
    /\ svcMain = Nothing
    /\ svcBehind = {}
    /\ svcSteps = 0

Toggling(id) == svcToggle # Nothing /\ svcToggle.id = id
LockHeld == svcToggle # Nothing /\ svcToggle.step # "waiting"
IsMain(id) == id \in MediaIds /\ svcRows[id] # Nothing /\ svcRows[id].main

-----------------------------------------------------------------------------
(* set_service_settings                                                    *)

\* The main media server cannot be disabled; an enabled service has answered
\* the connection test.
SaveTested ==
    /\ svcSteps < MaxServiceSteps
    /\ Cardinality(svcSaves) < MaxServiceSaves
    /\ \E id \in ServiceIds : \E d \in SettingsOf(id), edit \in BOOLEAN :
          /\ edit => svcRows[id] # Nothing
          /\ ~d.enabled => ~d.main /\ ~IsMain(id)
          /\ svcSaves' = svcSaves \cup {[id |-> id, data |-> d, edit |-> edit, written |-> FALSE]}
    /\ svcSteps' = svcSteps + 1
    /\ UNCHANGED <<svcRows, svcPending, svcBehind, svcToggle, svcDeleting, svcMemory>>

\* A new main server takes the flag from the other media servers first, also
\* when the edited row is gone and the save then fails.
SaveWritten(s) ==
    LET found == s.edit => svcRows[s.id] # Nothing
        demoted == {id \in MediaIds \ {s.id} : s.data.main /\ IsMain(id)}
        outstanding == {id \in demoted : svcPending[id] # Nothing \/ Toggling(id)}
    IN  /\ ~s.written
        /\ svcRows' = [id \in ServiceIds |->
                         IF id = s.id /\ found THEN s.data
                         ELSE IF id \in demoted THEN [svcRows[id] EXCEPT !.main = FALSE]
                         ELSE svcRows[id]]
        /\ svcSaves' = (svcSaves \ {s}) \cup
                         (IF found THEN {[s EXCEPT !.written = TRUE]} ELSE {})
        /\ svcBehind' = svcBehind \cup outstanding \cup (IF found THEN {s.id} ELSE {})
        /\ UNCHANGED <<svcPending, svcSteps, svcToggle, svcDeleting, svcMemory>>

\* The queued toggle of the service is replaced.
SaveQueued(s) ==
    LET replaced == svcPending[s.id] # Nothing /\ svcPending[s.id] = svcRows[s.id]
    IN  /\ s.written
        /\ svcSaves' = svcSaves \ {s}
        /\ svcPending' = [svcPending EXCEPT ![s.id] = s.data]
        /\ svcBehind' = IF svcRows[s.id] = s.data THEN svcBehind \ {s.id}
                        ELSE IF replaced THEN svcBehind \cup {s.id} ELSE svcBehind
        /\ UNCHANGED <<svcRows, svcSteps, svcToggle, svcDeleting, svcMemory>>

\* The job cannot be queued: the row stays as it was written.
SaveUnqueued(s) ==
    /\ s.written
    /\ svcSaves' = svcSaves \ {s}
    /\ UNCHANGED <<svcRows, svcPending, svcBehind, svcSteps, svcToggle, svcDeleting, svcMemory>>

-----------------------------------------------------------------------------
(* handle_service_toggle, run by the default worker                        *)

ToggleClaimed(id) ==
    /\ svcToggle = Nothing
    /\ svcPending[id] # Nothing
    /\ svcToggle' = [id |-> id, data |-> svcPending[id], step |-> "waiting"]
    /\ svcPending' = [svcPending EXCEPT ![id] = Nothing]
    /\ UNCHANGED <<svcRows, svcSaves, svcBehind, svcSteps, svcDeleting, svcMemory>>

\* Mutant: a job runs whatever the row says now.
JobStale_Never(t) == FALSE

\* A job whose settings are not the saved ones is skipped.
JobStale(t) == svcRows[t.id] # t.data

ToggleChecked ==
    /\ svcToggle # Nothing /\ svcToggle.step = "waiting"
    /\ svcToggle' = IF JobStale(svcToggle) THEN Nothing
                    ELSE [svcToggle EXCEPT !.step = "checked"]
    /\ UNCHANGED <<svcStored, svcDeleting, svcMemory>>

\* Mutant: the client that was the main server stays it.
WithoutMain_Kept(id) == svcMain

\* A cleared client is no longer the main server.
WithoutMain(id) == IF svcMain = id THEN Nothing ELSE svcMain

ToggleCleared ==
    /\ svcToggle # Nothing /\ svcToggle.step = "checked"
    /\ svcClients' = [svcClients EXCEPT ![svcToggle.id] = Nothing]
    /\ svcMain' = WithoutMain(svcToggle.id)
    /\ svcToggle' = IF svcToggle.data.enabled THEN [svcToggle EXCEPT !.step = "cleared"]
                    ELSE Nothing
    /\ UNCHANGED <<svcStored, svcDeleting>>

\* A media client is kept when its health check fails, an Arr client is not.
Started(id, url, healthy) == IF healthy \/ id \in MediaIds THEN url ELSE Nothing

ToggleStarted(healthy) ==
    LET id == svcToggle.id IN
    /\ svcToggle # Nothing /\ svcToggle.step = "cleared"
    /\ svcClients' = [svcClients EXCEPT ![id] = Started(id, svcToggle.data.url, healthy)]
    /\ svcMain' = IF healthy /\ svcToggle.data.main THEN id ELSE svcMain
    /\ svcToggle' = Nothing
    /\ UNCHANGED <<svcStored, svcDeleting>>

-----------------------------------------------------------------------------
(* delete_service_settings, load_enabled_services                          *)

DeleteWritten(id) ==
    /\ svcSteps < MaxServiceSteps
    /\ svcRows[id] # Nothing /\ ~IsMain(id)
    /\ svcRows' = [svcRows EXCEPT ![id] = Nothing]
    /\ svcPending' = [svcPending EXCEPT ![id] = Nothing]
    /\ svcBehind' = svcBehind \ {id}
    /\ svcDeleting' = svcDeleting \cup {id}
    /\ svcSteps' = svcSteps + 1
    /\ UNCHANGED <<svcSaves, svcToggle, svcMemory>>

DeleteCleared(id) ==
    /\ id \in svcDeleting
    /\ ~LockHeld
    /\ svcClients' = [svcClients EXCEPT ![id] = Nothing]
    /\ svcMain' = WithoutMain(id)
    /\ svcDeleting' = svcDeleting \ {id}
    /\ UNCHANGED <<svcStored, svcToggle>>

\* A toggle that was running is failed at the start, what is queued stays.
Restarted ==
    /\ svcSteps < MaxServiceSteps
    /\ \E healthy \in SUBSET ServiceIds :
          LET up == {id \in ServiceIds : svcRows[id] # Nothing /\ svcRows[id].enabled} IN
          /\ svcClients' = [id \in ServiceIds |->
                IF id \in up THEN Started(id, svcRows[id].url, id \in healthy) ELSE Nothing]
          /\ svcMain' = IF \E id \in up \cap healthy : IsMain(id)
                        THEN CHOOSE id \in up \cap healthy : IsMain(id) ELSE Nothing
    /\ svcSaves' = {}
    /\ svcToggle' = Nothing
    /\ svcDeleting' = {}
    /\ svcBehind' = {}
    /\ svcSteps' = svcSteps + 1
    /\ UNCHANGED <<svcRows, svcPending>>

SvcNext ==
    \/ SaveTested
    \/ \E s \in svcSaves : SaveWritten(s)
    \/ \E s \in svcSaves : SaveQueued(s)
    \/ \E s \in svcSaves : SaveUnqueued(s)
    \/ \E id \in ServiceIds : ToggleClaimed(id)
    \/ ToggleChecked
    \/ ToggleCleared
    \/ \E healthy \in BOOLEAN : ToggleStarted(healthy)
    \/ \E id \in ServiceIds : DeleteWritten(id)
    \/ \E id \in ServiceIds : DeleteCleared(id)
    \/ Restarted

SvcSpec == SvcInit /\ [][SvcNext]_svcVars

-----------------------------------------------------------------------------
\* Every variable keeps its type.
SvcTypeOK ==
    /\ svcRows \in [ServiceIds -> Settings \cup {Nothing}]
    /\ svcSaves \subseteq Saves
    /\ svcPending \in [ServiceIds -> Settings \cup {Nothing}]
    /\ svcToggle \in Toggles \cup {Nothing}
    /\ svcDeleting \subseteq ServiceIds
    /\ svcClients \in [ServiceIds -> Urls \cup {Nothing}]
    /\ svcMain \in MediaIds \cup {Nothing}
    /\ svcBehind \subseteq ServiceIds
    /\ svcSteps \in 0..MaxServiceSteps

Quiet(id) ==
    /\ svcPending[id] = Nothing /\ ~Toggling(id)
    /\ id \notin svcDeleting \cup svcBehind

\* When nothing is left to do for a service and its last row got a toggle, a
\* row that is gone or disabled has no client, and another has a client only
\* for the address it names: neither a toggle that waited behind a later save
\* or a deletion nor a restart brings an old client back
\* (handle_service_toggle, delete_service_settings).
ClientsFollowSettings ==
    \A id \in ServiceIds : Quiet(id) =>
        IF svcRows[id] = Nothing \/ ~svcRows[id].enabled THEN svcClients[id] = Nothing
        ELSE svcClients[id] \in {svcRows[id].url, Nothing}

\* The main media server the tasks use is never a client that was cleared
\* (clear_plex, clear_jellyfin, clear_emby).
MainHasClient == svcMain # Nothing => svcClients[svcMain] # Nothing
=============================================================================
