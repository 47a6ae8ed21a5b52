---------------------------- MODULE SeerrSnapshot ---------------------------
(***************************************************************************)
(* The snapshot of the requests in Seerr (backend/services/seerr_cache.py) *)
(* that cleanup scans and rule previews evaluate rules with.  A scan asks  *)
(* for fresh data; a preview takes what there is and has an expired        *)
(* snapshot refreshed in the background.  A refresh holds _request_lock    *)
(* while it reads Seerr.                                                   *)
(*                                                                         *)
(* The requests are one version, that of the moment Seerr answered.        *)
(***************************************************************************)
EXTENDS Naturals, FiniteSets

CONSTANTS
    Callers,     \* scans and previews
    Background,  \* the background refresh
    NoSnapshot,
    MaxVersion   \* bound on changes in Seerr

ASSUME SeerrAssumption ==
    /\ Background \notin Callers
    /\ NoSnapshot \notin Callers \cup {Background}
    /\ NoSnapshot \notin 0..MaxVersion
    /\ MaxVersion \in Nat

VARIABLES
    seerrVersion,    \* the requests in Seerr
    seerrConfigured, \* there is a client
    seerrSnapshot,   \* the version of the snapshot
    seerrExpired,    \* its time to live has passed
    seerrLock,       \* who refreshes: a caller, the background task, or nobody
    seerrCallers     \* what each caller asked for, and where it is

seerrCache == <<seerrSnapshot, seerrExpired, seerrLock>>
seerrVars == <<seerrVersion, seerrConfigured, seerrCache, seerrCallers>>

Refreshers == Callers \cup {Background}
Versions == 0..MaxVersion

\* step: "idle", "waiting" for the lock, "reading", or "answered".
Calls == [step : {"idle", "waiting", "reading", "answered"},
          fresh : BOOLEAN,   \* require_fresh
          stale : BOOLEAN,   \* allow_stale_on_failure
          asked : Versions,  \* what was in Seerr when the call began
          read : Versions \cup {NoSnapshot}, \* what its refresh has read
          answer : Versions \cup {NoSnapshot},
          error : BOOLEAN]

Idle == [step |-> "idle", fresh |-> FALSE, stale |-> FALSE, asked |-> 0,
         read |-> NoSnapshot, answer |-> NoSnapshot, error |-> FALSE]

SeerrInit ==
    /\ seerrVersion = 0
    /\ seerrConfigured = TRUE
    /\ seerrSnapshot = NoSnapshot
    /\ seerrExpired = TRUE
    /\ seerrLock = NoSnapshot
    /\ seerrCallers = [c \in Refreshers |-> Idle]

Step(c) == seerrCallers[c].step
ReadBy(c) == seerrCallers[c].read
Answered(c, answer, error) ==
    [seerrCallers[c] EXCEPT !.step = "answered", !.read = NoSnapshot, !.answer = answer, !.error = error]

-----------------------------------------------------------------------------
(* Seerr, the service settings and the clock                               *)

RequestsChange ==
    /\ seerrVersion < MaxVersion
    /\ seerrVersion' = seerrVersion + 1
    /\ UNCHANGED <<seerrConfigured, seerrCache, seerrCallers>>

SeerrToggled ==
    /\ seerrConfigured' = ~seerrConfigured
    /\ UNCHANGED <<seerrVersion, seerrCache, seerrCallers>>

SnapshotExpires ==
    /\ ~seerrExpired
    /\ seerrExpired' = TRUE
    /\ UNCHANGED <<seerrVersion, seerrConfigured, seerrSnapshot, seerrLock, seerrCallers>>

-----------------------------------------------------------------------------
(* get_request_snapshot                                                    *)

NewCall(fresh, stale) ==
    [step |-> "waiting", fresh |-> fresh, stale |-> stale, asked |-> seerrVersion,
     read |-> NoSnapshot, answer |-> NoSnapshot, error |-> FALSE]

\* Mutant: a scan, too, takes a snapshot that has not expired.
Served_Unexpired(c, call) ==
    /\ ~call.fresh \/ ~seerrExpired
    /\ seerrSnapshot # NoSnapshot
    /\ seerrCallers' = [seerrCallers EXCEPT
          ![c] = [call EXCEPT !.step = "answered", !.answer = seerrSnapshot]]

\* A preview is served from the snapshot; when it has expired, the refresh in
\* the background is started unless one is at work.
Served(c, call) ==
    /\ ~call.fresh /\ seerrSnapshot # NoSnapshot
    /\ seerrCallers' = [seerrCallers EXCEPT
          ![c] = [call EXCEPT !.step = "answered", !.answer = seerrSnapshot],
          ![Background] = IF seerrExpired /\ @.step = "idle"
                          THEN [Idle EXCEPT !.step = "waiting", !.asked = seerrVersion] ELSE @]

Queued(c, call) ==
    /\ call.fresh \/ seerrSnapshot = NoSnapshot
    /\ seerrCallers' = [seerrCallers EXCEPT ![c] = call]

Ask(c) ==
    /\ Step(c) \in {"idle", "answered"}
    /\ \E fresh, stale \in BOOLEAN :
          Served(c, NewCall(fresh, stale)) \/ Queued(c, NewCall(fresh, stale))
    /\ UNCHANGED <<seerrVersion, seerrConfigured, seerrCache>>

-----------------------------------------------------------------------------
(* _refresh_request_snapshot                                               *)

\* Without a fresh answer, a caller that allows it gets the old snapshot.
Refused(c) ==
    [seerrCallers EXCEPT ![c] =
        IF c = Background THEN Idle
        ELSE Answered(c, IF @.stale THEN seerrSnapshot ELSE NoSnapshot, TRUE)]

\* Mutant: two refreshes may read at the same time.
LockFree_Never == TRUE

LockFree == seerrLock = NoSnapshot

RefreshBegins(c) ==
    /\ Step(c) = "waiting" /\ LockFree
    /\ seerrConfigured
    /\ seerrLock' = c
    /\ seerrCallers' = [seerrCallers EXCEPT ![c].step = "reading"]
    /\ UNCHANGED <<seerrVersion, seerrConfigured, seerrSnapshot, seerrExpired>>

RefreshRefused(c) ==
    /\ Step(c) = "waiting" /\ LockFree
    /\ ~seerrConfigured
    /\ seerrCallers' = Refused(c)
    /\ UNCHANGED <<seerrVersion, seerrConfigured, seerrCache>>

\* Seerr answers with the requests it has at some moment of the refresh.
RefreshReads(c) ==
    /\ Step(c) = "reading" /\ ReadBy(c) = NoSnapshot
    /\ seerrConfigured
    /\ seerrCallers' = [seerrCallers EXCEPT ![c].read = seerrVersion]
    /\ UNCHANGED <<seerrVersion, seerrConfigured, seerrCache>>

RefreshStores(c) ==
    /\ Step(c) = "reading" /\ ReadBy(c) # NoSnapshot
    /\ seerrSnapshot' = ReadBy(c)
    /\ seerrExpired' = FALSE
    /\ seerrLock' = NoSnapshot
    /\ seerrCallers' = [seerrCallers EXCEPT
          ![c] = IF c = Background THEN Idle ELSE Answered(c, ReadBy(c), FALSE)]
    /\ UNCHANGED <<seerrVersion, seerrConfigured>>

RefreshFails(c) ==
    /\ Step(c) = "reading" /\ ReadBy(c) = NoSnapshot
    /\ seerrLock' = NoSnapshot
    /\ seerrCallers' = Refused(c)
    /\ UNCHANGED <<seerrVersion, seerrConfigured, seerrSnapshot, seerrExpired>>

SeerrNext ==
    \/ RequestsChange
    \/ SeerrToggled
    \/ SnapshotExpires
    \/ \E c \in Callers : Ask(c)
    \/ \E c \in Refreshers : RefreshBegins(c)
    \/ \E c \in Refreshers : RefreshRefused(c)
    \/ \E c \in Refreshers : RefreshReads(c)
    \/ \E c \in Refreshers : RefreshStores(c)
    \/ \E c \in Refreshers : RefreshFails(c)

SeerrSpec == SeerrInit /\ [][SeerrNext]_seerrVars

-----------------------------------------------------------------------------
\* Every variable keeps its type.
SeerrTypeOK ==
    /\ seerrVersion \in Versions
    /\ seerrConfigured \in BOOLEAN
    /\ seerrSnapshot \in Versions \cup {NoSnapshot}
    /\ seerrExpired \in BOOLEAN
    /\ seerrLock \in Refreshers \cup {NoSnapshot}
    /\ seerrCallers \in [Refreshers -> Calls]

\* A caller that requires fresh data and gets it without an error gets the
\* requests as they were when it asked, or later: never those another refresh
\* had read before (get_request_snapshot, _refresh_request_snapshot).
FreshIsFresh ==
    \A c \in Callers :
        Step(c) = "answered" /\ seerrCallers[c].fresh /\ ~seerrCallers[c].error
        => seerrCallers[c].answer # NoSnapshot /\ seerrCallers[c].answer >= seerrCallers[c].asked

\* The snapshot never goes back to requests older than those it has
\* (_refresh_request_snapshot holds the lock over the read and the store).
SnapshotNeverOlder ==
    [][ seerrSnapshot # NoSnapshot =>
            seerrSnapshot' # NoSnapshot /\ seerrSnapshot' >= seerrSnapshot ]_seerrVars
=============================================================================
