--------------------------- MODULE PlaybackHistory --------------------------
(***************************************************************************)
(* The durable history of plays that rules on playback read                *)
(* (backend/services/playback_history.py).  A refresh imports the plays    *)
(* the provider has since the last success, less a day, maps each to a     *)
(* title of the library and rebuilds the counts of all targets.  Importing *)
(* and rebuilding are two transactions.                                    *)
(*                                                                         *)
(* One provider.  The targets are the versions of movies: an item of the   *)
(* provider is a version while the library has it.  Time counts half days: *)
(* a play, and a refresh from its read to its store, take at most one.     *)
(***************************************************************************)
EXTENDS Naturals, FiniteSets

CONSTANTS
    PlayItems,   \* items of the provider
    PlayTitles,  \* titles (tmdb_id)
    TitleOf,     \* the title of each item
    PlayOverlap, \* the timedelta(days=1) taken off the last success
    PlayLength,  \* the longest play
    LastHalf,    \* bound on the half days
    MaxEvents,   \* bound on the plays
    NoTime

\* A play and the refresh that reads it, half a day each at most, fit in the day of
\* overlap.
ASSUME PlaybackAssumption ==
    /\ TitleOf \in [PlayItems -> PlayTitles]
    /\ {PlayOverlap, PlayLength, LastHalf, MaxEvents} \subseteq Nat
    /\ PlayLength + 1 <= PlayOverlap
    /\ NoTime \notin Nat

VARIABLES
    pbNow,        \* the time
    pbPlays,      \* the plays the provider has
    pbLibrary,    \* the items that are versions in the library
    pbEvents,     \* playback_history_events
    pbCounts,     \* playback_history_aggregates: plays of each version
    pbState,      \* playback_history_sync of the service
    pbRefresh,    \* the refresh that holds the lock
    pbKnown,      \* the plays the provider had at the last successful read
    pbMapped      \* the plays imported while their item was in the library

pbTables == <<pbEvents, pbCounts, pbState>>
pbGhosts == <<pbKnown, pbMapped>>
pbVars == <<pbNow, pbPlays, pbLibrary, pbTables, pbRefresh, pbGhosts>>

Halves == 0..LastHalf
AllPlays == [item : PlayItems, at : Halves]

\* mapped: the event has its tmdb_id.
Events == [item : PlayItems, at : Halves, mapped : BOOLEAN]

\* success: last_success_at.  recent: the last attempt is less than
\* PLAYBACK_PREVIEW_REFRESH_INTERVAL ago.
ProviderStates == [success : Halves \cup {NoTime}, available : BOOLEAN, recent : BOOLEAN]

\* step: "idle", "begun", "read", "stored", or "done" and not yet rebuilt upon.
Steps == {"idle", "begun", "read", "stored", "done"}
NoPlayRefresh == [step |-> "idle", force |-> FALSE, since |-> NoTime, now |-> 0,
                  read |-> {}, of |-> {}, ok |-> FALSE]

PbInit ==
    /\ pbNow = 0
    /\ pbPlays = {}
    /\ pbLibrary = {}
    /\ pbEvents = {}
    /\ pbCounts = [i \in {} |-> 0]
    /\ pbState = [success |-> NoTime, available |-> FALSE, recent |-> FALSE]
    /\ pbRefresh = NoPlayRefresh
    /\ pbKnown = {} /\ pbMapped = {}

\* Anything that happens after a refresh may age its result.
Aged == IF pbRefresh.step = "done" THEN NoPlayRefresh ELSE pbRefresh

-----------------------------------------------------------------------------
(* The provider, the clock and the library                                 *)

\* A play is stamped with the time it began and reported when it ends.
PlayEnds(i, late) ==
    /\ Cardinality(pbPlays) < MaxEvents /\ late <= pbNow
    /\ pbPlays' = pbPlays \cup {[item |-> i, at |-> pbNow - late]}
    /\ pbRefresh' = Aged
    /\ UNCHANGED <<pbNow, pbLibrary, pbTables, pbGhosts>>

HalfPasses ==
    /\ pbNow < LastHalf
    /\ pbRefresh.step = "read" => pbNow = pbRefresh.now
    /\ pbNow' = pbNow + 1
    /\ pbState' = [pbState EXCEPT !.recent = FALSE]
    /\ pbRefresh' = Aged
    /\ UNCHANGED <<pbPlays, pbLibrary, pbEvents, pbCounts, pbGhosts>>

IntervalPasses ==
    /\ pbState.recent
    /\ pbState' = [pbState EXCEPT !.recent = FALSE]
    /\ UNCHANGED <<pbNow, pbPlays, pbLibrary, pbEvents, pbCounts, pbRefresh, pbGhosts>>

\* A library sync adds a version or removes one; its counts go with it.
LibraryChanges(i) ==
    /\ pbLibrary' = (pbLibrary \ {i}) \cup ({i} \ pbLibrary)
    /\ pbRefresh' = Aged
    /\ UNCHANGED <<pbNow, pbPlays, pbTables, pbGhosts>>

-----------------------------------------------------------------------------
(* refresh_playback_history                                                *)

\* A preview is content with an attempt that is recent, and rebuilds nothing.
RecentServed ==
    /\ pbRefresh.step \in {"idle", "done"}
    /\ pbState.recent
    /\ pbRefresh' = [NoPlayRefresh EXCEPT !.step = "done", !.ok = pbState.available]
    /\ UNCHANGED <<pbNow, pbPlays, pbLibrary, pbTables, pbGhosts>>

\* Mutant: no overlap.
Since_Success(success) == success

Since(success) ==
    IF success = NoTime THEN NoTime ELSE IF success >= PlayOverlap THEN success - PlayOverlap ELSE 0

PlayRefreshBegins(force) ==
    /\ pbRefresh.step \in {"idle", "done"}
    /\ force \/ ~pbState.recent
    /\ pbRefresh' = [NoPlayRefresh EXCEPT !.step = "begun", !.force = force, !.since = Since(pbState.success)]
    /\ UNCHANGED <<pbNow, pbPlays, pbLibrary, pbTables, pbGhosts>>

EventsRead ==
    LET wanted == {p \in pbPlays : pbRefresh.since = NoTime \/ p.at >= pbRefresh.since}
    IN  /\ pbRefresh.step = "begun"
        /\ pbRefresh' = [pbRefresh EXCEPT !.step = "read", !.now = pbNow,
                                        !.read = wanted, !.of = pbPlays]
        /\ UNCHANGED <<pbNow, pbPlays, pbLibrary, pbTables, pbGhosts>>

\* _persist_unavailable_status: the counts are rebuilt all the same.
ProviderUnavailable ==
    /\ pbRefresh.step = "begun"
    /\ pbState' = [pbState EXCEPT !.available = FALSE, !.recent = TRUE]
    /\ pbRefresh' = [pbRefresh EXCEPT !.step = "stored"]
    /\ UNCHANGED <<pbNow, pbPlays, pbLibrary, pbEvents, pbCounts, pbGhosts>>

\* _upsert_events: an event that was read again gets a title it did not have
\* and never loses the one it has.
Upserted ==
    LET Had(p) == \E e \in pbEvents : e.item = p.item /\ e.at = p.at /\ e.mapped
        read == {[item |-> p.item, at |-> p.at, mapped |-> p.item \in pbLibrary \/ Had(p)] :
                 p \in pbRefresh.read}
    IN  read \cup {e \in pbEvents : [item |-> e.item, at |-> e.at] \notin pbRefresh.read}

\* The success is stamped when the events are stored, not when they were read.
EventsStored ==
    /\ pbRefresh.step = "read"
    /\ pbEvents' = Upserted
    /\ pbState' = [success |-> pbNow, available |-> TRUE, recent |-> TRUE]
    /\ pbRefresh' = [pbRefresh EXCEPT !.step = "stored", !.ok = TRUE]
    /\ pbKnown' = pbRefresh.of
    /\ pbMapped' = pbMapped \cup {p \in pbRefresh.read : p.item \in pbLibrary}
    /\ UNCHANGED <<pbNow, pbPlays, pbLibrary, pbCounts>>

\* rebuild_playback_history_aggregates: a version counts every event of its
\* title, those of versions that are gone included.
CountsRebuilt ==
    /\ pbRefresh.step = "stored"
    /\ pbCounts' = [i \in pbLibrary |->
          Cardinality({e \in pbEvents : e.mapped /\ TitleOf[e.item] = TitleOf[i]})]
    /\ pbRefresh' = [pbRefresh EXCEPT !.step = "done", !.read = {}, !.of = {}, !.since = NoTime, !.now = 0]
    /\ UNCHANGED <<pbNow, pbPlays, pbLibrary, pbEvents, pbState, pbGhosts>>

\* A database error or a stop ends the refresh where it is.
PlayRefreshDies ==
    /\ pbRefresh.step \notin {"idle", "done"}
    /\ pbRefresh' = NoPlayRefresh
    /\ UNCHANGED <<pbNow, pbPlays, pbLibrary, pbTables, pbGhosts>>

PbNext ==
    \/ \E i \in PlayItems, late \in 0..PlayLength : PlayEnds(i, late)
    \/ HalfPasses
    \/ IntervalPasses
    \/ \E i \in PlayItems : LibraryChanges(i)
    \/ RecentServed
    \/ \E force \in BOOLEAN : PlayRefreshBegins(force)
    \/ EventsRead
    \/ ProviderUnavailable
    \/ EventsStored
    \/ CountsRebuilt
    \/ PlayRefreshDies

PbSpec == PbInit /\ [][PbNext]_pbVars

-----------------------------------------------------------------------------
\* Every variable keeps its type.
PbTypeOK ==
    /\ pbNow \in Halves
    /\ pbPlays \subseteq AllPlays
    /\ pbLibrary \subseteq PlayItems
    /\ pbEvents \subseteq Events
    /\ DOMAIN pbCounts \subseteq PlayItems
    /\ pbState \in ProviderStates
    /\ pbRefresh.step \in Steps /\ pbRefresh.read \subseteq pbPlays /\ pbRefresh.of \subseteq pbPlays
    /\ pbKnown \subseteq pbPlays /\ pbMapped \subseteq pbPlays

\* What a scan reads after its forced refresh succeeded counts every play: all
\* the plays of the provider are events, and each that was imported while its
\* item was in the library counts for every version of its title, although the
\* item may have left the library and another one come, and although refreshes
\* before died between import and rebuild (_refresh_playback_history_once).
ScanCountsPlays ==
    pbRefresh.step = "done" /\ pbRefresh.force /\ pbRefresh.ok =>
        /\ \A p \in pbKnown : \E e \in pbEvents : e.item = p.item /\ e.at = p.at
        /\ \A i \in pbLibrary :
              pbCounts[i] = Cardinality({p \in pbMapped : TitleOf[p.item] = TitleOf[i]})
=============================================================================
