---------------------------- MODULE WatchSnapshot ---------------------------
(***************************************************************************)
(* The snapshot of who watched what in Plex, which rules read              *)
(* (backend/services/media_watch_snapshot_cache.py).  A refresh reads the  *)
(* history of Plex from a cursor on, less an overlap, and merges it into   *)
(* the rows; now and then it rebuilds the rows from the whole history.  A  *)
(* page that cannot be read ends its library and nothing tells the caller. *)
(*                                                                         *)
(* A user and a title are one key, and each key is in a library of its     *)
(* own.  Time counts the days of _PLEX_OVERLAP_WINDOW; the two minutes the *)
(* client keeps the whole history for (watchCache) end within the day.     *)
(* Episode rows, which follow the same cursor, are left out.               *)
(***************************************************************************)
EXTENDS Naturals, FiniteSets

CONSTANTS
    Keys,       \* a user and a title
    Overlap,    \* _PLEX_OVERLAP_WINDOW
    Interval,   \* _PLEX_FULL_REBUILD_INTERVAL
    MaxDay,     \* bound on the days
    MaxLate,    \* bound on the days a player reports a play late
    MaxPlays,   \* bound on the plays
    NoDay

ASSUME WatchAssumption ==
    /\ {Overlap, Interval, MaxDay, MaxLate, MaxPlays} \subseteq Nat
    /\ NoDay \notin Nat

VARIABLES
    day,          \* today
    history,      \* the plays Plex knows
    watchRows,    \* media_watch_users: the last time of each key
    watchState,   \* watch_snapshot_sync in the server's extra_settings
    watchCache,   \* the whole history as the client of Plex keeps it
    syncState,    \* what a library sync has loaded of it, if one has
    watchRefresh, \* what the refresh that holds the lock has read
    gap,          \* a page was missed since the last whole rebuild
    covered       \* the plays the rows were made from

watchConfig == <<watchState, syncState>>
watchVars == <<day, history, watchRows, watchConfig, watchCache, watchRefresh, gap, covered>>

Days == 0..MaxDay
Plays == [key : Keys, at : Days, reported : Days]
SyncStates == [viewed : Days \cup {NoDay},  \* plex_last_viewed_at
               full : Days \cup {NoDay}]    \* plex_last_full_sync_at
NoState == [viewed |-> NoDay, full |-> NoDay]
NoRead == [known |-> FALSE, plays |-> {}, whole |-> FALSE, of |-> {}]

\* A read of the history: the plays it returned, whether that is all there
\* is, and the history at that moment.
Reads == [known : BOOLEAN, plays : SUBSET history, whole : BOOLEAN, of : SUBSET history]

\* by: the library sync, a request of an administrator, or nobody.
NoRefresh == [by |-> "nobody", state |-> NoState, full |-> FALSE, now |-> 0, read |-> NoRead]

WatchInit ==
    /\ day = 0
    /\ history = {}
    /\ watchRows = [k \in Keys |-> NoDay]
    /\ watchState = NoState
    /\ watchCache = NoRead
    /\ syncState = {}
    /\ watchRefresh = NoRefresh
    /\ gap = FALSE
    /\ covered = {}

Later(a, b) == IF a = NoDay \/ (b # NoDay /\ b > a) THEN b ELSE a
LastOf(days) == IF days = {} THEN NoDay ELSE CHOOSE d \in days : \A e \in days : e <= d

-----------------------------------------------------------------------------
(* Plex, the clock and the settings                                        *)

PlayReported(k, late) ==
    /\ Cardinality(history) < MaxPlays /\ late <= day
    /\ history' = history \cup {[key |-> k, at |-> day - late, reported |-> day]}
    /\ UNCHANGED <<day, watchRows, watchConfig, watchCache, watchRefresh, gap, covered>>

DayPasses ==
    /\ day < MaxDay
    /\ day' = day + 1
    /\ watchCache' = NoRead
    /\ UNCHANGED <<history, watchRows, watchConfig, watchRefresh, gap, covered>>

CacheExpires ==
    /\ watchCache.known
    /\ watchCache' = NoRead
    /\ UNCHANGED <<day, history, watchRows, watchConfig, watchRefresh, gap, covered>>

\* Saving the server writes the extra_settings of the page over the row's, and
\* so the state of the sync is lost. (An older state can come back too; what a
\* sync has loaded before, and then writes, is such a one: see syncState.)
ServerSaved ==
    /\ watchState # NoState
    /\ watchState' = NoState
    /\ UNCHANGED <<day, history, watchRows, syncState, watchCache, watchRefresh, gap, covered>>

-----------------------------------------------------------------------------
(* PlexService: _fetch_all_history_records, _get_all_history_records       *)

\* The newest plays of each library, down to the page that failed in it.
FetchFrom(cutoff, floors) ==
    LET wanted == {h \in history : cutoff = NoDay \/ h.at >= cutoff}
        got == {h \in wanted : h.at >= floors[h.key]}
    IN  [known |-> TRUE, plays |-> got, whole |-> got = wanted, of |-> history]

\* The whole history comes from the cache while there is one; so it does for
\* the aggregated movies of the library sync.
WholeHistory(floors) == IF watchCache.known THEN watchCache ELSE FetchFrom(NoDay, floors)

HistoryAggregated(floors) ==
    /\ ~watchCache.known
    /\ watchCache' = WholeHistory(floors)
    /\ UNCHANGED <<day, history, watchRows, watchConfig, watchRefresh, gap, covered>>

-----------------------------------------------------------------------------
(* refresh_snapshot                                                        *)

\* A library sync loads the servers long before it refreshes.
ServersLoaded ==
    /\ syncState = {} /\ watchRefresh.by # "sync"
    /\ syncState' = {watchState}
    /\ UNCHANGED <<day, history, watchRows, watchState, watchCache, watchRefresh, gap, covered>>

\* _plex_sync_state_requires_full_rebuild
NeedsRebuild(state) ==
    \/ NoDay \in {state.viewed, state.full}
    \/ state.full # NoDay /\ day >= state.full + Interval

\* Mutant: no overlap.
Cutoff_Cursor(viewed) == viewed

Cutoff(viewed) == IF viewed >= Overlap THEN viewed - Overlap ELSE 0

HistoryRead(by, state, floors) ==
    LET full == NeedsRebuild(state)
        read == IF full THEN WholeHistory(floors) ELSE FetchFrom(Cutoff(state.viewed), floors)
    IN  /\ watchRefresh = NoRefresh
        /\ watchCache' = IF full THEN read ELSE watchCache
        /\ watchRefresh' = [by |-> by, state |-> state, full |-> full, now |-> day, read |-> read]
        /\ UNCHANGED <<day, history, watchRows, watchState, gap, covered>>

\* GET /general/watch-users?refresh=true loads the servers under the lock.
RequestReads(floors) ==
    /\ HistoryRead("request", watchState, floors)
    /\ UNCHANGED syncState

SyncReads(floors) ==
    /\ \E state \in syncState : HistoryRead("sync", state, floors)
    /\ syncState' = {}

\* A client that is missing, or an error outside the pages: nothing is written.
WatchFails ==
    /\ watchRefresh # NoRefresh
    /\ watchRefresh' = NoRefresh
    /\ UNCHANGED <<day, history, watchRows, watchConfig, watchCache, gap, covered>>

\* Rows and state are one transaction.  The state is that of the settings
\* loaded, moved on.
RefreshCommits ==
    LET read == watchRefresh.read
        state == watchRefresh.state
        Seen(k) == LastOf({h.at : h \in {p \in read.plays : p.key = k}})
        last == LastOf({h.at : h \in read.plays})
    IN  /\ watchRefresh # NoRefresh
        /\ watchRows' = [k \in Keys |->
              IF watchRefresh.full THEN Seen(k) ELSE Later(watchRows[k], Seen(k))]
        /\ watchState' = [viewed |-> Later(state.viewed, last),
                          full |-> IF watchRefresh.full THEN watchRefresh.now ELSE state.full]
        /\ gap' = (~read.whole \/ (gap /\ ~watchRefresh.full))
        /\ covered' = IF watchRefresh.full THEN read.of ELSE covered \cup read.of
        /\ watchRefresh' = NoRefresh
        /\ UNCHANGED <<day, history, syncState, watchCache>>

Floors == [Keys -> {0, day}]

WatchNext ==
    \/ \E k \in Keys, late \in 0..MaxLate : PlayReported(k, late)
    \/ DayPasses
    \/ CacheExpires
    \/ ServerSaved
    \/ \E floors \in Floors : HistoryAggregated(floors)
    \/ ServersLoaded
    \/ \E floors \in Floors : RequestReads(floors)
    \/ \E floors \in Floors : SyncReads(floors)
    \/ WatchFails
    \/ RefreshCommits

WatchSpec == WatchInit /\ [][WatchNext]_watchVars

-----------------------------------------------------------------------------
\* Every variable keeps its type.
WatchTypeOK ==
    /\ day \in Days
    /\ history \subseteq Plays
    /\ watchRows \in [Keys -> Days \cup {NoDay}]
    /\ {watchState} \cup syncState \subseteq SyncStates
    /\ watchCache \in Reads
    /\ watchRefresh.state \in SyncStates /\ watchRefresh.read \in Reads
    /\ gap \in BOOLEAN
    /\ covered \subseteq history

\* Unless a page was missed since the last rebuild, the rows have every play
\* of the history they were made from that was reported within the overlap,
\* whatever cursor, cache or older settings a refresh worked with
\* (refresh_snapshot, _fetch_all_history_records).
WatchComplete ==
    ~gap => \A h \in covered :
               h.reported <= h.at + Overlap => watchRows[h.key] # NoDay /\ watchRows[h.key] >= h.at
=============================================================================
