--------------------------- MODULE SnapshotProofs ---------------------------
(***************************************************************************)
(* The snapshots and imports that rules and deletions read.                *)
(*                                                                         *)
(* Of the requests in Seerr, for any number of scans and previews: who     *)
(* asks for fresh data gets it, and the snapshot never goes back.  The     *)
(* invariant says who holds _request_lock, and that what its holder has    *)
(* read is at least as new as the snapshot and as the question.            *)
(*                                                                         *)
(* Of the favorites, for any servers, users and titles: what fails loses   *)
(* no favorite.  The invariant says what a refresh knows of the accounts   *)
(* of the server it is asking.                                             *)
(*                                                                         *)
(* Of the watch rows, for any plays of any number of days: no play that    *)
(* was reported in time is missed.  The invariant says that a cursor,      *)
(* wherever it is held, is never ahead of what the rows were made from.    *)
(*                                                                         *)
(* Of the playback events, for any plays and titles: the counts of a       *)
(* forced scan are the plays.  The invariant says that what a refresh      *)
(* leaves out is an event already.                                         *)
(***************************************************************************)
EXTENDS SeerrSnapshot, FavoritesSnapshot, WatchSnapshot, PlaybackHistory,
        FunctionTheorems, FiniteSetTheorems, WellFoundedInduction, TLAPS

-----------------------------------------------------------------------------
(* The requests in Seerr.                                                  *)

\* One refresh at a time is reading, and it holds the lock.
LockOfReader ==
    /\ \A c \in Refreshers : Step(c) = "reading" => seerrLock = c
    /\ seerrLock # NoSnapshot => Step(seerrLock) = "reading"

\* Nothing is newer than Seerr; a caller reads after it asked.
Ordered(c) ==
    /\ seerrCallers[c].asked <= seerrVersion
    /\ ReadBy(c) # NoSnapshot =>
          /\ Step(c) = "reading"
          /\ seerrCallers[c].asked <= ReadBy(c) /\ ReadBy(c) <= seerrVersion
          /\ seerrSnapshot # NoSnapshot => seerrSnapshot <= ReadBy(c)

SeerrInv ==
    /\ SeerrTypeOK
    /\ LockOfReader
    /\ seerrSnapshot # NoSnapshot => seerrSnapshot <= seerrVersion
    /\ \A c \in Refreshers : Ordered(c)
    /\ FreshIsFresh

\* The invariant holds at the start.
LEMMA SeerrInitInv == SeerrInit => SeerrInv
  BY SeerrAssumption
  DEF SeerrInit, SeerrInv, SeerrTypeOK, LockOfReader, Ordered, FreshIsFresh, Idle, Calls,
      Versions, Refreshers, Step, ReadBy

\* A change of Seerr, of the settings or of the clock makes nothing newer.
LEMMA WorldInv ==
    ASSUME SeerrInv, RequestsChange \/ SeerrToggled \/ SnapshotExpires
    PROVE  SeerrInv'
<1>1. CASE RequestsChange
  BY <1>1, SeerrAssumption
  DEF RequestsChange, seerrCache, SeerrInv, SeerrTypeOK, LockOfReader, Ordered, FreshIsFresh,
      Versions, Calls, Step, ReadBy
<1>2. CASE SeerrToggled
  BY <1>2
  DEF SeerrToggled, seerrCache, SeerrInv, SeerrTypeOK, LockOfReader, Ordered, FreshIsFresh,
      Step, ReadBy
<1>3. CASE SnapshotExpires
  BY <1>3
  DEF SnapshotExpires, SeerrInv, SeerrTypeOK, LockOfReader, Ordered, FreshIsFresh, Step, ReadBy
<1> QED
  BY <1>1, <1>2, <1>3

\* A call is served from the snapshot, with the background refresh woken.
LEMMA ServedInv ==
    ASSUME SeerrInv, NEW c \in Callers, Step(c) \in {"idle", "answered"},
           NEW fresh \in BOOLEAN, NEW stale \in BOOLEAN, Served(c, NewCall(fresh, stale)),
           UNCHANGED <<seerrVersion, seerrConfigured, seerrCache>>
    PROVE  SeerrInv'
<1> DEFINE call == [NewCall(fresh, stale) EXCEPT !.step = "answered", !.answer = seerrSnapshot]
           woken == IF seerrExpired /\ Step(Background) = "idle"
                    THEN [Idle EXCEPT !.step = "waiting", !.asked = seerrVersion]
                    ELSE seerrCallers[Background]
<1>1. c # Background /\ c \in Refreshers /\ Background \in Refreshers
  BY SeerrAssumption DEF Refreshers
<1>2. seerrCallers \in [Refreshers -> Calls] /\ seerrVersion \in Versions
  BY DEF SeerrInv, SeerrTypeOK
<1>3. seerrCallers' = [seerrCallers EXCEPT ![c] = call, ![Background] = woken]
  BY <1>1, <1>2 DEF Served, Step
<1>4. ~fresh /\ call \in Calls /\ woken \in Calls
  <2>1. ~fresh
    BY DEF Served, NewCall
  <2>2. call \in Calls
    BY <1>2 DEF NewCall, Calls, SeerrInv, SeerrTypeOK
  <2>3. woken \in Calls
    BY <1>1, <1>2 DEF Idle, Calls, Versions
  <2> QED
    BY <2>1, <2>2, <2>3
<1>5. /\ call.step = "answered" /\ ~call.fresh /\ call.read = NoSnapshot
      /\ call.asked = seerrVersion
  BY <1>4 DEF NewCall
<1>6. \/ woken = seerrCallers[Background]
      \/ /\ Step(Background) = "idle" /\ woken.step = "waiting"
         /\ woken.read = NoSnapshot /\ woken.asked = seerrVersion
  BY DEF Idle
<1> HIDE DEF call, woken
<1>7. \A b \in Refreshers : seerrCallers'[b] =
         IF b = c THEN call ELSE IF b = Background THEN woken ELSE seerrCallers[b]
  BY <1>1, <1>2, <1>3
<1>8. SeerrTypeOK'
  BY <1>2, <1>3, <1>4 DEF SeerrInv, SeerrTypeOK, seerrCache
<1>9. LockOfReader'
  BY <1>1, <1>5, <1>6, <1>7 DEF SeerrInv, SeerrTypeOK, LockOfReader, seerrCache, Step
<1>10. \A b \in Refreshers : Ordered(b)'
  BY <1>1, <1>2, <1>5, <1>6, <1>7, SeerrAssumption
  DEF SeerrInv, Ordered, seerrCache, Step, ReadBy, Versions
<1>11. FreshIsFresh'
  BY <1>1, <1>5, <1>7, SeerrAssumption DEF SeerrInv, FreshIsFresh, Step, Refreshers
<1> QED
  BY <1>8, <1>9, <1>10, <1>11 DEF SeerrInv, seerrCache

\* A call that has to wait for a refresh remembers what was in Seerr.
LEMMA QueuedInv ==
    ASSUME SeerrInv, NEW c \in Callers, Step(c) \in {"idle", "answered"},
           NEW fresh \in BOOLEAN, NEW stale \in BOOLEAN, Queued(c, NewCall(fresh, stale)),
           UNCHANGED <<seerrVersion, seerrConfigured, seerrCache>>
    PROVE  SeerrInv'
<1> DEFINE call == NewCall(fresh, stale)
<1>1. c \in Refreshers /\ seerrCallers' = [seerrCallers EXCEPT ![c] = call]
  BY DEF Refreshers, Queued
<1>2. call \in Calls /\ call.step = "waiting" /\ call.read = NoSnapshot /\ call.asked = seerrVersion
  BY DEF NewCall, Calls, SeerrInv, SeerrTypeOK
<1> HIDE DEF call
<1>3. \A b \in Refreshers : seerrCallers'[b] = IF b = c THEN call ELSE seerrCallers[b]
  BY <1>1 DEF SeerrInv, SeerrTypeOK
<1>4. SeerrTypeOK'
  BY <1>1, <1>2 DEF SeerrInv, SeerrTypeOK, seerrCache
<1>5. LockOfReader'
  BY <1>1, <1>2, <1>3 DEF SeerrInv, SeerrTypeOK, LockOfReader, seerrCache, Step
<1>6. \A b \in Refreshers : Ordered(b)'
  BY <1>2, <1>3, SeerrAssumption DEF SeerrInv, SeerrTypeOK, Ordered, seerrCache, Step, ReadBy, Versions
<1>7. FreshIsFresh'
  BY <1>2, <1>3 DEF SeerrInv, FreshIsFresh, Step, Refreshers
<1> QED
  BY <1>4, <1>5, <1>6, <1>7 DEF SeerrInv, seerrCache

\* A refresh that takes the lock has read nothing yet.
LEMMA BeginsInv ==
    ASSUME SeerrInv, NEW c \in Refreshers, RefreshBegins(c)
    PROVE  SeerrInv'
<1> DEFINE call == [seerrCallers[c] EXCEPT !.step = "reading"]
<1>1. seerrCallers' = [seerrCallers EXCEPT ![c] = call] /\ seerrLock = NoSnapshot /\ seerrLock' = c
  BY DEF RefreshBegins, LockFree
<1>2. /\ call \in Calls /\ call.step = "reading" /\ call.read = NoSnapshot
      /\ call.asked = seerrCallers[c].asked
  BY DEF RefreshBegins, Calls, SeerrInv, SeerrTypeOK, Ordered, Step, ReadBy
<1> HIDE DEF call
<1>3. \A b \in Refreshers : seerrCallers'[b] = IF b = c THEN call ELSE seerrCallers[b]
  BY <1>1 DEF SeerrInv, SeerrTypeOK
<1>4. SeerrTypeOK'
  BY <1>1, <1>2 DEF SeerrInv, SeerrTypeOK, RefreshBegins
<1>5. LockOfReader'
  BY <1>1, <1>2, <1>3, SeerrAssumption DEF SeerrInv, SeerrTypeOK, LockOfReader, Step, Refreshers
<1>6. \A b \in Refreshers : Ordered(b)'
  BY <1>2, <1>3 DEF SeerrInv, Ordered, Step, ReadBy, RefreshBegins
<1>7. FreshIsFresh'
  BY <1>2, <1>3 DEF SeerrInv, FreshIsFresh, Step, Refreshers
<1> QED
  BY <1>4, <1>5, <1>6, <1>7 DEF SeerrInv, RefreshBegins

\* Nobody has asked: the record is well typed.
LEMMA IdleTyped == Idle \in Calls
  BY SeerrAssumption DEF Idle, Calls, Versions

\* An answer changes the step, the answer and the error of a call.
LEMMA AnsweredTyped ==
    ASSUME NEW c \in Refreshers, seerrCallers[c] \in Calls,
           NEW answer \in Versions \cup {NoSnapshot}, NEW error \in BOOLEAN
    PROVE  Answered(c, answer, error) \in Calls
  BY DEF Answered, Calls

\* A refresh that is refused, or fails, ends with an error and frees the lock.
LEMMA RefusedInv ==
    ASSUME SeerrInv, NEW c \in Refreshers, RefreshRefused(c) \/ RefreshFails(c)
    PROVE  SeerrInv'
<1> DEFINE call == IF c = Background THEN Idle
                   ELSE Answered(c, IF seerrCallers[c].stale THEN seerrSnapshot ELSE NoSnapshot, TRUE)
<1>1. seerrCallers' = [seerrCallers EXCEPT ![c] = call]
  BY DEF RefreshRefused, RefreshFails, Refused, SeerrInv, SeerrTypeOK
<1>2. call \in Calls
  BY IdleTyped, AnsweredTyped DEF SeerrInv, SeerrTypeOK
<1>3. /\ call.step \in {"idle", "answered"} /\ call.read = NoSnapshot
      /\ call.step = "answered" => call.error
      /\ call.asked \in {0, seerrCallers[c].asked}
  <2>1. seerrCallers[c] \in Calls
    BY DEF SeerrInv, SeerrTypeOK
  <2> QED
    BY <2>1 DEF Idle, Answered, Calls
<1> HIDE DEF call
<1>4. \A b \in Refreshers : seerrCallers'[b] = IF b = c THEN call ELSE seerrCallers[b]
  BY <1>1 DEF SeerrInv, SeerrTypeOK
<1>5. seerrLock' = NoSnapshot /\ UNCHANGED <<seerrVersion, seerrConfigured, seerrSnapshot, seerrExpired>>
  BY DEF RefreshRefused, RefreshFails, LockFree, seerrCache
<1>6. SeerrTypeOK'
  BY <1>1, <1>2, <1>5 DEF SeerrInv, SeerrTypeOK
<1>7. \A b \in Refreshers \ {c} : Step(b) # "reading"
  BY SeerrAssumption DEF SeerrInv, LockOfReader, RefreshRefused, RefreshFails, LockFree, Step, Refreshers
<1>8. LockOfReader'
  BY <1>3, <1>4, <1>5, <1>7 DEF LockOfReader, Step
<1>9. \A b \in Refreshers : Ordered(b)'
  BY <1>3, <1>4, <1>5, SeerrAssumption DEF SeerrInv, SeerrTypeOK, Ordered, Step, ReadBy, Versions
<1>10. FreshIsFresh'
  BY <1>3, <1>4 DEF SeerrInv, FreshIsFresh, Step, Refreshers
<1> QED
  BY <1>5, <1>6, <1>8, <1>9, <1>10 DEF SeerrInv

\* What Seerr answers is as new as it gets.
LEMMA ReadsInv ==
    ASSUME SeerrInv, NEW c \in Refreshers, RefreshReads(c)
    PROVE  SeerrInv'
<1> DEFINE call == [seerrCallers[c] EXCEPT !.read = seerrVersion]
<1>1. seerrCallers' = [seerrCallers EXCEPT ![c] = call]
  BY DEF RefreshReads
<1>2. /\ call \in Calls /\ call.step = "reading" /\ call.read = seerrVersion
      /\ call.asked = seerrCallers[c].asked
  BY DEF RefreshReads, Calls, SeerrInv, SeerrTypeOK, Step
<1> HIDE DEF call
<1>3. \A b \in Refreshers : seerrCallers'[b] = IF b = c THEN call ELSE seerrCallers[b]
  BY <1>1 DEF SeerrInv, SeerrTypeOK
<1>4. Step(c) = "reading" /\ UNCHANGED <<seerrVersion, seerrConfigured, seerrCache>>
  BY DEF RefreshReads
<1>5. SeerrTypeOK'
  BY <1>1, <1>2, <1>4 DEF SeerrInv, SeerrTypeOK, seerrCache
<1>6. LockOfReader'
  BY <1>2, <1>3, <1>4 DEF SeerrInv, SeerrTypeOK, LockOfReader, seerrCache, Step
<1>7. \A b \in Refreshers : Ordered(b)'
  BY <1>2, <1>3, <1>4, SeerrAssumption
  DEF SeerrInv, SeerrTypeOK, Ordered, Step, ReadBy, seerrCache, Versions
<1>8. FreshIsFresh'
  BY <1>2, <1>3 DEF SeerrInv, FreshIsFresh, Step, Refreshers
<1> QED
  BY <1>4, <1>5, <1>6, <1>7, <1>8 DEF SeerrInv, seerrCache

\* What is stored answers the caller: it was read after the caller asked, and
\* nothing has been stored since.
LEMMA StoresInv ==
    ASSUME SeerrInv, NEW c \in Refreshers, RefreshStores(c)
    PROVE  /\ SeerrInv'
           /\ seerrSnapshot # NoSnapshot => seerrSnapshot' # NoSnapshot /\ seerrSnapshot' >= seerrSnapshot
<1> DEFINE call == IF c = Background THEN Idle ELSE Answered(c, ReadBy(c), FALSE)
<1>1. /\ Step(c) = "reading" /\ ReadBy(c) # NoSnapshot
      /\ seerrCallers' = [seerrCallers EXCEPT ![c] = call]
      /\ seerrSnapshot' = ReadBy(c) /\ seerrLock' = NoSnapshot /\ seerrExpired' = FALSE
      /\ UNCHANGED <<seerrVersion, seerrConfigured>>
  BY DEF RefreshStores
<1>2. seerrCallers[c] \in Calls /\ ReadBy(c) \in Versions
  BY <1>1 DEF SeerrInv, SeerrTypeOK, Calls, ReadBy
<1>3. call \in Calls
  BY <1>2, IdleTyped, AnsweredTyped
<1>4. /\ call.step \in {"idle", "answered"} /\ call.read = NoSnapshot
      /\ call.step = "answered" => call.answer = ReadBy(c) /\ call.asked = seerrCallers[c].asked
      /\ call.asked \in {0, seerrCallers[c].asked}
  BY <1>2 DEF Idle, Answered, Calls
<1> HIDE DEF call
<1>5. \A b \in Refreshers : seerrCallers'[b] = IF b = c THEN call ELSE seerrCallers[b]
  BY <1>1 DEF SeerrInv, SeerrTypeOK
<1>6. SeerrTypeOK'
  BY <1>1, <1>2, <1>3 DEF SeerrInv, SeerrTypeOK
<1>7. \A b \in Refreshers \ {c} : Step(b) # "reading" /\ ReadBy(b) = NoSnapshot
  BY <1>1 DEF SeerrInv, LockOfReader, Ordered
<1>8. LockOfReader'
  BY <1>1, <1>4, <1>5, <1>7 DEF LockOfReader, Step
<1>9. /\ seerrCallers[c].asked <= ReadBy(c) /\ ReadBy(c) <= seerrVersion
      /\ seerrSnapshot # NoSnapshot => seerrSnapshot <= ReadBy(c)
  BY <1>1 DEF SeerrInv, Ordered
<1>10. \A b \in Refreshers : Ordered(b)'
  BY <1>1, <1>4, <1>5, <1>7, SeerrAssumption
  DEF SeerrInv, SeerrTypeOK, Ordered, Step, ReadBy, Versions
<1>11. FreshIsFresh'
  BY <1>1, <1>2, <1>4, <1>5, <1>9 DEF SeerrInv, SeerrTypeOK, FreshIsFresh, Step, Refreshers, Calls, Versions
<1>12. seerrSnapshot # NoSnapshot => seerrSnapshot' # NoSnapshot /\ seerrSnapshot' >= seerrSnapshot
  BY <1>1, <1>2, <1>9 DEF SeerrInv, SeerrTypeOK, Versions
<1> QED
  BY <1>1, <1>6, <1>8, <1>9, <1>10, <1>11, <1>12 DEF SeerrInv

\* Every step keeps the invariant, and the snapshot does not go back.
LEMMA SeerrNextInv ==
    ASSUME SeerrInv, [SeerrNext]_seerrVars
    PROVE  /\ SeerrInv'
           /\ seerrSnapshot # NoSnapshot => seerrSnapshot' # NoSnapshot /\ seerrSnapshot' >= seerrSnapshot
<1>1. seerrSnapshot \in Nat \cup {NoSnapshot}
  BY SeerrAssumption DEF SeerrInv, SeerrTypeOK, Versions
<1>2. ASSUME RequestsChange \/ SeerrToggled \/ SnapshotExpires
      PROVE  SeerrInv' /\ UNCHANGED seerrSnapshot
  <2>1. UNCHANGED seerrSnapshot
    BY <1>2 DEF RequestsChange, SeerrToggled, SnapshotExpires, seerrCache
  <2> QED
    BY <1>2, <2>1, WorldInv
<1>3. ASSUME NEW c \in Callers, Ask(c) PROVE SeerrInv' /\ UNCHANGED seerrSnapshot
  BY <1>3, ServedInv, QueuedInv DEF Ask, seerrCache
<1>4. ASSUME NEW c \in Refreshers, RefreshBegins(c) PROVE SeerrInv' /\ UNCHANGED seerrSnapshot
  BY <1>4, BeginsInv DEF RefreshBegins
<1>5. ASSUME NEW c \in Refreshers, RefreshRefused(c) PROVE SeerrInv' /\ UNCHANGED seerrSnapshot
  BY <1>5, RefusedInv DEF RefreshRefused, seerrCache
<1>6. ASSUME NEW c \in Refreshers, RefreshReads(c) PROVE SeerrInv' /\ UNCHANGED seerrSnapshot
  BY <1>6, ReadsInv DEF RefreshReads, seerrCache
<1>7. ASSUME NEW c \in Refreshers, RefreshFails(c) PROVE SeerrInv' /\ UNCHANGED seerrSnapshot
  BY <1>7, RefusedInv DEF RefreshFails
<1>8. CASE UNCHANGED seerrVars
  BY <1>1, <1>8
  DEF seerrVars, seerrCache, SeerrInv, SeerrTypeOK, LockOfReader, Ordered, FreshIsFresh, Step, ReadBy
<1> QED
  BY <1>1, <1>2, <1>3, <1>4, <1>5, <1>6, <1>7, <1>8, StoresInv DEF SeerrNext

\* The invariant of the snapshot holds in every reachable state.
THEOREM SeerrInvariance == SeerrSpec => []SeerrInv
  BY SeerrInitInv, SeerrNextInv, PTL DEF SeerrSpec

\* For any number of scans and previews, a caller that asks for fresh data and
\* gets it gets requests at least as new as its question (get_request_snapshot).
THEOREM FreshGetsFresh == SeerrSpec => []FreshIsFresh
<1>1. SeerrInv => FreshIsFresh
  BY DEF SeerrInv
<1> QED
  BY <1>1, SeerrInvariance, PTL

\* The snapshot never goes back to older requests (_refresh_request_snapshot).
THEOREM NeverOlder == SeerrSpec => SnapshotNeverOlder
<1>1. SeerrInv /\ [SeerrNext]_seerrVars =>
         [seerrSnapshot # NoSnapshot => seerrSnapshot' # NoSnapshot /\ seerrSnapshot' >= seerrSnapshot]_seerrVars
  BY SeerrNextInv
<1> QED
  BY <1>1, SeerrInvariance, PTL DEF SeerrSpec, SnapshotNeverOlder

-----------------------------------------------------------------------------
(* The favorites.                                                          *)

\* What a refresh may not drop is what its users still hold.
SureIsHeld == favRefresh.running => Rows \ Held \subseteq unsure

\* At a server, whose accounts with rows it may not drop are asked, have
\* failed, or have answered with those rows; elsewhere nobody is left to ask.
AccountsAsked ==
    LET at == favRefresh.at
    IN  /\ at = NoServer => favRefresh.toAsk = {}
        /\ at # NoServer => favRefresh.running
        /\ at # NoServer => \A r \in Rows \ unsure : AccountServer[r.account] = at =>
              r.account \in favRefresh.toAsk \cup favRefresh.answered \cup favRefresh.failed
        /\ at # NoServer => \A r \in Rows \ unsure :
              r.account \in favRefresh.answered => r \in favRefresh.got

FavInv == FavTypeOK /\ SureIsHeld /\ AccountsAsked

\* The invariant holds at the start.
LEMMA FavInitInv == FavInit => FavInv
  BY FavAssumption
  DEF FavInit, FavInv, FavTypeOK, SureIsHeld, AccountsAsked, NoFavRefresh

\* What users and administrators change is no longer sure.
LEMMA ChangeInv ==
    ASSUME FavInv, Change, favorites' \subseteq Rows, linked' \subseteq Accounts,
           favEnabled' \subseteq FavServers
    PROVE  FavInv'
<1>1. FavTypeOK'
  BY DEF Change, FavInv, FavTypeOK
<1>2. SureIsHeld'
  BY DEF Change, SureIsHeld
<1>3. unsure' \subseteq Rows /\ (favRefresh.at # NoServer => unsure \subseteq unsure')
  BY <1>1 DEF Change, FavInv, FavTypeOK, AccountsAsked
<1>4. AccountsAsked'
  BY <1>3 DEF Change, FavInv, AccountsAsked
<1> QED
  BY <1>1, <1>2, <1>4 DEF FavInv

\* So it is for every favorite, account and server that changes.
LEMMA TogglesInv ==
    ASSUME FavInv,
           \/ \E r \in Rows : FavoriteToggled(r)
           \/ \E c \in Accounts : AccountToggled(c)
           \/ \E s \in FavServers : FavServerToggled(s)
    PROVE  FavInv'
<1>1. CASE \E r \in Rows : FavoriteToggled(r)
  BY <1>1, ChangeInv DEF FavoriteToggled, FavInv, FavTypeOK
<1>2. CASE \E c \in Accounts : AccountToggled(c)
  BY <1>2, ChangeInv DEF AccountToggled, FavInv, FavTypeOK
<1>3. CASE \E s \in FavServers : FavServerToggled(s)
  BY <1>3, ChangeInv DEF FavServerToggled, FavInv, FavTypeOK
<1> QED
  BY <1>1, <1>2, <1>3

\* A refresh starts out sure of what is held, at no server.
LEMMA RefreshWithInv ==
    ASSUME FavInv, NEW servers \in SUBSET FavServers, RefreshWith(servers),
           favLoaded' \in {favLoaded, {}}
    PROVE  FavInv'
<1>1. CASE servers = {}
  BY <1>1 DEF RefreshWith, FavInv, FavTypeOK, SureIsHeld, AccountsAsked, Held, favWorld
<1>2. CASE servers # {}
  <2>1. favRefresh' = [NoFavRefresh EXCEPT !.running = TRUE, !.left = servers]
        /\ unsure' = Rows \ Held /\ UNCHANGED <<favWorld, favRows, favAge>>
    BY <1>2 DEF RefreshWith
  <2>2. FavTypeOK'
    BY <2>1 DEF FavInv, FavTypeOK, NoFavRefresh, favWorld
  <2>3. SureIsHeld' /\ AccountsAsked'
    BY <2>1 DEF SureIsHeld, AccountsAsked, NoFavRefresh, Held, favWorld
  <2> QED
    BY <2>2, <2>3 DEF FavInv
<1> QED
  BY <1>1, <1>2

\* Every account of the server that holds something is asked.
LEMMA AskServerInv ==
    ASSUME FavInv, NEW s \in FavServers, AskServer(s)
    PROVE  FavInv'
<1>1. FavTypeOK'
  BY FavAssumption DEF AskServer, FavInv, FavTypeOK, AccountsOf, favWorld
<1>2. SureIsHeld'
  BY DEF AskServer, FavInv, FavTypeOK, SureIsHeld, Held, favWorld
<1>3. \A r \in Rows \ unsure : r.account \in linked /\ r.account \in Accounts
  BY DEF AskServer, FavInv, SureIsHeld, Held, RowsOf, Rows
<1>4. AccountsAsked'
  BY <1>3, FavAssumption DEF AskServer, FavInv, FavTypeOK, AccountsAsked, AccountsOf, favWorld
<1> QED
  BY <1>1, <1>2, <1>4 DEF FavInv

\* An account that answers gives all it holds but what is missed.
LEMMA AnswersInv ==
    ASSUME FavInv, NEW c \in Accounts, NEW missed \in SUBSET Rows, AccountAnswers(c, missed)
    PROVE  FavInv'
<1> DEFINE got == (favorites \cap RowsOf({c})) \ missed
<1>1. FavTypeOK'
  BY DEF AccountAnswers, FavInv, FavTypeOK, RowsOf, favWorld
<1>2. SureIsHeld'
  BY DEF AccountAnswers, FavInv, FavTypeOK, SureIsHeld, Held, favWorld
<1>3. \A r \in Rows \ unsure' : r.account = c => r \in got
  BY DEF AccountAnswers, FavInv, AccountsAsked, SureIsHeld, Held, RowsOf
<1>4. AccountsAsked'
  BY <1>3 DEF AccountAnswers, FavInv, FavTypeOK, AccountsAsked, favWorld
<1> QED
  BY <1>1, <1>2, <1>4 DEF FavInv

\* A user or a server that fails takes nothing from it.
LEMMA FailsInv ==
    ASSUME FavInv, (\E c \in Accounts : WatchlistFails(c)) \/ FavServerFails
    PROVE  FavInv'
<1>1. ASSUME NEW c \in Accounts, WatchlistFails(c) PROVE FavInv'
  <2>1. FavTypeOK'
    BY <1>1 DEF WatchlistFails, FavInv, FavTypeOK, favWorld
  <2>2. SureIsHeld'
    BY <1>1 DEF WatchlistFails, FavInv, FavTypeOK, SureIsHeld, Held, favWorld
  <2>3. favRefresh.toAsk # {} /\ favRefresh.at # NoServer
    BY <1>1, FavAssumption DEF WatchlistFails
  <2>4. AccountsAsked'
    BY <1>1, <2>3 DEF WatchlistFails, FavInv, FavTypeOK, AccountsAsked, favWorld
  <2> QED
    BY <2>1, <2>2, <2>4 DEF FavInv
<1>2. CASE FavServerFails
  BY <1>2, FavAssumption
  DEF FavServerFails, FavInv, FavTypeOK, SureIsHeld, AccountsAsked, Held, favWorld
<1> QED
  BY <1>1, <1>2

\* Writing the rows of a server ends the questions to it.
LEMMA WrittenInv ==
    ASSUME FavInv, ServerWritten
    PROVE  FavInv'
<1>1. favRows' \subseteq Rows
  BY DEF ServerWritten, StaleRows, FavInv, FavTypeOK
<1> QED
  BY <1>1 DEF ServerWritten, FavInv, FavTypeOK, SureIsHeld, AccountsAsked, Held, favWorld

\* A refresh that ends, fails or is stopped leaves nothing to be sure of.
LEMMA FavEndsInv ==
    ASSUME FavInv, FavRefreshEnds \/ FavRefreshFails \/ FavRestarts
    PROVE  FavInv'
<1>1. favRefresh' = NoFavRefresh /\ unsure' = {} /\ UNCHANGED <<favWorld, favRows>>
      /\ favAge' \in {"never", "recent", "old"} /\ favLoaded' \in {favLoaded, {}}
  BY DEF FavRefreshEnds, FavRefreshFails, FavRestarts, FavInv, FavTypeOK
<1> QED
  BY <1>1 DEF FavInv, FavTypeOK, SureIsHeld, AccountsAsked, NoFavRefresh, favWorld

\* Every step keeps the invariant.
LEMMA FavNextInv == FavInv /\ [FavNext]_favVars => FavInv'
<1> SUFFICES ASSUME FavInv, [FavNext]_favVars PROVE FavInv'
  OBVIOUS
<1>1. CASE SnapshotAges \/ SyncLoadsServers \/ UNCHANGED favVars
  BY <1>1
  DEF SnapshotAges, SyncLoadsServers, favVars, favWorld, FavInv, FavTypeOK, SureIsHeld,
      AccountsAsked, Held
<1>2. CASE (\E force \in BOOLEAN : EnsureRefreshes(force)) \/ SyncRefreshes
  BY <1>2, RefreshWithInv DEF EnsureRefreshes, SyncRefreshes, FavInv, FavTypeOK
<1> QED
  BY <1>1, <1>2, TogglesInv, AskServerInv, AnswersInv, FailsInv, WrittenInv, FavEndsInv DEF FavNext

\* The invariant of the favorites holds in every reachable state.
THEOREM FavInvariance == FavSpec => []FavInv
  BY FavInitInv, FavNextInv, PTL DEF FavSpec

\* With any servers, users and titles, a favorite held all through a refresh
\* stays in the snapshot, whatever fails (refresh_snapshot).
THEOREM FavoritesStay == FavSpec => FavoritesOutliveFailures
<1>1. ASSUME FavInv, FavNext, favRefresh.running
      PROVE  favRows \ favRows' \subseteq unsure
  <2>1. CASE ServerWritten
    <3>1. favRefresh.at # NoServer /\ favRefresh.toAsk = {}
      BY <2>1 DEF ServerWritten
    <3> SUFFICES ASSUME NEW r \in favRows \ favRows', r \notin unsure PROVE FALSE
      OBVIOUS
    <3>2. r \in Rows \ unsure /\ AccountServer[r.account] = favRefresh.at
          /\ r \notin favRefresh.got /\ r \notin StaleRows
      BY <2>1 DEF ServerWritten, RowsOf, AccountsOf, FavInv, FavTypeOK
    <3>3. r.account \in favRefresh.answered \cup favRefresh.failed
      BY <1>1, <3>1, <3>2 DEF FavInv, AccountsAsked
    <3>4. r.account \notin favRefresh.failed
      BY <3>2 DEF StaleRows, RowsOf
    <3> QED
      BY <1>1, <3>1, <3>2, <3>3, <3>4 DEF FavInv, AccountsAsked
  <2>2. CASE UNCHANGED favRows
    BY <2>2
  <2> QED
    BY <1>1, <2>1, <2>2
    DEF FavNext, FavoriteToggled, AccountToggled, FavServerToggled, Change, SnapshotAges,
        EnsureRefreshes, SyncLoadsServers, SyncRefreshes, RefreshWith, AskServer, AccountAnswers,
        WatchlistFails, FavServerFails, FavRefreshEnds, FavRefreshFails, FavRestarts
<1>2. FavInv /\ [FavNext]_favVars =>
         [favRefresh.running => favRows \ favRows' \subseteq unsure]_favVars
  BY <1>1
<1> QED
  BY <1>2, FavInvariance, PTL DEF FavSpec, FavoritesOutliveFailures

-----------------------------------------------------------------------------
(* The plays of the users and the rows made from them.                      *)

\* The refreshes of the watch rows that there can be.
WatchRecords ==
    [by : {"nobody", "sync", "request"}, state : SyncStates, full : BOOLEAN, now : Days, read : Reads]

\* A play reported in time, and one that the rows have.
InTime(h) == h.reported <= h.at + Overlap
InRows(h) == watchRows[h.key] # NoDay /\ watchRows[h.key] >= h.at

\* Plex reports in order: what has one play has all of the days before.
ReportedInOrder(plays) == \A g \in plays, h \in history : h.reported < g.reported => h \in plays

\* All that was reported before the day.
HasBefore(plays, d) == \A h \in history : h.reported < d => h \in plays

\* The cursors that are written in the settings or held by a refresh or a sync.
Cursors == {state.viewed : state \in {watchState, watchRefresh.state} \cup syncState} \ {NoDay}

\* A play is reported on its day or later.
HistoryIsPast == \A h \in history : h.at <= h.reported /\ h.reported <= day

\* The cache is of the day, and is the whole history unless a page was missed.
CacheIsFresh ==
    watchCache.known =>
        /\ HasBefore(watchCache.of, day)
        /\ ReportedInOrder(watchCache.of)
        /\ watchCache.plays \subseteq watchCache.of
        /\ watchCache.whole => watchCache.plays = watchCache.of

\* What a refresh has read, from its cursor on.
ReadIsComplete ==
    watchRefresh.by # "nobody" =>
        LET read == watchRefresh.read
        IN  /\ ReportedInOrder(read.of)
            /\ \A v \in Cursors : HasBefore(read.of, v)
            /\ ~watchRefresh.full => watchRefresh.state.viewed # NoDay
            /\ read.plays \subseteq read.of
            /\ read.whole /\ watchRefresh.full => read.plays = read.of
            /\ read.whole /\ ~watchRefresh.full =>
                  \A h \in read.of : h.at >= Cutoff(watchRefresh.state.viewed) => h \in read.plays

\* No cursor is ahead of what the rows were made from.
CursorsBehind ==
    \A v \in Cursors : v <= day /\ HasBefore(covered, v)

\* The inductive invariant.
WatchInv ==
    /\ WatchTypeOK
    /\ watchRefresh \in WatchRecords
    /\ watchRefresh = NoRefresh \/ watchRefresh.by # "nobody"
    /\ HistoryIsPast
    /\ CacheIsFresh
    /\ ReadIsComplete
    /\ CursorsBehind
    /\ WatchComplete

\* The last of some days is one of them, and none is later.
LEMMA LastOfDays ==
    ASSUME NEW days \in SUBSET Days
    PROVE  /\ days = {} => LastOf(days) = NoDay
           /\ days # {} => LastOf(days) \in days /\ \A e \in days : e <= LastOf(days)
<1>1. CASE days = {}
  BY <1>1 DEF LastOf
<1>2. CASE days # {}
  <2> DEFINE T == {MaxDay - d : d \in days}
  <2>1. MaxDay \in Nat /\ \A d \in days : d \in Nat /\ d <= MaxDay
    BY WatchAssumption DEF Days
  <2>2. T \subseteq Nat /\ T # {}
    BY <1>2, <2>1
  <2>3. PICK t \in T : \A u \in T : ~(<<u, t>> \in OpToRel(<, Nat))
    <3> HIDE DEF T
    <3> QED
      BY <2>2, NatLessThanWellFounded, WFMin
  <2>4. \A u \in T : ~(u < t)
    BY <2>2, <2>3 DEF OpToRel
  <2>5. PICK d \in days : t = MaxDay - d
    OBVIOUS
  <2>6. ASSUME NEW e \in days PROVE e <= d
    <3>1. ~(MaxDay - e < MaxDay - d)
      BY <2>4, <2>5
    <3> QED
      BY <2>1, <3>1
  <2> QED
    BY <1>2, <2>6 DEF LastOf
<1> QED
  BY <1>1, <1>2

\* A time that is moved on is one of the two and not before either.
LEMMA LaterDay ==
    ASSUME NEW a \in Days \cup {NoDay}, NEW b \in Days \cup {NoDay}
    PROVE  /\ Later(a, b) \in {a, b}
           /\ a # NoDay => Later(a, b) # NoDay /\ Later(a, b) >= a
           /\ b # NoDay => Later(a, b) # NoDay /\ Later(a, b) >= b
  BY WatchAssumption DEF Later, Days

\* Nothing is read from no plays.
LEMMA NothingReadTyped == NoRead \in Reads /\ NoRead \in Reads' /\ NoState \in SyncStates /\ 0 \in Days
  BY WatchAssumption DEF NoRead, Reads, NoState, SyncStates, Days

\* The record of no refresh is one.
LEMMA NoRefreshTyped == NoRefresh \in WatchRecords /\ NoRefresh \in WatchRecords'
  BY NothingReadTyped DEF NoRefresh, WatchRecords

\* The invariant holds at the start.
LEMMA WatchInitInv == WatchInit => WatchInv
<1> SUFFICES ASSUME WatchInit PROVE WatchInv
  OBVIOUS
<1>1. WatchTypeOK
  BY NothingReadTyped, NoRefreshTyped DEF WatchInit, WatchTypeOK, NoRefresh
<1>2. Cursors = {}
  BY DEF WatchInit, Cursors, NoState, NoRefresh
<1>3. HistoryIsPast /\ CacheIsFresh /\ ReadIsComplete /\ CursorsBehind /\ WatchComplete
  BY <1>2 DEF WatchInit, HistoryIsPast, CacheIsFresh, ReadIsComplete, CursorsBehind, WatchComplete,
              NoRead, NoRefresh
<1> QED
  BY <1>1, <1>3, NoRefreshTyped DEF WatchInv, WatchInit

\* A play that is reported today hides none of the days before.
LEMMA PlayReportedInv ==
    ASSUME WatchInv, NEW k \in Keys, NEW late \in 0..MaxLate, PlayReported(k, late)
    PROVE  WatchInv'
<1> DEFINE play == [key |-> k, at |-> day - late, reported |-> day]
<1>1. /\ history' = history \cup {play} /\ play \in Plays
      /\ play.at <= day /\ play.reported = day
      /\ UNCHANGED <<day, watchRows, watchState, syncState, watchCache, watchRefresh, gap, covered>>
  BY WatchAssumption DEF PlayReported, watchConfig, Plays, Days, WatchInv, WatchTypeOK
<1> HIDE DEF play
<1>2. Reads \subseteq Reads' /\ WatchRecords \subseteq WatchRecords'
  BY <1>1 DEF Reads, WatchRecords
<1>3. WatchTypeOK' /\ watchRefresh' \in WatchRecords'
  BY <1>1, <1>2 DEF WatchInv, WatchTypeOK
<1>4. HistoryIsPast'
  BY <1>1, WatchAssumption DEF WatchInv, WatchTypeOK, HistoryIsPast, Days
<1>5. \A d \in Days : d <= day => \A S : HasBefore(S, d) => HasBefore(S, d)'
  BY <1>1, WatchAssumption DEF HasBefore, Days, WatchInv, WatchTypeOK
<1>6. \A S \in SUBSET history : ReportedInOrder(S) => ReportedInOrder(S)'
  BY <1>1, WatchAssumption DEF ReportedInOrder, Days, Plays, WatchInv, WatchTypeOK, HistoryIsPast
<1>7. Cursors' = Cursors /\ Cursors \subseteq Days /\ \A v \in Cursors : v <= day
  BY <1>1 DEF Cursors, WatchInv, WatchTypeOK, SyncStates, CursorsBehind
<1>8. watchCache.of \subseteq history /\ watchRefresh.read.of \subseteq history /\ day \in Days
      /\ day <= day
  BY WatchAssumption DEF WatchInv, WatchTypeOK, Reads, Days
<1>9. CacheIsFresh'
  BY <1>1, <1>5, <1>6, <1>8 DEF WatchInv, CacheIsFresh
<1>10. ReadIsComplete'
  BY <1>1, <1>5, <1>6, <1>7, <1>8 DEF WatchInv, ReadIsComplete
<1>11. CursorsBehind'
  BY <1>1, <1>5, <1>7 DEF WatchInv, CursorsBehind
<1>12. WatchComplete'
  BY <1>1 DEF WatchInv, WatchComplete
<1> QED
  BY <1>1, <1>3, <1>4, <1>9, <1>10, <1>11, <1>12 DEF WatchInv

\* The clock, the cache and the settings take cursors and the cache away.
LEMMA WatchWorldInv ==
    ASSUME WatchInv, DayPasses \/ CacheExpires \/ ServerSaved \/ ServersLoaded
    PROVE  WatchInv'
<1>1. /\ UNCHANGED <<history, watchRows, watchRefresh, gap, covered>>
      /\ watchCache' \in {watchCache, NoRead}
      /\ day' \in Days /\ day' >= day /\ (watchCache' = NoRead \/ day' = day)
      /\ {watchState'} \cup syncState' \subseteq {watchState, NoState} \cup syncState
  BY WatchAssumption
  DEF DayPasses, CacheExpires, ServerSaved, ServersLoaded, watchConfig, WatchInv, WatchTypeOK, Days
<1>2. Reads' = Reads /\ WatchRecords' = WatchRecords
  BY <1>1 DEF Reads, WatchRecords
<1>3. WatchTypeOK' /\ watchRefresh' \in WatchRecords'
  BY <1>1, <1>2, NothingReadTyped DEF WatchInv, WatchTypeOK
<1>4. HistoryIsPast'
  BY <1>1, WatchAssumption DEF WatchInv, WatchTypeOK, HistoryIsPast, Days, Plays
<1>5. Cursors' \subseteq Cursors
  BY <1>1 DEF Cursors, NoState
<1>6. CacheIsFresh'
  BY <1>1 DEF WatchInv, CacheIsFresh, NoRead, HasBefore, ReportedInOrder
<1>7. ReadIsComplete'
  BY <1>1, <1>5 DEF WatchInv, ReadIsComplete, HasBefore, ReportedInOrder
<1>8. CursorsBehind'
  <2>1. Cursors \subseteq Days
    BY DEF Cursors, WatchInv, WatchTypeOK, SyncStates
  <2> QED
    BY <1>1, <1>5, <2>1, WatchAssumption DEF WatchInv, WatchTypeOK, CursorsBehind, HasBefore, Days
<1>9. WatchComplete'
  BY <1>1 DEF WatchInv, WatchComplete
<1> QED
  BY <1>1, <1>3, <1>4, <1>6, <1>7, <1>8, <1>9 DEF WatchInv

\* What a fetch returns: all of the history of today from the cutoff on, unless
\* a page was missed.
LEMMA FetchGives ==
    ASSUME WatchInv, NEW cutoff \in Days \cup {NoDay}, NEW floors
    PROVE  LET read == FetchFrom(cutoff, floors)
           IN  /\ read \in Reads /\ read.known /\ read.of = history
               /\ read.plays \subseteq read.of
               /\ read.whole => \A h \in read.of :
                     cutoff = NoDay \/ h.at >= cutoff => h \in read.plays
  BY DEF FetchFrom, Reads

\* The whole history, fetched or from the cache, has all of the days before.
LEMMA WholeHistoryGives ==
    ASSUME WatchInv, NEW floors
    PROVE  LET read == WholeHistory(floors)
           IN  /\ read \in Reads /\ read.known
               /\ HasBefore(read.of, day) /\ ReportedInOrder(read.of)
               /\ read.plays \subseteq read.of
               /\ read.whole => read.plays = read.of
<1>1. CASE watchCache.known
  BY <1>1 DEF WholeHistory, WatchInv, WatchTypeOK, CacheIsFresh
<1>2. CASE ~watchCache.known
  <2>1. WholeHistory(floors) = FetchFrom(NoDay, floors)
    BY <1>2 DEF WholeHistory
  <2>2. HasBefore(history, day) /\ ReportedInOrder(history)
    BY DEF HasBefore, ReportedInOrder
  <2> QED
    BY <2>1, <2>2, FetchGives
<1> QED
  BY <1>1, <1>2

\* The history is aggregated for a library sync.
LEMMA HistoryAggregatedInv ==
    ASSUME WatchInv, NEW floors, HistoryAggregated(floors)
    PROVE  WatchInv'
<1> DEFINE read == WholeHistory(floors)
<1>1. /\ watchCache' = read
      /\ UNCHANGED <<day, history, watchRows, watchState, syncState, watchRefresh, gap, covered>>
  BY DEF HistoryAggregated, watchConfig
<1>2. /\ read \in Reads /\ HasBefore(read.of, day) /\ ReportedInOrder(read.of)
      /\ read.plays \subseteq read.of
      /\ read.whole => read.plays = read.of
  BY WholeHistoryGives
<1> HIDE DEF read
<1>3. Reads' = Reads /\ WatchRecords' = WatchRecords /\ Cursors' = Cursors
  BY <1>1 DEF Reads, WatchRecords, Cursors
<1>4. WatchTypeOK' /\ watchRefresh' \in WatchRecords'
  BY <1>1, <1>2, <1>3 DEF WatchInv, WatchTypeOK
<1>5. CacheIsFresh'
  BY <1>1, <1>2 DEF CacheIsFresh, HasBefore, ReportedInOrder
<1>6. HistoryIsPast' /\ ReadIsComplete' /\ CursorsBehind' /\ WatchComplete'
  BY <1>1, <1>3
  DEF WatchInv, HistoryIsPast, ReadIsComplete, CursorsBehind, WatchComplete, HasBefore, ReportedInOrder
<1> QED
  BY <1>1, <1>4, <1>5, <1>6 DEF WatchInv

\* The overlap is taken off a day.
LEMMA CutoffDay ==
    ASSUME NEW v \in Days
    PROVE  Cutoff(v) \in Days /\ \A d \in Days : d < Cutoff(v) => d + Overlap < v
  BY WatchAssumption DEF Cutoff, Days

\* A refresh reads from its cursor on, or all.
LEMMA HistoryReadInv ==
    ASSUME WatchInv, NEW by \in {"sync", "request"}, NEW floors,
           NEW state \in {watchState} \cup syncState, HistoryRead(by, state, floors),
           syncState' \in {syncState, {}}
    PROVE  WatchInv'
<1> DEFINE full == NeedsRebuild(state)
           read == watchRefresh'.read
<1>1. /\ watchRefresh = NoRefresh
      /\ watchRefresh' = [by |-> by, state |-> state, full |-> full, now |-> day, read |-> read]
      /\ watchCache' = IF full THEN read ELSE watchCache
      /\ read = IF full THEN WholeHistory(floors) ELSE FetchFrom(Cutoff(state.viewed), floors)
      /\ UNCHANGED <<day, history, watchRows, watchState, gap, covered>>
  BY DEF HistoryRead
<1>2. state \in SyncStates /\ full \in BOOLEAN /\ (~full => state.viewed \in Days)
  BY DEF WatchInv, WatchTypeOK, SyncStates, NeedsRebuild
<1>3. /\ read \in Reads /\ HasBefore(read.of, day) /\ ReportedInOrder(read.of)
      /\ read.plays \subseteq read.of
      /\ read.whole /\ full => read.plays = read.of
      /\ read.whole /\ ~full => \A h \in read.of : h.at >= Cutoff(state.viewed) => h \in read.plays
  <2>1. CASE full
    BY <1>1, <2>1, WholeHistoryGives
  <2>2. CASE ~full
    <3>1. Cutoff(state.viewed) \in Days
      BY <1>2, <2>2, CutoffDay
    <3>2. HasBefore(history, day) /\ ReportedInOrder(history)
      BY DEF HasBefore, ReportedInOrder
    <3> QED
      BY <1>1, <2>2, <3>1, <3>2, FetchGives
  <2> QED
    BY <2>1, <2>2
<1> HIDE DEF full, read
<1>4. Reads' = Reads /\ WatchRecords' = WatchRecords
  BY <1>1 DEF Reads, WatchRecords
<1>5. WatchTypeOK' /\ watchRefresh' \in WatchRecords'
  BY <1>1, <1>2, <1>3, <1>4 DEF WatchInv, WatchTypeOK, WatchRecords
<1>6. Cursors' \subseteq Cursors
  BY <1>1 DEF Cursors
<1>7. CacheIsFresh'
  BY <1>1, <1>3 DEF WatchInv, CacheIsFresh, HasBefore, ReportedInOrder
<1>8. \A v \in Cursors' : HasBefore(read.of, v)
  <2>1. Cursors \subseteq Days /\ \A v \in Cursors : v <= day
    BY DEF Cursors, WatchInv, WatchTypeOK, SyncStates, CursorsBehind
  <2>2. \A h \in history : h.reported \in Days
    BY DEF WatchInv, WatchTypeOK, Plays
  <2> QED
    BY <1>3, <1>6, <2>1, <2>2, WatchAssumption DEF HasBefore, Days, WatchInv, WatchTypeOK
<1>9. ReadIsComplete'
  <2>1. /\ watchRefresh'.read = read /\ watchRefresh'.full = full /\ watchRefresh'.state = state
    BY <1>1
  <2>2. state.viewed # NoDay \/ full
    BY <1>2, WatchAssumption DEF Days
  <2> QED
    BY <1>1, <1>3, <1>8, <2>1, <2>2 DEF ReadIsComplete, HasBefore, ReportedInOrder
<1>10. HistoryIsPast' /\ CursorsBehind' /\ WatchComplete'
  BY <1>1, <1>6 DEF WatchInv, HistoryIsPast, CursorsBehind, WatchComplete, HasBefore
<1> QED
  BY <1>1, <1>5, <1>7, <1>9, <1>10 DEF WatchInv

\* A refresh that fails writes nothing.
LEMMA WatchFailsInv ==
    ASSUME WatchInv, WatchFails
    PROVE  WatchInv'
<1>1. /\ watchRefresh' = NoRefresh
      /\ UNCHANGED <<day, history, watchRows, watchState, syncState, watchCache, gap, covered>>
  BY DEF WatchFails, watchConfig
<1>2. Reads' = Reads /\ WatchRecords' = WatchRecords /\ Cursors' \subseteq Cursors
  BY <1>1 DEF Reads, WatchRecords, Cursors, NoRefresh, NoState
<1>3. WatchTypeOK' /\ watchRefresh' \in WatchRecords'
  BY <1>1, <1>2, NoRefreshTyped DEF WatchInv, WatchTypeOK, WatchRecords
<1>4. CacheIsFresh' /\ HistoryIsPast' /\ CursorsBehind' /\ WatchComplete'
  BY <1>1, <1>2
  DEF WatchInv, CacheIsFresh, HistoryIsPast, CursorsBehind, WatchComplete, HasBefore, ReportedInOrder
<1>5. ReadIsComplete'
  BY <1>1 DEF ReadIsComplete, NoRefresh
<1> QED
  BY <1>1, <1>3, <1>4, <1>5 DEF WatchInv

\* The last time a read has for a key.
SeenIn(plays, k) == LastOf({h.at : h \in {p \in plays : p.key = k}})

\* The rows have every play that is read, and lose none unless they are rebuilt.
LEMMA SeenRows ==
    ASSUME NEW plays \in SUBSET Plays, NEW k
    PROVE  /\ SeenIn(plays, k) \in Days \cup {NoDay}
           /\ \A h \in plays : h.key = k => SeenIn(plays, k) # NoDay /\ SeenIn(plays, k) >= h.at
<1> DEFINE days == {h.at : h \in {p \in plays : p.key = k}}
<1>1. days \in SUBSET Days /\ \A h \in plays : h.key = k => h.at \in days
  BY DEF Plays
<1>2. SeenIn(plays, k) = LastOf(days)
  BY DEF SeenIn
<1> HIDE DEF days
<1>3. \A d \in Days : d # NoDay
  BY WatchAssumption DEF Days
<1> QED
  BY <1>1, <1>2, <1>3, LastOfDays

\* The commit of a refresh.
LEMMA RefreshCommitsInv ==
    ASSUME WatchInv, RefreshCommits
    PROVE  WatchInv'
<1> DEFINE read == watchRefresh.read
           state == watchRefresh.state
           last == LastOf({h.at : h \in read.plays})
<1>1. /\ watchRefresh # NoRefresh /\ watchRefresh' = NoRefresh
      /\ watchRows' = [k \in Keys |->
             IF watchRefresh.full THEN SeenIn(read.plays, k)
             ELSE Later(watchRows[k], SeenIn(read.plays, k))]
      /\ watchState' = [viewed |-> Later(state.viewed, last),
                        full |-> IF watchRefresh.full THEN watchRefresh.now ELSE state.full]
      /\ gap' = (~read.whole \/ (gap /\ ~watchRefresh.full))
      /\ covered' = IF watchRefresh.full THEN read.of ELSE covered \cup read.of
      /\ UNCHANGED <<day, history, syncState, watchCache>>
  BY DEF RefreshCommits, SeenIn
<1>2. /\ watchRefresh \in WatchRecords /\ read \in Reads /\ state \in SyncStates
      /\ read.plays \in SUBSET Plays /\ read.of \subseteq history /\ read.whole \in BOOLEAN
      /\ read.plays \subseteq read.of /\ watchRefresh.by # "nobody"
      /\ watchRefresh.full \in BOOLEAN /\ gap \in BOOLEAN
  BY <1>1 DEF WatchInv, WatchTypeOK, WatchRecords, Reads, ReadIsComplete
<1>3. /\ last \in Days \cup {NoDay}
      /\ last # NoDay => \E g \in read.plays : g.at = last
  <2>1. {h.at : h \in read.plays} \in SUBSET Days
    BY <1>2 DEF Plays
  <2> QED
    BY <2>1, LastOfDays
<1> HIDE DEF read, state, last
<1>4. Reads' = Reads /\ WatchRecords' = WatchRecords
  BY <1>1 DEF Reads, WatchRecords
<1>5. /\ \A k \in Keys : SeenIn(read.plays, k) \in Days \cup {NoDay}
      /\ \A h \in read.plays : /\ SeenIn(read.plays, h.key) # NoDay
                               /\ SeenIn(read.plays, h.key) >= h.at
  BY <1>2, SeenRows
<1>6. watchState'.viewed \in {state.viewed, last} /\ watchState' \in SyncStates
  BY <1>1, <1>2, <1>3, LaterDay DEF SyncStates, WatchRecords
<1>7. WatchTypeOK' /\ watchRefresh' \in WatchRecords'
  <2>1. watchRows' \in [Keys -> Days \cup {NoDay}]
    BY <1>1, <1>5, LaterDay DEF WatchInv, WatchTypeOK
  <2>2. gap' \in BOOLEAN /\ covered' \subseteq history'
    BY <1>1, <1>2 DEF WatchInv, WatchTypeOK
  <2>3. watchRefresh'.state \in SyncStates /\ watchRefresh'.read \in Reads
    BY <1>1, NoRefreshTyped DEF WatchRecords
  <2> QED
    BY <1>1, <1>4, <1>6, <2>1, <2>2, <2>3, NoRefreshTyped DEF WatchInv, WatchTypeOK
<1>8. HistoryIsPast' /\ CacheIsFresh' /\ ReadIsComplete'
  BY <1>1 DEF WatchInv, HistoryIsPast, CacheIsFresh, ReadIsComplete, NoRefresh, HasBefore, ReportedInOrder
<1>9. Cursors' \subseteq Cursors \cup ({last} \ {NoDay})
  BY <1>1, <1>6 DEF Cursors, NoRefresh, NoState, state
<1>10. \A v \in Cursors : HasBefore(read.of, v)
  BY <1>2 DEF WatchInv, ReadIsComplete, read
<1>11. last # NoDay => last <= day /\ HasBefore(read.of, last)
  <2> SUFFICES ASSUME last # NoDay PROVE last <= day /\ HasBefore(read.of, last)
    OBVIOUS
  <2>1. PICK g \in read.plays : g.at = last
    BY <1>3
  <2>2. /\ g \in read.of /\ g \in history /\ g.at <= g.reported /\ g.reported <= day
        /\ \A h \in history : h.reported \in Nat
        /\ g.at \in Nat /\ g.reported \in Nat /\ day \in Nat
    BY <1>2, <2>1, WatchAssumption DEF WatchInv, WatchTypeOK, HistoryIsPast, Plays, Days
  <2>3. ReportedInOrder(read.of)
    BY <1>2 DEF WatchInv, ReadIsComplete, read
  <2> QED
    BY <2>1, <2>2, <2>3 DEF HasBefore, ReportedInOrder
<1>12. CursorsBehind'
  <2>1. \A v \in Cursors' : v <= day /\ HasBefore(read.of, v)
    BY <1>9, <1>10, <1>11 DEF WatchInv, CursorsBehind
  <2> QED
    BY <1>1, <2>1 DEF CursorsBehind, HasBefore
<1>13. WatchComplete'
  <2> SUFFICES ASSUME ~gap', NEW h \in covered', h.reported <= h.at + Overlap
               PROVE  watchRows'[h.key] # NoDay /\ watchRows'[h.key] >= h.at
    BY DEF WatchComplete
  <2>1. read.whole /\ (~gap \/ watchRefresh.full) /\ h \in history /\ h.key \in Keys /\ h.at \in Days
        /\ h.reported \in Days
    BY <1>1, <1>2 DEF WatchInv, WatchTypeOK, Plays
  <2>2. CASE watchRefresh.full
    <3>1. h \in read.plays
      BY <1>1, <1>2, <2>1, <2>2 DEF WatchInv, ReadIsComplete, read
    <3> QED
      BY <1>1, <1>5, <2>1, <2>2, <3>1
  <2>3. CASE ~watchRefresh.full
    <3>1. watchRows'[h.key] = Later(watchRows[h.key], SeenIn(read.plays, h.key))
      BY <1>1, <2>1, <2>3
    <3>2. /\ watchRows[h.key] \in Days \cup {NoDay}
          /\ SeenIn(read.plays, h.key) \in Days \cup {NoDay}
      BY <1>5, <2>1 DEF WatchInv, WatchTypeOK
    <3>3. CASE h \in read.plays
      <4>1. /\ SeenIn(read.plays, h.key) # NoDay /\ SeenIn(read.plays, h.key) >= h.at
            /\ watchRows'[h.key] # NoDay /\ watchRows'[h.key] >= SeenIn(read.plays, h.key)
            /\ watchRows'[h.key] \in {watchRows[h.key], SeenIn(read.plays, h.key)}
        BY <1>5, <3>1, <3>2, <3>3, LaterDay
      <4> QED
        BY <2>1, <3>2, <4>1, WatchAssumption DEF Days
    <3>4. CASE h \in covered
      <4>1. /\ watchRows[h.key] # NoDay /\ watchRows[h.key] >= h.at
            /\ watchRows'[h.key] # NoDay /\ watchRows'[h.key] >= watchRows[h.key]
            /\ watchRows'[h.key] \in {watchRows[h.key], SeenIn(read.plays, h.key)}
        BY <2>1, <2>3, <3>1, <3>2, <3>4, LaterDay DEF WatchInv, WatchComplete
      <4> QED
        BY <2>1, <3>2, <4>1, WatchAssumption DEF Days
    <3>5. CASE h \in read.of /\ h \notin read.plays
      <4>1. ~(h.at >= Cutoff(state.viewed)) /\ state.viewed \in Days
        BY <1>2, <2>1, <2>3, <3>5 DEF WatchInv, ReadIsComplete, SyncStates, read, state
      <4>2. h.at + Overlap < state.viewed
        BY <2>1, <4>1, CutoffDay, WatchAssumption DEF Days
      <4>3. h.reported < state.viewed
        BY <2>1, <4>1, <4>2, WatchAssumption DEF Days
      <4>4. state.viewed \in Cursors
        BY <4>1, WatchAssumption DEF Cursors, state, Days
      <4>5. h \in covered
        BY <2>1, <4>3, <4>4 DEF WatchInv, CursorsBehind, HasBefore
      <4> QED
        BY <3>4, <4>5
    <3> QED
      BY <1>1, <2>3, <3>3, <3>4, <3>5
  <2> QED
    BY <2>2, <2>3
<1> QED
  BY <1>1, <1>7, <1>8, <1>12, <1>13 DEF WatchInv

\* A step of another part changes nothing.
LEMMA WatchUnchanged ==
    ASSUME WatchInv, UNCHANGED watchVars
    PROVE  WatchInv'
<1>1. UNCHANGED <<day, history, watchRows, watchState, syncState, watchCache, watchRefresh, gap, covered>>
  BY DEF watchVars, watchConfig
<1>2. Reads' = Reads /\ WatchRecords' = WatchRecords /\ Cursors' = Cursors
  BY <1>1 DEF Reads, WatchRecords, Cursors
<1>3. WatchTypeOK' /\ HistoryIsPast' /\ CacheIsFresh' /\ ReadIsComplete' /\ CursorsBehind' /\ WatchComplete'
  BY <1>1, <1>2
  DEF WatchInv, WatchTypeOK, HistoryIsPast, CacheIsFresh, ReadIsComplete, CursorsBehind, WatchComplete,
      HasBefore, ReportedInOrder
<1> QED
  BY <1>1, <1>2, <1>3 DEF WatchInv

\* The inductive invariant of the watch snapshot holds in every reachable state of
\* refresh_snapshot.
THEOREM WatchInvariance == WatchSpec => []WatchInv
<1>1. WatchInv /\ [WatchNext]_watchVars => WatchInv'
  BY PlayReportedInv, WatchWorldInv, HistoryAggregatedInv, HistoryReadInv, WatchFailsInv,
     RefreshCommitsInv, WatchUnchanged
  DEF WatchNext, RequestReads, SyncReads
<1> QED
  BY WatchInitInv, <1>1, PTL DEF WatchSpec

\* With any users, titles, overlap and interval the rows miss no play that was
\* reported within the overlap, unless a page was missed (refresh_snapshot).
THEOREM NoPlayMissed == WatchSpec => []WatchComplete
<1>1. WatchInv => WatchComplete
  BY DEF WatchInv
<1> QED
  BY <1>1, WatchInvariance, PTL

-----------------------------------------------------------------------------
(* The playback events and the counts made from them.                       *)

\* The plays that are events.
Imported == {[item |-> e.item, at |-> e.at] : e \in pbEvents}
MappedPlays == {[item |-> e.item, at |-> e.at] : e \in {f \in pbEvents : f.mapped}}

\* Of a version: its plays imported while their item was in the library, and
\* the events that count.
MappedOf(i) == {p \in pbMapped : TitleOf[p.item] = TitleOf[i]}
EventsOf(i) == {e \in pbEvents : e.mapped /\ TitleOf[e.item] = TitleOf[i]}

\* The refreshes of the playback events that there can be.
PbRecords ==
    [step : Steps, force : BOOLEAN, since : Halves \cup {NoTime}, now : Halves,
     read : SUBSET AllPlays, of : SUBSET AllPlays, ok : BOOLEAN]

\* A play is one event, which is mapped when the play was imported in the library.
EventsAreUnique ==
    /\ \A e, f \in pbEvents : e.item = f.item /\ e.at = f.at => e = f
    /\ MappedPlays = pbMapped
    /\ pbKnown \subseteq Imported

\* What a refresh leaves out is an event already.
PlaysSeen ==
    pbState.success # NoTime =>
        /\ pbState.success <= pbNow
        /\ \A p \in pbPlays : p.at + PlayOverlap < pbState.success => p \in Imported

\* A refresh under way reads all that is not yet seen, and its store is near its read.
PlaysGathered ==
    /\ pbRefresh.step \in {"begun", "read"} => pbRefresh.since = Since(pbState.success)
    /\ pbRefresh.step = "read" =>
          /\ pbRefresh.now <= pbNow /\ pbNow <= pbRefresh.now + 1
          /\ pbRefresh.read =
                {p \in pbRefresh.of : pbRefresh.since = NoTime \/ p.at >= pbRefresh.since}
          /\ \A p \in pbPlays \ pbRefresh.of : p.at + PlayLength >= pbRefresh.now

\* The inductive invariant.
PbInv ==
    /\ PbTypeOK
    /\ pbRefresh \in PbRecords
    /\ IsFiniteSet(pbPlays)
    /\ EventsAreUnique
    /\ PlaysSeen
    /\ PlaysGathered
    /\ pbRefresh.step = "done" /\ pbRefresh.force =>
          \A i \in pbLibrary : pbCounts[i] = Cardinality(EventsOf(i))

\* The record of no refresh is one.
LEMMA NoPlayRefreshTyped ==
    /\ NoPlayRefresh \in PbRecords /\ 0 \in Halves
    /\ NoPlayRefresh.step = "idle" /\ ~NoPlayRefresh.force
    /\ NoPlayRefresh.read = {} /\ NoPlayRefresh.of = {}
  BY PlaybackAssumption DEF NoPlayRefresh, PbRecords, Steps, Halves

\* The lower end of a read is a time.
LEMMA SinceTyped ==
    ASSUME NEW success \in Halves \cup {NoTime}
    PROVE  /\ Since(success) \in Halves \cup {NoTime}
           /\ Since(success) = NoTime <=> success = NoTime
           /\ success # NoTime => \A t \in Halves :
                  t < Since(success) => t + PlayOverlap < success
  BY PlaybackAssumption DEF Since, Halves

\* The invariant holds at the start.
LEMMA PbInitInv == PbInit => PbInv
<1> SUFFICES ASSUME PbInit PROVE PbInv
  OBVIOUS
<1>1. PbTypeOK /\ pbRefresh \in PbRecords
  BY NoPlayRefreshTyped DEF PbInit, PbTypeOK, ProviderStates, NoPlayRefresh, Steps
<1>2. IsFiniteSet(pbPlays)
  BY FS_EmptySet DEF PbInit
<1>3. EventsAreUnique /\ PlaysSeen /\ PlaysGathered
  BY DEF PbInit, EventsAreUnique, PlaysSeen, PlaysGathered, NoPlayRefresh, MappedPlays, Imported
<1> QED
  BY <1>1, <1>2, <1>3 DEF PbInv, PbInit, NoPlayRefresh

\* A play that ends is not older than a play lasts.
LEMMA PlayEndsInv ==
    ASSUME PbInv, NEW i \in PlayItems, NEW late \in 0..PlayLength, PlayEnds(i, late)
    PROVE  PbInv'
<1> DEFINE play == [item |-> i, at |-> pbNow - late]
<1>1. /\ pbPlays' = pbPlays \cup {play} /\ play \in AllPlays /\ play.at = pbNow - late
      /\ play.at + PlayLength >= pbNow /\ pbNow \in Nat
  BY PlaybackAssumption DEF PlayEnds, AllPlays, Halves, PbInv, PbTypeOK
<1>2. pbRefresh' \in {pbRefresh, NoPlayRefresh} /\ (pbRefresh.step = "done" => pbRefresh' = NoPlayRefresh)
  BY DEF PlayEnds, Aged
<1>3. UNCHANGED <<pbNow, pbLibrary, pbEvents, pbCounts, pbState, pbKnown, pbMapped>>
  BY DEF PlayEnds, pbTables, pbGhosts
<1> HIDE DEF play
<1>4. PbTypeOK' /\ pbRefresh' \in PbRecords
  BY <1>1, <1>2, <1>3, NoPlayRefreshTyped DEF PbInv, PbTypeOK, Steps
<1>5. IsFiniteSet(pbPlays')
  BY <1>1, FS_AddElement DEF PbInv
<1>6. EventsAreUnique' /\ Imported' = Imported
  BY <1>3 DEF PbInv, EventsAreUnique, MappedPlays, Imported
<1>7. PlaysSeen'
  BY <1>1, <1>3, <1>6, PlaybackAssumption DEF PbInv, PbTypeOK, PlaysSeen, ProviderStates, Halves, AllPlays
<1>8. PlaysGathered'
  BY <1>1, <1>2, <1>3, PlaybackAssumption
  DEF PbInv, PbTypeOK, PbRecords, PlaysGathered, NoPlayRefresh, Halves, AllPlays
<1> QED
  BY <1>2, <1>3, <1>4, <1>5, <1>6, <1>7, <1>8 DEF PbInv, NoPlayRefresh

\* Time and the library change no event.
LEMMA PbWorldInv ==
    ASSUME PbInv, HalfPasses \/ IntervalPasses \/ \E i \in PlayItems : LibraryChanges(i)
    PROVE  PbInv'
<1>1. /\ pbRefresh' \in {pbRefresh, NoPlayRefresh}
      /\ UNCHANGED <<pbPlays, pbEvents, pbCounts, pbKnown, pbMapped>>
      /\ pbState'.success = pbState.success /\ pbState' \in ProviderStates
      /\ pbLibrary' \subseteq PlayItems
      /\ pbLibrary' = pbLibrary \/ pbRefresh'.step # "done"
  <2>1. CASE HalfPasses
    BY <2>1 DEF HalfPasses, Aged, pbGhosts, PbInv, PbTypeOK, ProviderStates
  <2>2. CASE IntervalPasses
    BY <2>2 DEF IntervalPasses, pbGhosts, PbInv, PbTypeOK, ProviderStates
  <2>3. ASSUME NEW i \in PlayItems, LibraryChanges(i)
        PROVE  /\ UNCHANGED <<pbNow, pbPlays, pbEvents, pbCounts, pbState, pbKnown, pbMapped>>
               /\ pbLibrary' \subseteq PlayItems
               /\ pbRefresh' = Aged
    BY <2>3 DEF LibraryChanges, pbTables, pbGhosts, PbInv, PbTypeOK
  <2>4. Aged \in {pbRefresh, NoPlayRefresh} /\ Aged.step # "done"
    BY NoPlayRefreshTyped DEF Aged
  <2> QED
    BY <2>1, <2>2, <2>3, <2>4 DEF PbInv, PbTypeOK
<1>2. /\ pbNow' \in {pbNow, pbNow + 1} /\ pbNow' \in Halves
      /\ pbNow' = pbNow + 1 => pbRefresh.step # "read" \/ pbNow = pbRefresh.now
  BY PlaybackAssumption DEF HalfPasses, IntervalPasses, LibraryChanges, PbInv, PbTypeOK, Halves
<1>3. PbTypeOK' /\ pbRefresh' \in PbRecords /\ IsFiniteSet(pbPlays')
  BY <1>1, <1>2, NoPlayRefreshTyped DEF PbInv, PbTypeOK, Steps
<1>4. EventsAreUnique' /\ Imported' = Imported /\ pbEvents' = pbEvents
  BY <1>1 DEF PbInv, EventsAreUnique, MappedPlays, Imported
<1>5. PlaysSeen'
  BY <1>1, <1>2, <1>4, PlaybackAssumption DEF PbInv, PbTypeOK, PlaysSeen, ProviderStates, Halves
<1>6. PlaysGathered'
  BY <1>1, <1>2, PlaybackAssumption
  DEF PbInv, PbTypeOK, PbRecords, PlaysGathered, NoPlayRefresh, Halves
<1>7. (pbRefresh.step = "done" /\ pbRefresh.force => \A i \in pbLibrary : pbCounts[i] = Cardinality(EventsOf(i)))'
  BY <1>1, <1>4 DEF PbInv, EventsOf, NoPlayRefresh
<1> QED
  BY <1>3, <1>4, <1>5, <1>6, <1>7 DEF PbInv

\* Beginning a refresh, being served without one, and reading.
LEMMA PbReadsInv ==
    ASSUME PbInv, RecentServed \/ (\E force \in BOOLEAN : PlayRefreshBegins(force)) \/ EventsRead
    PROVE  PbInv'
<1>1. UNCHANGED <<pbNow, pbPlays, pbLibrary, pbEvents, pbCounts, pbState, pbKnown, pbMapped>>
  BY DEF RecentServed, PlayRefreshBegins, EventsRead, pbTables, pbGhosts
<1>2. pbState.success \in Halves \cup {NoTime}
  BY DEF PbInv, PbTypeOK, ProviderStates
<1>3. EventsAreUnique' /\ Imported' = Imported /\ PlaysSeen' /\ IsFiniteSet(pbPlays')
  BY <1>1 DEF PbInv, EventsAreUnique, MappedPlays, Imported, PlaysSeen
<1>4. CASE RecentServed
  <2>1. pbRefresh' = [NoPlayRefresh EXCEPT !.step = "done", !.ok = pbState.available]
    BY <1>4 DEF RecentServed
  <2>2. PbTypeOK' /\ pbRefresh' \in PbRecords /\ PlaysGathered' /\ ~pbRefresh'.force
    BY <1>1, <2>1, NoPlayRefreshTyped
    DEF PbInv, PbTypeOK, NoPlayRefresh, PbRecords, Steps, ProviderStates, PlaysGathered
  <2> QED
    BY <1>3, <2>2 DEF PbInv
<1>5. ASSUME NEW force \in BOOLEAN, PlayRefreshBegins(force)
      PROVE  PbInv'
  <2>1. pbRefresh' = [NoPlayRefresh EXCEPT !.step = "begun", !.force = force, !.since = Since(pbState.success)]
    BY <1>5 DEF PlayRefreshBegins
  <2>2. PbTypeOK' /\ pbRefresh' \in PbRecords /\ PlaysGathered' /\ pbRefresh'.step = "begun"
    BY <1>1, <1>2, <2>1, NoPlayRefreshTyped, SinceTyped
    DEF PbInv, PbTypeOK, NoPlayRefresh, PbRecords, Steps, PlaysGathered
  <2> QED
    BY <1>3, <2>2 DEF PbInv
<1>6. CASE EventsRead
  <2>1. PbTypeOK' /\ pbRefresh' \in PbRecords /\ pbRefresh'.step = "read"
    BY <1>1, <1>6, PlaybackAssumption DEF EventsRead, PbInv, PbTypeOK, PbRecords, Steps, Halves
  <2>2. PlaysGathered'
    BY <1>1, <1>6, PlaybackAssumption
    DEF EventsRead, PbInv, PbTypeOK, PbRecords, Steps, PlaysGathered, Halves
  <2> QED
    BY <1>3, <2>1, <2>2 DEF PbInv
<1> QED
  BY <1>4, <1>5, <1>6

\* A provider that is away leaves the events; a refresh that dies is over.
LEMMA PbFailsInv ==
    ASSUME PbInv, ProviderUnavailable \/ PlayRefreshDies
    PROVE  PbInv'
<1>1. /\ UNCHANGED <<pbNow, pbPlays, pbLibrary, pbEvents, pbCounts, pbKnown, pbMapped>>
      /\ pbState' \in ProviderStates /\ pbState'.success = pbState.success
      /\ pbRefresh' \in {[pbRefresh EXCEPT !.step = "stored"], NoPlayRefresh}
  BY DEF ProviderUnavailable, PlayRefreshDies, pbTables, pbGhosts, PbInv, PbTypeOK, ProviderStates
<1>2. PbTypeOK' /\ pbRefresh' \in PbRecords /\ pbRefresh'.step \in {"stored", "idle"}
  <2>1. CASE pbRefresh' = NoPlayRefresh
    BY <1>1, <2>1, NoPlayRefreshTyped DEF PbInv, PbTypeOK, Steps
  <2>2. CASE pbRefresh' = [pbRefresh EXCEPT !.step = "stored"]
    BY <1>1, <2>2 DEF PbInv, PbTypeOK, PbRecords, Steps
  <2> QED
    BY <1>1, <2>1, <2>2
<1>3. EventsAreUnique' /\ PlaysSeen' /\ PlaysGathered' /\ IsFiniteSet(pbPlays')
  BY <1>1, <1>2 DEF PbInv, EventsAreUnique, MappedPlays, Imported, PlaysSeen, PlaysGathered
<1> QED
  BY <1>2, <1>3 DEF PbInv

\* What is imported is what was and what was read; an event keeps its title.
LEMMA UpsertedMeans ==
    ASSUME PbInv, pbRefresh.step = "read"
    PROVE  /\ Upserted \subseteq Events
           /\ \A e, f \in Upserted : e.item = f.item /\ e.at = f.at => e = f
           /\ {[item |-> e.item, at |-> e.at] : e \in Upserted} = Imported \cup pbRefresh.read
           /\ {[item |-> e.item, at |-> e.at] : e \in {f \in Upserted : f.mapped}} =
                 MappedPlays \cup {p \in pbRefresh.read : p.item \in pbLibrary}
<1> DEFINE Had(p) == \E e \in pbEvents : e.item = p.item /\ e.at = p.at /\ e.mapped
           Event(p) == [item |-> p.item, at |-> p.at, mapped |-> p.item \in pbLibrary \/ Had(p)]
           Read == {Event(p) : p \in pbRefresh.read}
           Kept == {e \in pbEvents : [item |-> e.item, at |-> e.at] \notin pbRefresh.read}
           Play(e) == [item |-> e.item, at |-> e.at]
<1>1. Upserted = Read \cup Kept
  BY DEF Upserted
<1>2. /\ pbRefresh.read \subseteq AllPlays /\ pbEvents \subseteq Events
      /\ \A e, f \in pbEvents : e.item = f.item /\ e.at = f.at => e = f
  BY DEF PbInv, PbTypeOK, EventsAreUnique
<1>3. \A p \in AllPlays : /\ Event(p) \in Events /\ Play(Event(p)) = p
                          /\ Event(p).mapped <=> p.item \in pbLibrary \/ Had(p)
  <2> DEFINE EventAs(p, b) == [item |-> p.item, at |-> p.at, mapped |-> b]
  <2>1. \A p \in AllPlays, b \in BOOLEAN :
           EventAs(p, b) \in Events /\ Play(EventAs(p, b)) = p /\ EventAs(p, b).mapped = b
    BY DEF AllPlays, Events
  <2>2. \A p : (p.item \in pbLibrary \/ Had(p)) \in BOOLEAN
    OBVIOUS
  <2>3. \A p : Event(p) = EventAs(p, p.item \in pbLibrary \/ Had(p))
    OBVIOUS
  <2> HIDE DEF EventAs, Event, Had, Play
  <2> QED
    BY <2>1, <2>2, <2>3, Zenon
<1>4. \A e \in Events : Play(e) \in AllPlays /\ Play(e).item = e.item /\ Play(e).at = e.at
  BY DEF AllPlays, Events
<1>5. \A p \in AllPlays : p \in MappedPlays <=> Had(p)
  BY <1>2 DEF MappedPlays, AllPlays, Events
<1>6. Upserted \subseteq Events
  BY <1>1, <1>2, <1>3
<1>7. ASSUME NEW e \in Upserted, NEW f \in Upserted, e.item = f.item, e.at = f.at
      PROVE  e = f
  <2>1. Play(e) = Play(f)
    BY <1>7
  <2>2. \A p \in pbRefresh.read : e = Event(p) => Play(e) = p
    BY <1>2, <1>3
  <2>3. \A p \in pbRefresh.read : f = Event(p) => Play(f) = p
    BY <1>2, <1>3
  <2>4. CASE e \in Kept /\ f \in Kept
    BY <1>2, <1>7, <2>4
  <2>5. CASE e \in Read \/ f \in Read
    <3> HIDE DEF Event, Play
    <3>1. Play(e) \in pbRefresh.read
      BY <2>1, <2>2, <2>3, <2>5
    <3>2. e \in Read /\ f \in Read
      BY <1>1, <2>1, <3>1 DEF Play
    <3> QED
      BY <2>1, <2>2, <2>3, <3>2
  <2> QED
    BY <1>1, <2>4, <2>5
<1>8. {Play(e) : e \in Upserted} = Imported \cup pbRefresh.read
  <2>1. Imported = {Play(e) : e \in pbEvents}
    BY DEF Imported
  <2>2. \A p \in pbRefresh.read : Event(p) \in Upserted /\ Play(Event(p)) = p
    BY <1>1, <1>2, <1>3
  <2>3. \A e \in pbEvents : Play(e) \in pbRefresh.read \/ e \in Upserted
    BY <1>1
  <2> HIDE DEF Event, Play
  <2>4. \A e \in Upserted : e \in pbEvents \/ Play(e) \in pbRefresh.read
    BY <1>1, <2>2
  <2> QED
    BY <2>1, <2>2, <2>3, <2>4
<1>9. {Play(e) : e \in {f \in Upserted : f.mapped}} =
         MappedPlays \cup {p \in pbRefresh.read : p.item \in pbLibrary}
  <2>1. MappedPlays = {Play(e) : e \in {f \in pbEvents : f.mapped}}
    BY DEF MappedPlays
  <2>2. \A p \in pbRefresh.read : Event(p) \in Upserted /\ Play(Event(p)) = p
             /\ (Event(p).mapped <=> p.item \in pbLibrary \/ p \in MappedPlays)
    BY <1>1, <1>2, <1>3, <1>5
  <2>3. \A e \in pbEvents : Play(e) \in pbRefresh.read \/ e \in Upserted
    BY <1>1
  <2>4. \A e \in Upserted : e \in pbEvents \/ \E p \in pbRefresh.read : e = Event(p)
    BY <1>1
  <2> HIDE DEF Event, Play
  <2> QED
    BY <2>1, <2>2, <2>3, <2>4
<1> QED
  BY <1>6, <1>7, <1>8, <1>9

\* The events are stored.
LEMMA EventsStoredInv ==
    ASSUME PbInv, EventsStored
    PROVE  PbInv'
<1>1. /\ pbRefresh.step = "read"
      /\ pbEvents' = Upserted /\ pbState' = [success |-> pbNow, available |-> TRUE, recent |-> TRUE]
      /\ pbRefresh' = [pbRefresh EXCEPT !.step = "stored", !.ok = TRUE]
      /\ pbKnown' = pbRefresh.of
      /\ pbMapped' = pbMapped \cup {p \in pbRefresh.read : p.item \in pbLibrary}
      /\ UNCHANGED <<pbNow, pbPlays, pbLibrary, pbCounts>>
  BY DEF EventsStored
<1>2. PbTypeOK' /\ pbRefresh' \in PbRecords /\ pbRefresh'.step = "stored" /\ IsFiniteSet(pbPlays')
  BY <1>1, UpsertedMeans DEF PbInv, PbTypeOK, PbRecords, Steps, ProviderStates
<1>3. /\ Imported' = Imported \cup pbRefresh.read
      /\ MappedPlays' = pbMapped'
      /\ \A e, f \in pbEvents' : e.item = f.item /\ e.at = f.at => e = f
  <2>1. Imported' = {[item |-> e.item, at |-> e.at] : e \in pbEvents'}
    BY DEF Imported
  <2>2. MappedPlays' = {[item |-> e.item, at |-> e.at] : e \in {f \in pbEvents' : f.mapped}}
    BY DEF MappedPlays
  <2>3. MappedPlays = pbMapped
    BY DEF PbInv, EventsAreUnique
  <2> QED
    BY <1>1, <2>1, <2>2, <2>3, UpsertedMeans
<1>4. \A p \in pbRefresh.of : p \in Imported'
  <2> SUFFICES ASSUME NEW p \in pbRefresh.of, p \notin pbRefresh.read PROVE p \in Imported
    BY <1>3
  <2>1. pbRefresh.since # NoTime /\ ~(p.at >= pbRefresh.since) /\ p \in pbPlays /\ p.at \in Halves
    BY <1>1 DEF PbInv, PlaysGathered, PbTypeOK, AllPlays
  <2>2. pbRefresh.since = Since(pbState.success) /\ pbState.success \in Halves \cup {NoTime}
    BY <1>1 DEF PbInv, PlaysGathered, PbTypeOK, ProviderStates
  <2>3. /\ Since(pbState.success) \in Halves /\ pbState.success # NoTime
        /\ p.at < Since(pbState.success) => p.at + PlayOverlap < pbState.success
    BY <2>1, <2>2, SinceTyped
  <2>4. p.at < Since(pbState.success)
    BY <2>1, <2>2, <2>3, PlaybackAssumption DEF Halves
  <2> QED
    BY <2>1, <2>3, <2>4 DEF PbInv, PlaysSeen
<1>5. EventsAreUnique'
  BY <1>1, <1>3, <1>4 DEF EventsAreUnique
<1>6. PlaysSeen'
  <2>1. \A p \in pbPlays \ pbRefresh.of : p.at + PlayLength >= pbRefresh.now /\ pbNow <= pbRefresh.now + 1
    BY <1>1 DEF PbInv, PlaysGathered
  <2>2. pbNow \in Nat /\ pbRefresh.now \in Nat /\ \A p \in pbPlays : p.at \in Nat
    BY PlaybackAssumption DEF PbInv, PbTypeOK, PbRecords, Halves, AllPlays
  <2>3. \A p \in pbPlays \ pbRefresh.of : ~(p.at + PlayOverlap < pbNow)
    BY <2>1, <2>2, PlaybackAssumption
  <2> QED
    BY <1>1, <1>4, <2>2, <2>3 DEF PlaysSeen
<1> QED
  BY <1>2, <1>5, <1>6 DEF PbInv, PlaysGathered

\* The counts are rebuilt.
LEMMA CountsRebuiltInv ==
    ASSUME PbInv, CountsRebuilt
    PROVE  PbInv'
<1>1. /\ pbCounts' = [i \in pbLibrary |-> Cardinality(EventsOf(i))]
      /\ pbRefresh' = [pbRefresh EXCEPT !.step = "done", !.read = {}, !.of = {}, !.since = NoTime, !.now = 0]
      /\ UNCHANGED <<pbNow, pbPlays, pbLibrary, pbEvents, pbState, pbKnown, pbMapped>>
  BY DEF CountsRebuilt, EventsOf, pbGhosts
<1>2. PbTypeOK' /\ pbRefresh' \in PbRecords /\ pbRefresh'.step = "done" /\ IsFiniteSet(pbPlays')
  BY <1>1, NoPlayRefreshTyped DEF PbInv, PbTypeOK, PbRecords, Steps
<1>3. EventsAreUnique' /\ PlaysSeen' /\ PlaysGathered'
  BY <1>1, <1>2 DEF PbInv, EventsAreUnique, MappedPlays, Imported, PlaysSeen, PlaysGathered
<1>4. \A i \in pbLibrary' : pbCounts'[i] = Cardinality(EventsOf(i)')
  BY <1>1 DEF EventsOf
<1> QED
  BY <1>2, <1>3, <1>4 DEF PbInv

\* A step of another part changes nothing.
LEMMA PbUnchanged ==
    ASSUME PbInv, UNCHANGED pbVars
    PROVE  PbInv'
  BY
  DEF pbVars, pbTables, pbGhosts, PbInv, PbTypeOK, EventsAreUnique, PlaysSeen, PlaysGathered,
      Imported, MappedPlays, EventsOf

\* The inductive invariant of the play history holds in every reachable state of
\* refresh_playback_history.
THEOREM PbInvariance == PbSpec => []PbInv
<1>1. PbInv /\ [PbNext]_pbVars => PbInv'
  BY PlayEndsInv, PbWorldInv, PbReadsInv, PbFailsInv, EventsStoredInv, CountsRebuiltInv,
     PbUnchanged
  DEF PbNext
<1> QED
  BY PbInitInv, <1>1, PTL DEF PbSpec

\* The events that count for a version are as many as the plays imported for it.
LEMMA AsManyEvents ==
    ASSUME PbInv, NEW i \in pbLibrary
    PROVE  Cardinality(EventsOf(i)) = Cardinality(MappedOf(i))
<1> DEFINE f == [e \in EventsOf(i) |-> [item |-> e.item, at |-> e.at]]
<1>1. \A e \in EventsOf(i) : f[e] \in MappedOf(i)
  BY DEF PbInv, EventsAreUnique, MappedPlays, EventsOf, MappedOf
<1>2. f \in [EventsOf(i) -> MappedOf(i)]
  BY <1>1
<1>3. \A d, e \in EventsOf(i) : f[d] = f[e] => d = e
  BY DEF PbInv, EventsAreUnique, EventsOf
<1>4. \A p \in MappedOf(i) : \E e \in EventsOf(i) : f[e] = p
  BY DEF PbInv, EventsAreUnique, MappedPlays, EventsOf, MappedOf
<1>5. f \in Bijection(EventsOf(i), MappedOf(i))
  <2> HIDE DEF f
  <2> QED
    BY <1>2, <1>3, <1>4, Fun_IsBij
<1>6. IsFiniteSet(MappedOf(i))
  <2>1. MappedOf(i) \in SUBSET pbPlays
    BY DEF MappedOf, PbInv, PbTypeOK
  <2> QED
    BY <2>1, FS_Subset DEF PbInv
<1>7. ExistsBijection(MappedOf(i), EventsOf(i))
  <2> HIDE DEF f
  <2> QED
    BY <1>5, Fun_ExistsBij, Fun_ExistsBijSymmetric
<1> QED
  BY <1>6, <1>7, FS_Bijection

\* What a scan reads after its forced refresh counts every play, for any items,
\* titles, overlap and deaths of refreshes (_refresh_playback_history_once).
THEOREM PlaysCount == PbSpec => []ScanCountsPlays
<1>1. PbInv => ScanCountsPlays
  <2> SUFFICES ASSUME PbInv, pbRefresh.step = "done", pbRefresh.force PROVE ScanCountsPlays
    BY DEF ScanCountsPlays
  <2>1. \A p \in pbKnown : \E e \in pbEvents : e.item = p.item /\ e.at = p.at
    BY DEF PbInv, EventsAreUnique, Imported
  <2>2. \A i \in pbLibrary : pbCounts[i] = Cardinality(MappedOf(i))
    BY AsManyEvents DEF PbInv
  <2> QED
    BY <2>1, <2>2 DEF ScanCountsPlays, MappedOf
<1> QED
  BY <1>1, PbInvariance, PTL
=============================================================================
