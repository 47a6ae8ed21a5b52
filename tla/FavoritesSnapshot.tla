-------------------------- MODULE FavoritesSnapshot -------------------------
(***************************************************************************)
(* The snapshot of what users marked as favorites on Emby and Jellyfin and *)
(* put on their Plex watchlists, for which media are kept from deletion    *)
(* (backend/services/media_favorites_cache.py).  A refresh asks the        *)
(* servers one by one and, for the rows of a server, its users one by one; *)
(* what cannot be asked keeps the rows it has.                             *)
(*                                                                         *)
(* A row is one title of one account.  An account is a user of a server:   *)
(* every user of an Emby or Jellyfin server, and a user of Plex who signed *)
(* in here and has a usable token.  The names of the accounts of a server  *)
(* differ, so media_favorites' unique constraint is never in the way.      *)
(***************************************************************************)
EXTENDS Naturals

CONSTANTS
    FavServers,    \* the media servers
    PlexServers,   \* those of them that are Plex
    Accounts,
    AccountServer, \* the server of each account
    FavTitles,
    MaxChanges,    \* bound on what users and administrators change
    NoServer

ASSUME FavAssumption ==
    /\ PlexServers \subseteq FavServers
    /\ AccountServer \in [Accounts -> FavServers]
    /\ MaxChanges \in Nat
    /\ NoServer \notin FavServers

VARIABLES
    favorites,   \* what the accounts hold as favorites on the servers
    linked,      \* the accounts there are
    favEnabled,  \* the servers that are enabled
    favRows,     \* media_favorites
    favAge,      \* what is known of the last refresh, and whether it is recent
    favLoaded,   \* the servers a library sync has loaded, if one has
    favRefresh,  \* the refresh that holds _refresh_lock
    unsure,      \* rows a refresh may drop: not held all through it, or missed
    changes      \* how much has changed

favWorld == <<favorites, linked, favEnabled, changes>>
favVars == <<favWorld, favRows, favAge, favLoaded, favRefresh, unsure>>

Rows == [account : Accounts, title : FavTitles]
RowsOf(accounts) == {r \in Rows : r.account \in accounts}
AccountsOf(s) == {c \in Accounts : AccountServer[c] = s}
Held == favorites \cap RowsOf(linked)

\* left: the servers to ask; at: the one being asked, of it the accounts still
\* to ask, those that answered and those that failed, and the rows got.
NoFavRefresh == [running |-> FALSE, left |-> {}, any |-> FALSE, at |-> NoServer,
                 toAsk |-> {}, answered |-> {}, failed |-> {}, got |-> {}]

FavInit ==
    /\ favorites = {}
    /\ linked = Accounts
    /\ favEnabled = FavServers
    /\ favRows = {}
    /\ favAge = "never"
    /\ favLoaded = {}
    /\ favRefresh = NoFavRefresh
    /\ unsure = {}
    /\ changes = 0

-----------------------------------------------------------------------------
(* Users, administrators and the clock                                     *)

Change ==
    /\ changes < MaxChanges
    /\ changes' = changes + 1
    /\ unsure' = IF favRefresh.running THEN unsure \cup (Rows \ Held') ELSE {}
    /\ UNCHANGED <<favRows, favAge, favLoaded, favRefresh>>

FavoriteToggled(r) ==
    /\ favorites' = IF r \in favorites THEN favorites \ {r} ELSE favorites \cup {r}
    /\ UNCHANGED <<linked, favEnabled>>
    /\ Change

AccountToggled(c) ==
    /\ linked' = IF c \in linked THEN linked \ {c} ELSE linked \cup {c}
    /\ UNCHANGED <<favorites, favEnabled>>
    /\ Change

FavServerToggled(s) ==
    /\ favEnabled' = IF s \in favEnabled THEN favEnabled \ {s} ELSE favEnabled \cup {s}
    /\ UNCHANGED <<favorites, linked>>
    /\ Change

\* _snapshot_ttl passes.
SnapshotAges ==
    /\ favAge = "recent"
    /\ favAge' = "old"
    /\ UNCHANGED <<favWorld, favRows, favLoaded, favRefresh, unsure>>

-----------------------------------------------------------------------------
(* ensure_fresh_snapshot and refresh_snapshot                              *)

\* No server at all: every row goes, and that is a success.
RefreshWith(servers) ==
    /\ ~favRefresh.running
    /\ IF servers = {}
       THEN /\ favRows' = {} /\ favAge' = "recent"
            /\ UNCHANGED <<favRefresh, unsure>>
       ELSE /\ favRefresh' = [NoFavRefresh EXCEPT !.running = TRUE, !.left = servers]
            /\ unsure' = Rows \ Held
            /\ UNCHANGED <<favRows, favAge>>
    /\ UNCHANGED favWorld

\* A scan, a preview of a rule or a page: unless the snapshot is recent, or
\* what asks is a scan of rules that need a fresh one (force).
EnsureRefreshes(force) ==
    /\ force \/ favAge # "recent"
    /\ RefreshWith(favEnabled)
    /\ UNCHANGED favLoaded

\* run_sync loads the servers, then syncs the linked ones, then refreshes.
SyncLoadsServers ==
    /\ favLoaded = {}
    /\ favLoaded' = {favEnabled}
    /\ UNCHANGED <<favWorld, favRows, favAge, favRefresh, unsure>>

SyncRefreshes ==
    /\ \E servers \in favLoaded : RefreshWith(servers)
    /\ favLoaded' = {}

\* Emby and Jellyfin come before Plex.
AskServer(s) ==
    /\ favRefresh.running /\ favRefresh.at = NoServer
    /\ s \in favRefresh.left
    /\ s \in PlexServers => favRefresh.left \subseteq PlexServers
    /\ favRefresh' = [favRefresh EXCEPT !.left = @ \ {s}, !.at = s,
                        !.toAsk = linked \cap AccountsOf(s),
                        !.answered = {}, !.failed = {}, !.got = {}]
    /\ UNCHANGED <<favWorld, favRows, favAge, favLoaded, unsure>>

\* Pages are asked by offset, so one that shifts meanwhile, or a title whose
\* TMDB id cannot be looked up, is missed and nothing tells.
AccountAnswers(c, missed) ==
    LET got == (favorites \cap RowsOf({c})) \ missed
    IN  /\ c \in favRefresh.toAsk
        /\ missed \subseteq favorites \cap RowsOf({c})
        /\ favRefresh' = [favRefresh EXCEPT !.toAsk = @ \ {c}, !.answered = @ \cup {c},
                            !.got = @ \cup got]
        /\ unsure' = unsure \cup missed
        /\ UNCHANGED <<favWorld, favRows, favAge, favLoaded>>

\* A watchlist that fails is that user's; on Emby or Jellyfin it is the
\* server's, as is a client that cannot be built or a list of users that fails.
WatchlistFails(c) ==
    /\ favRefresh.at \in PlexServers
    /\ c \in favRefresh.toAsk
    /\ favRefresh' = [favRefresh EXCEPT !.toAsk = @ \ {c}, !.failed = @ \cup {c}]
    /\ UNCHANGED <<favWorld, favRows, favAge, favLoaded, unsure>>

FavServerFails ==
    /\ favRefresh.at \in FavServers \ PlexServers
    /\ favRefresh' = [favRefresh EXCEPT !.at = NoServer, !.toAsk = {}]
    /\ UNCHANGED <<favWorld, favRows, favAge, favLoaded, unsure>>

\* Mutant: only what was got is written.
StaleRows_Forgotten == {}

\* The rows of the users that failed are written again with the others.
StaleRows == favRows \cap RowsOf(favRefresh.failed)

\* All failed: the rows stay and the server does not count.
ServerWritten ==
    LET s == favRefresh.at
        kept == favRefresh.answered = {} /\ favRefresh.failed # {}
    IN  /\ s # NoServer /\ favRefresh.toAsk = {}
        /\ favRows' = IF kept THEN favRows
                      ELSE (favRows \ RowsOf(AccountsOf(s))) \cup favRefresh.got \cup StaleRows
        /\ favRefresh' = [favRefresh EXCEPT !.at = NoServer, !.any = @ \/ ~kept]
        /\ UNCHANGED <<favWorld, favAge, favLoaded, unsure>>

\* One server that answered makes the refresh a success.
FavRefreshEnds ==
    /\ favRefresh.running /\ favRefresh.at = NoServer /\ favRefresh.left = {}
    /\ favAge' = IF favRefresh.any THEN "recent" ELSE favAge
    /\ favRefresh' = NoFavRefresh
    /\ unsure' = {}
    /\ UNCHANGED <<favWorld, favRows, favLoaded>>

\* Anything else that goes wrong ends the refresh; what is written stays.
FavRefreshFails ==
    /\ favRefresh.running
    /\ favRefresh' = NoFavRefresh
    /\ unsure' = {}
    /\ UNCHANGED <<favWorld, favRows, favAge, favLoaded>>

\* After a restart the age is that of the newest row.
FavRestarts ==
    /\ favAge' \in IF favRows = {} THEN {"never"} ELSE {"recent", "old"}
    /\ favRefresh' = NoFavRefresh
    /\ favLoaded' = {}
    /\ unsure' = {}
    /\ UNCHANGED <<favWorld, favRows>>

FavNext ==
    \/ \E r \in Rows : FavoriteToggled(r)
    \/ \E c \in Accounts : AccountToggled(c)
    \/ \E s \in FavServers : FavServerToggled(s)
    \/ SnapshotAges
    \/ \E force \in BOOLEAN : EnsureRefreshes(force)
    \/ SyncLoadsServers
    \/ SyncRefreshes
    \/ \E s \in FavServers : AskServer(s)
    \/ \E c \in Accounts, missed \in SUBSET Rows : AccountAnswers(c, missed)
    \/ \E c \in Accounts : WatchlistFails(c)
    \/ FavServerFails
    \/ ServerWritten
    \/ FavRefreshEnds
    \/ FavRefreshFails
    \/ FavRestarts

FavSpec == FavInit /\ [][FavNext]_favVars

-----------------------------------------------------------------------------
\* Every variable keeps its type.
FavTypeOK ==
    /\ favorites \cup favRows \cup unsure \subseteq Rows
    /\ linked \subseteq Accounts
    /\ favEnabled \subseteq FavServers
    /\ favLoaded \subseteq SUBSET FavServers
    /\ favAge \in {"never", "recent", "old"}
    /\ favRefresh \in [running : BOOLEAN, left : SUBSET FavServers, any : BOOLEAN,
                       at : FavServers \cup {NoServer}, toAsk : SUBSET Accounts,
                       answered : SUBSET Accounts, failed : SUBSET Accounts, got : SUBSET Rows]

\* A favorite that a user held all through the refresh stays in the snapshot,
\* whichever servers and watchlists fail and in whatever order servers and
\* users are asked, unless the refresh missed it; and only the refresh that
\* finds no server at all empties the snapshot (refresh_snapshot,
\* _refresh_plex_watchlist_snapshot_for_config).
FavoritesOutliveFailures ==
    [][favRefresh.running => favRows \ favRows' \subseteq unsure]_favVars
=============================================================================
