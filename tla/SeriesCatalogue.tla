-------------------------- MODULE SeriesCatalogue ---------------------------
(***************************************************************************)
(* The rows of one series: seasons and episodes the library sync writes    *)
(* (backend/tasks/sync.py), and the candidates, protections and requests   *)
(* that name them (backend/tasks/cleanup.py, backend/api/routes/           *)
(* requests.py, protected.py, delete_requests.py).  One action is one      *)
(* transaction.  What the foreign keys do when a row is deleted is part of *)
(* the action: a candidate whose episode goes keeps its season_id and so   *)
(* would become the candidate of the whole season.                         *)
(***************************************************************************)
EXTENDS SeriesStructure

CONSTANTS
    MaxMatches,      \* bound: scopes the rules of one scan match
    MaxProtections,  \* bound: rows of protected_media
    MaxRequests      \* bound: pending requests, candidates made for requests

VARIABLES
    catRows,       \* seasons and episodes rows
    catRemoved,    \* series.removed_at is set
    catCandidates, \* <<scope, "rule" or "request">>
    catProtected,  \* <<scope, "manual" or "rule">>
    catPending,    \* pending requests: <<"protect" or "delete", scope>>
    catReviewed    \* the request reviewed last, by what it still names

catVars == <<catRows, catRemoved, catCandidates, catProtected, catPending, catReviewed>>

CatInit ==
    /\ catRows = Seasons \cup Episodes
    /\ catRemoved = FALSE
    /\ catCandidates = {}
    /\ catProtected = {}
    /\ catPending = {}
    /\ catReviewed = {}

Exists(t) == t = WholeSeries \/ t \in catRows

-----------------------------------------------------------------------------
(* Rows that go                                                            *)

\* ON DELETE SET NULL of a candidate's episode_id, where the code has not
\* deleted the candidate itself: it would stand for the season.
OnDelete(candidates, gone) ==
    {IF c[1] \in gone \cap Episodes THEN <<EpisodeSeason[c[1]], c[2]>> ELSE c : c \in candidates}

NotNaming(rows, gone) == {r \in rows : r[1] \notin gone}

\* A request that keeps its row names less.
Detached(requests, gone) == {IF r[1] \in gone THEN <<WholeSeries, r[2]>> ELSE r : r \in requests}

\* Mutant: the candidates of the rows are left to the foreign keys.
RowsChange_CandidatesStay(gone, new) ==
    /\ catRows' = (catRows \ gone) \cup new
    /\ catCandidates' = OnDelete(catCandidates, gone)
    /\ catProtected' = NotNaming(catProtected, gone)
    /\ catPending' = NotNaming(catPending, gone)
    /\ catReviewed' = Detached(catReviewed, gone)

\* Mutant: the protections of the rows stay.
RowsChange_ProtectionsStay(gone, new) ==
    /\ catRows' = (catRows \ gone) \cup new
    /\ catCandidates' = OnDelete(NotNaming(catCandidates, gone), gone)
    /\ catProtected' = catProtected
    /\ catPending' = NotNaming(catPending, gone)
    /\ catReviewed' = Detached(catReviewed, gone)

\* Rows come and go.  What names one that goes is deleted first; a reviewed
\* request is kept without it.
RowsChange(gone, new) ==
    /\ catRows' = (catRows \ gone) \cup new
    /\ catCandidates' = OnDelete(NotNaming(catCandidates, gone), gone)
    /\ catProtected' = NotNaming(catProtected, gone)
    /\ catPending' = NotNaming(catPending, gone)
    /\ catReviewed' = Detached(catReviewed, gone)

-----------------------------------------------------------------------------
(* sync_series                                                             *)

\* What goes when the server lists these seasons and episodes: seasons it does
\* not list with their episodes, and of a season those it does not list unless
\* it lists none of it.
Stale(seasons, episodes) ==
    UNION {Within(s) : s \in Seasons \ seasons}
        \cup {e \in Episodes \ episodes : EpisodesOf(EpisodeSeason[e]) \cap episodes # {}}

\* The list may be older than a deletion, which it then undoes.  Without
\* seasons only the series is written.
SyncSeries ==
    /\ \E seasons \in SUBSET Seasons :
       \E episodes \in SUBSET UNION {EpisodesOf(s) : s \in seasons} :
           IF seasons = {} THEN RowsChange({}, {})
           ELSE RowsChange(Stale(seasons, episodes) \cap catRows, seasons \cup episodes)
    /\ catRemoved' = FALSE

\* The series is not listed: all that names it goes but delete requests.
SyncRemovesSeries ==
    /\ ~catRemoved
    /\ catRemoved' = TRUE
    /\ catCandidates' = {}
    /\ catProtected' = {}
    /\ catPending' = {r \in catPending : r[2] = "delete"}
    /\ catReviewed' = {r \in catReviewed : r[2] = "delete"}
    /\ UNCHANGED catRows

-----------------------------------------------------------------------------
(* scan_cleanup_candidates                                                 *)

ProtectedScopes(rows) == {p[1] : p \in rows}

\* _collect_*_candidate_records: any protection of the series keeps the whole
\* series out, a season is kept out by its own and the series' protection, an
\* episode also by its season's.
Unprotected(t, protected) ==
    IF t = WholeSeries THEN protected = {} ELSE Around(t) \cap protected = {}

\* Candidates of a scope are looked up by scope: of several one is kept for a
\* match, and without a match one is deleted.
Synchronized(matched) ==
    LET rows(t) == {c \in catCandidates : c[1] = t}
        doubled == {c \in catCandidates : c[1] \notin matched /\ Cardinality(rows(c[1])) = 2}
        kept == {c \in catCandidates : c[1] \in matched}
        made == {<<t, "rule">> : t \in {u \in matched : rows(u) = {}}}
    IN  {kept \cup made \cup left :
             left \in {S \in SUBSET doubled :
                          \A c \in doubled : Cardinality(S \cap rows(c[1])) = 1}}

\* Rules are evaluated over the rows of a series that is not removed.
Matchable == IF catRemoved THEN {} ELSE {WholeSeries} \cup catRows

\* Protections made by rules follow the rules; those of a rule whose data is
\* missing may stay.  Then the candidates follow the matches.
ScanCandidates ==
    \E protects \in SUBSET Matchable, preserved \in SUBSET {p \in catProtected : p[2] = "rule"} :
        /\ catProtected' = {p \in catProtected : p[2] = "manual"} \cup preserved
                               \cup {<<t, "rule">> : t \in protects}
        /\ Cardinality(catProtected') <= MaxProtections
        /\ \E matched \in SUBSET {t \in Matchable : Unprotected(t, ProtectedScopes(catProtected'))} :
               /\ Cardinality(matched) <= MaxMatches
               /\ catCandidates' \in Synchronized(matched)
        /\ UNCHANGED <<catRows, catRemoved, catPending, catReviewed>>

-----------------------------------------------------------------------------
(* Protections and requests                                                *)

Protects(t) == Around(t) \cap ProtectedScopes(catProtected) # {}
AlreadyAsked(kind, t) == \E a \in Around(t) : <<a, kind>> \in catPending

\* create_protection_entry leaves the candidates to the next scan.
CreateProtection(t) ==
    /\ ~catRemoved /\ Exists(t)
    /\ Around(t) \cap {p[1] : p \in {q \in catProtected : q[2] = "manual"}} = {}
    /\ Cardinality(catProtected) < MaxProtections
    /\ catProtected' = catProtected \cup {<<t, "manual">>}
    /\ UNCHANGED <<catRows, catRemoved, catCandidates, catPending, catReviewed>>

DeleteProtection(t) ==
    /\ <<t, "manual">> \in catProtected
    /\ catProtected' = catProtected \ {<<t, "manual">>}
    /\ UNCHANGED <<catRows, catRemoved, catCandidates, catPending, catReviewed>>

\* create_protection_request; with AUTO_APPROVE it protects at once and takes
\* every candidate it covers away.
RequestProtection(t) ==
    /\ ~catRemoved /\ Exists(t)
    /\ ~Protects(t) /\ ~AlreadyAsked("protect", t)
    /\ \/ /\ Cardinality(catPending) < MaxRequests
          /\ catPending' = catPending \cup {<<t, "protect">>}
          /\ UNCHANGED <<catProtected, catCandidates, catReviewed>>
       \/ /\ Cardinality(catProtected) < MaxProtections
          /\ catReviewed' = {<<t, "protect">>}
          /\ catProtected' = catProtected \cup {<<t, "manual">>}
          /\ catCandidates' = {c \in catCandidates : t # WholeSeries /\ c[1] \notin Within(t)}
          /\ UNCHANGED catPending
    /\ UNCHANGED <<catRows, catRemoved>>

\* approve_request removes the candidate the request was made for, if any.
ApproveProtection(t) ==
    /\ <<t, "protect">> \in catPending
    /\ Cardinality(catProtected) < MaxProtections
    /\ catPending' = catPending \ {<<t, "protect">>}
    /\ catReviewed' = {<<t, "protect">>}
    /\ catProtected' = catProtected \cup {<<t, "manual">>}
    /\ \/ UNCHANGED catCandidates
       \/ \E c \in catCandidates : c[1] = t /\ catCandidates' = catCandidates \ {c}
    /\ UNCHANGED <<catRows, catRemoved>>

RequestDeletion(t) ==
    /\ ~catRemoved /\ Exists(t)
    /\ ~Protects(t) /\ ~AlreadyAsked("delete", t)
    /\ Cardinality(catPending) < MaxRequests
    /\ catPending' = catPending \cup {<<t, "delete">>}
    /\ UNCHANGED <<catRows, catRemoved, catCandidates, catProtected, catReviewed>>

\* approve_delete_request makes a candidate, beside one that is there.
ApproveDeletion(t) ==
    /\ <<t, "delete">> \in catPending
    /\ catPending' = catPending \ {<<t, "delete">>}
    /\ catReviewed' = {<<t, "delete">>}
    /\ Cardinality({c \in catCandidates : c[2] = "request"}) < MaxRequests
    /\ catCandidates' = catCandidates \cup {<<t, "request">>}
    /\ UNCHANGED <<catRows, catRemoved, catProtected>>

\* deny_request, deny_delete_request and the cancellations.
CloseRequest(r) ==
    /\ r \in catPending
    /\ catPending' = catPending \ {r}
    /\ catReviewed' = {r}
    /\ UNCHANGED <<catRows, catRemoved, catCandidates, catProtected>>

-----------------------------------------------------------------------------
(* What a deletion writes for a candidate whose files it deleted           *)

SeriesDeleted ==
    \E c \in catCandidates :
        /\ c[1] = WholeSeries /\ ~catRemoved
        /\ catCandidates' = catCandidates \ {c}
        /\ catRemoved' = TRUE
        /\ UNCHANGED <<catRows, catProtected, catPending, catReviewed>>

\* A season, or an episode and with the last one its season.
ScopeRowsDeleted(t) ==
    /\ ~catRemoved
    /\ t \in catRows
    /\ t \in {c[1] : c \in catCandidates}
    /\ LET season == IF t \in Seasons THEN t ELSE EpisodeSeason[t]
           gone == IF EpisodesOf(season) \cap catRows \subseteq EpisodesOf(t)
                   THEN Within(season) ELSE {t}
       IN  RowsChange(IF t \in Seasons THEN Within(t) ELSE gone, {})
    /\ catRemoved' = (catRows' \cap Seasons = {})

CatNext ==
    \/ SyncSeries
    \/ SyncRemovesSeries
    \/ ScanCandidates
    \/ \E t \in Scopes : \/ CreateProtection(t)
                         \/ DeleteProtection(t)
                         \/ RequestProtection(t)
                         \/ ApproveProtection(t)
                         \/ RequestDeletion(t)
                         \/ ApproveDeletion(t)
                         \/ \E kind \in {"protect", "delete"} : CloseRequest(<<t, kind>>)
                         \/ ScopeRowsDeleted(t)
    \/ SeriesDeleted

CatSpec == CatInit /\ [][CatNext]_catVars

-----------------------------------------------------------------------------
(* Properties                                                              *)

CatTypeOK ==
    /\ catRows \subseteq Seasons \cup Episodes
    /\ catRemoved \in BOOLEAN
    /\ catCandidates \subseteq Scopes \X {"rule", "request"}
    /\ catProtected \subseteq Scopes \X {"manual", "rule"}
    /\ catPending \subseteq Scopes \X {"protect", "delete"}
    /\ catReviewed \subseteq Scopes \X {"protect", "delete"}

\* Whatever syncs, scans, deletions, requests and reviews follow each other, a
\* candidate, a protection and a request name a season or an episode that has
\* its row, and an episode has the row of its season.
RowsNamed ==
    /\ \A r \in catCandidates \cup catProtected \cup catPending \cup catReviewed : Exists(r[1])
    /\ \A e \in catRows \cap Episodes : EpisodeSeason[e] \in catRows

\* The scope of a candidate, of a protection and of a request that waits for
\* its review never widens: when rows go, what remains was there before, and
\* only a scan and the approval of a delete request make candidates.
ScopeNeverWidens ==
    [][catRows' # catRows => /\ catCandidates' \subseteq catCandidates
                             /\ catProtected' \subseteq catProtected
                             /\ catPending' \subseteq catPending]_catVars
=============================================================================
