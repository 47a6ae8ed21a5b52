-------------------------- MODULE SeriesRowsProofs --------------------------
(***************************************************************************)
(* RowsNamed and ScopeNeverWidens for any series and any number of         *)
(* candidates, protections and requests, and MovedExactly for any movie,   *)
(* any series and any layout of the media server.                          *)
(*                                                                         *)
(* With the types of the rows RowsNamed is inductive: what makes it so is  *)
(* that every transaction that deletes rows first deletes what names them, *)
(* so that the foreign keys find nothing to turn from an episode's into a  *)
(* season's.  The strengthening of MovedExactly says what the candidate at *)
(* hand has achieved when its rows are about to go.                        *)
(***************************************************************************)
EXTENDS SeriesCatalogue, CandidateMove, TLAPS

-----------------------------------------------------------------------------
(* The rows of a series.                                                   *)

CatInv == CatTypeOK /\ RowsNamed

\* The series has no row among seasons and episodes; Within and the season of
\* an episode stay in the series.
LEMMA CatNames ==
    /\ WholeSeries \in Scopes /\ WholeSeries \notin Seasons \cup Episodes
    /\ Seasons \cap Episodes = {}
    /\ \A e \in Episodes : EpisodeSeason[e] \in Seasons
    /\ \A s \in Seasons : Within(s) = {s} \cup {e \in Episodes : EpisodeSeason[e] = s}
  BY StructureAssumption DEF Scopes, Within, EpisodesOf

\* Once no candidate names a row that goes, the foreign keys change nothing.
LEMMA NothingLeftToWiden ==
    ASSUME NEW candidates, NEW gone
    PROVE  OnDelete(NotNaming(candidates, gone), gone) = NotNaming(candidates, gone)
<1>1. \A c \in NotNaming(candidates, gone) : c[1] \notin gone \cap Episodes
  BY DEF NotNaming
<1>2. \A c \in NotNaming(candidates, gone) :
         (IF c[1] \in gone \cap Episodes THEN <<EpisodeSeason[c[1]], c[2]>> ELSE c) = c
  BY <1>1
<1> QED
  BY <1>2 DEF OnDelete

\* A change of the rows leaves no name of a row that went and widens nothing.
LEMMA RowsChangeNames ==
    ASSUME CatInv, NEW gone \in SUBSET (Seasons \cup Episodes),
           NEW new \in SUBSET (Seasons \cup Episodes), RowsChange(gone, new),
           \A e \in ((catRows \ gone) \cup new) \cap Episodes :
               EpisodeSeason[e] \in (catRows \ gone) \cup new,
           catRemoved' \in BOOLEAN
    PROVE  /\ CatInv'
           /\ catCandidates' \subseteq catCandidates
           /\ catProtected' \subseteq catProtected
           /\ catPending' \subseteq catPending
<1>1. /\ catRows' = (catRows \ gone) \cup new
      /\ catCandidates' = NotNaming(catCandidates, gone)
      /\ catProtected' = NotNaming(catProtected, gone)
      /\ catPending' = NotNaming(catPending, gone)
      /\ catReviewed' = Detached(catReviewed, gone)
  BY NothingLeftToWiden DEF RowsChange
<1>2. /\ catCandidates' \subseteq catCandidates
      /\ catProtected' \subseteq catProtected
      /\ catPending' \subseteq catPending
      /\ \A r \in catCandidates' \cup catProtected' \cup catPending' : r[1] \notin gone
  BY <1>1 DEF NotNaming
<1>3. \A r \in catReviewed' :
         \/ r \in catReviewed /\ r[1] \notin gone
         \/ \E q \in catReviewed : r = <<WholeSeries, q[2]>>
  BY <1>1 DEF Detached
<1>4. catReviewed' \subseteq Scopes \X {"protect", "delete"}
  BY <1>3, CatNames DEF CatInv, CatTypeOK
<1>5. CatTypeOK'
  BY <1>1, <1>2, <1>4 DEF CatInv, CatTypeOK
<1>6. \A r \in catCandidates' \cup catProtected' \cup catPending' : Exists(r[1])'
  BY <1>1, <1>2 DEF CatInv, RowsNamed, Exists
<1>7. \A r \in catReviewed' : Exists(r[1])'
  BY <1>1, <1>3 DEF CatInv, RowsNamed, Exists
<1>8. RowsNamed'
  BY <1>1, <1>6, <1>7 DEF RowsNamed
<1> QED
  BY <1>2, <1>5, <1>8 DEF CatInv

\* The rows of a sync: a season it does not list goes with all its episodes,
\* and an episode it lists has its season listed.
LEMMA SyncSeriesNames ==
    ASSUME CatInv, SyncSeries
    PROVE  /\ CatInv'
           /\ catCandidates' \subseteq catCandidates
           /\ catProtected' \subseteq catProtected
           /\ catPending' \subseteq catPending
<1>1. PICK seasons \in SUBSET Seasons :
         \E episodes \in SUBSET UNION {EpisodesOf(s) : s \in seasons} :
             IF seasons = {} THEN RowsChange({}, {})
             ELSE RowsChange(Stale(seasons, episodes) \cap catRows, seasons \cup episodes)
  BY DEF SyncSeries
<1>2. PICK episodes \in SUBSET UNION {EpisodesOf(s) : s \in seasons} :
         IF seasons = {} THEN RowsChange({}, {})
         ELSE RowsChange(Stale(seasons, episodes) \cap catRows, seasons \cup episodes)
  BY <1>1
<1>3. catRemoved' = FALSE
  BY DEF SyncSeries
<1>4. CASE seasons = {}
  <2>1. RowsChange({}, {})
    BY <1>4, <1>2
  <2>2. \A e \in ((catRows \ {}) \cup {}) \cap Episodes :
           EpisodeSeason[e] \in (catRows \ {}) \cup {}
    BY DEF CatInv, RowsNamed
  <2> QED
    BY <1>3, <2>1, <2>2, RowsChangeNames
<1>5. CASE seasons # {}
  <2> DEFINE gone == Stale(seasons, episodes) \cap catRows
             new == seasons \cup episodes
  <2>1. \A s \in seasons : EpisodesOf(s) = {e \in Episodes : EpisodeSeason[e] = s}
    BY CatNames DEF EpisodesOf
  <2>2. episodes \subseteq Episodes /\ \A e \in episodes : EpisodeSeason[e] \in seasons
    BY <2>1
  <2>3. \A s \in Seasons \ seasons : s \notin new
    BY <2>2, CatNames
  <2>4. \A s \in Seasons \ seasons : \A e \in Episodes :
           EpisodeSeason[e] = s => e \in Stale(seasons, episodes)
    BY CatNames DEF Stale
  <2>5. \A e \in ((catRows \ gone) \cup new) \cap Episodes :
           EpisodeSeason[e] \in (catRows \ gone) \cup new
    <3> SUFFICES ASSUME NEW e \in ((catRows \ gone) \cup new) \cap Episodes,
                        EpisodeSeason[e] \notin seasons
                 PROVE  FALSE
      OBVIOUS
    <3>1. EpisodeSeason[e] \in Seasons \ seasons
      BY CatNames
    <3>2. e \in Stale(seasons, episodes)
      BY <2>4, <3>1
    <3>3. e \notin episodes /\ e \notin seasons
      BY <2>2, CatNames
    <3> QED
      BY <3>2, <3>3
  <2>6. gone \in SUBSET (Seasons \cup Episodes) /\ new \in SUBSET (Seasons \cup Episodes)
    BY <2>2 DEF CatInv, CatTypeOK
  <2>7. RowsChange(gone, new)
    BY <1>5, <1>2
  <2> HIDE DEF gone, new
  <2> QED
    BY <1>3, <2>5, <2>6, <2>7, RowsChangeNames
<1> QED
  BY <1>4, <1>5

\* The rows of a deletion: a season goes with all its episodes.
LEMMA ScopeRowsDeletedNames ==
    ASSUME CatInv, NEW t \in Scopes, ScopeRowsDeleted(t)
    PROVE  /\ CatInv'
           /\ catCandidates' \subseteq catCandidates
           /\ catProtected' \subseteq catProtected
           /\ catPending' \subseteq catPending
<1>1. t \in catRows /\ catRemoved' \in BOOLEAN /\ t \in Seasons \cup Episodes
  BY DEF ScopeRowsDeleted, CatInv, CatTypeOK
<1>2. PICK gone \in SUBSET (Seasons \cup Episodes) :
         /\ RowsChange(gone, {})
         /\ (\E s \in Seasons : gone = Within(s)) \/ (t \in Episodes /\ gone = {t})
  <2>1. CASE t \in Seasons
    <3>1. RowsChange(Within(t), {})
      BY <2>1 DEF ScopeRowsDeleted
    <3>2. Within(t) \in SUBSET (Seasons \cup Episodes)
      BY <2>1, CatNames
    <3> QED
      BY <2>1, <3>1, <3>2
  <2>2. CASE t \notin Seasons
    <3> DEFINE season == EpisodeSeason[t]
               gone == IF EpisodesOf(season) \cap catRows \subseteq EpisodesOf(t)
                       THEN Within(season) ELSE {t}
    <3>1. t \in Episodes /\ season \in Seasons
      BY <1>1, <2>2, CatNames
    <3>2. RowsChange(gone, {})
      BY <2>2 DEF ScopeRowsDeleted
    <3>3. Within(season) \in SUBSET (Seasons \cup Episodes)
      BY <3>1, CatNames
    <3> QED
      BY <3>1, <3>2, <3>3
  <2> QED
    BY <2>1, <2>2
<1>3. \A e \in ((catRows \ gone) \cup {}) \cap Episodes :
         EpisodeSeason[e] \in (catRows \ gone) \cup {}
  BY <1>2, CatNames DEF CatInv, RowsNamed, CatTypeOK
<1> QED
  BY <1>1, <1>2, <1>3, RowsChangeNames

\* Candidates, protections and requests change by ones that name rows.
LEMMA NamesOnly ==
    ASSUME CatInv, UNCHANGED <<catRows, catRemoved>>,
           catCandidates' \subseteq Scopes \X {"rule", "request"},
           catProtected' \subseteq Scopes \X {"manual", "rule"},
           catPending' \subseteq Scopes \X {"protect", "delete"},
           catReviewed' \subseteq Scopes \X {"protect", "delete"},
           \A r \in catCandidates' \cup catProtected' \cup catPending' \cup catReviewed' :
               Exists(r[1])
    PROVE  CatInv'
<1>1. CatTypeOK'
  BY DEF CatInv, CatTypeOK
<1>2. RowsNamed'
  BY DEF CatInv, RowsNamed, Exists
<1> QED
  BY <1>1, <1>2 DEF CatInv

\* The rows a rule matches are there.
LEMMA ScanNames ==
    ASSUME CatInv, ScanCandidates
    PROVE  CatInv' /\ UNCHANGED catRows
<1>1. PICK protects \in SUBSET Matchable, preserved \in SUBSET {p \in catProtected : p[2] = "rule"} :
         /\ catProtected' = {p \in catProtected : p[2] = "manual"} \cup preserved
                                \cup {<<t, "rule">> : t \in protects}
         /\ \E matched \in SUBSET {t \in Matchable : Unprotected(t, ProtectedScopes(catProtected'))} :
                catCandidates' \in Synchronized(matched)
         /\ UNCHANGED <<catRows, catRemoved, catPending, catReviewed>>
  BY DEF ScanCandidates
<1>2. PICK matched \in SUBSET Matchable : catCandidates' \in Synchronized(matched)
  BY <1>1
<1>3. \A t \in Matchable : t \in Scopes /\ Exists(t)
  BY CatNames DEF Matchable, CatInv, CatTypeOK, Exists, Scopes
<1>4. \A c \in catCandidates' : c \in catCandidates \/ \E t \in matched : c = <<t, "rule">>
  BY <1>2 DEF Synchronized
<1>5. \A p \in catProtected' : p \in catProtected \/ \E t \in protects : p = <<t, "rule">>
  BY <1>1
<1>6. catCandidates' \subseteq Scopes \X {"rule", "request"}
  BY <1>3, <1>4 DEF CatInv, CatTypeOK
<1>7. catProtected' \subseteq Scopes \X {"manual", "rule"}
  BY <1>3, <1>5 DEF CatInv, CatTypeOK
<1>8. \A c \in catCandidates' : Exists(c[1])
  BY <1>3, <1>4 DEF CatInv, RowsNamed
<1>9. \A p \in catProtected' : Exists(p[1])
  BY <1>3, <1>5 DEF CatInv, RowsNamed
<1> QED
  BY <1>1, <1>6, <1>7, <1>8, <1>9, NamesOnly DEF CatInv, CatTypeOK, RowsNamed

\* A handler names the scope it is given, which exists, or one that is named.
LEMMA HandlerNames ==
    ASSUME CatInv, NEW t \in Scopes,
           \/ CreateProtection(t) \/ DeleteProtection(t)
           \/ RequestProtection(t) \/ ApproveProtection(t)
           \/ RequestDeletion(t) \/ ApproveDeletion(t)
           \/ \E kind \in {"protect", "delete"} : CloseRequest(<<t, kind>>)
    PROVE  CatInv' /\ UNCHANGED catRows
<1>1. UNCHANGED <<catRows, catRemoved>>
  BY DEF CreateProtection, DeleteProtection, RequestProtection, ApproveProtection,
         RequestDeletion, ApproveDeletion, CloseRequest
<1>2. \A r \in catPending : Exists(r[1])
  BY DEF CatInv, RowsNamed
<1>3. Exists(t) \/ UNCHANGED <<catCandidates, catPending, catReviewed>>
  BY <1>2 DEF CreateProtection, DeleteProtection, RequestProtection, ApproveProtection,
         RequestDeletion, ApproveDeletion, CloseRequest
<1>4. \A c \in catCandidates' : c \in catCandidates \/ (c = <<t, "request">> /\ Exists(t))
  BY <1>2 DEF CreateProtection, DeleteProtection, RequestProtection, ApproveProtection,
         RequestDeletion, ApproveDeletion, CloseRequest
<1>5. \A p \in catProtected' : p \in catProtected \/ (p = <<t, "manual">> /\ Exists(t))
  BY <1>2 DEF CreateProtection, DeleteProtection, RequestProtection, ApproveProtection,
         RequestDeletion, ApproveDeletion, CloseRequest
<1>6. \A r \in catPending' :
         r \in catPending \/ (Exists(t) /\ \E k \in {"protect", "delete"} : r = <<t, k>>)
  BY <1>2 DEF CreateProtection, DeleteProtection, RequestProtection, ApproveProtection,
         RequestDeletion, ApproveDeletion, CloseRequest
<1>7. \A r \in catReviewed' :
         r \in catReviewed \/ (Exists(t) /\ \E k \in {"protect", "delete"} : r = <<t, k>>)
  BY <1>2 DEF CreateProtection, DeleteProtection, RequestProtection, ApproveProtection,
         RequestDeletion, ApproveDeletion, CloseRequest
<1>8. /\ catCandidates' \subseteq Scopes \X {"rule", "request"}
      /\ catProtected' \subseteq Scopes \X {"manual", "rule"}
  BY <1>4, <1>5 DEF CatInv, CatTypeOK
<1>9. /\ catPending' \subseteq Scopes \X {"protect", "delete"}
      /\ catReviewed' \subseteq Scopes \X {"protect", "delete"}
  BY <1>6, <1>7 DEF CatInv, CatTypeOK
<1>10. \A r \in catCandidates' \cup catProtected' : Exists(r[1])
  BY <1>4, <1>5 DEF CatInv, RowsNamed
<1>11. \A r \in catPending' \cup catReviewed' : Exists(r[1])
  BY <1>6, <1>7 DEF CatInv, RowsNamed
<1> QED
  BY <1>1, <1>8, <1>9, <1>10, <1>11, NamesOnly

\* A series that is removed keeps its rows and loses names.
LEMMA SeriesGoneNames ==
    ASSUME CatInv, SyncRemovesSeries \/ SeriesDeleted
    PROVE  CatInv' /\ UNCHANGED catRows
<1>1. /\ UNCHANGED catRows /\ catRemoved' \in BOOLEAN
      /\ catCandidates' \subseteq catCandidates /\ catProtected' \subseteq catProtected
      /\ catPending' \subseteq catPending /\ catReviewed' \subseteq catReviewed
  BY DEF SyncRemovesSeries, SeriesDeleted
<1>2. CatTypeOK' /\ RowsNamed'
  BY <1>1 DEF CatInv, CatTypeOK, RowsNamed, Exists
<1> QED
  BY <1>1, <1>2 DEF CatInv

\* Every transaction keeps the invariant, and one that changes rows makes no
\* candidate, protection or request.
LEMMA CatNextNames ==
    ASSUME CatInv, [CatNext]_catVars
    PROVE  /\ CatInv'
           /\ catRows' # catRows => /\ catCandidates' \subseteq catCandidates
                                    /\ catProtected' \subseteq catProtected
                                    /\ catPending' \subseteq catPending
<1>1. CASE UNCHANGED catVars
  BY <1>1 DEF catVars, CatInv, CatTypeOK, RowsNamed, Exists
<1>2. CASE SyncSeries
  BY <1>2, SyncSeriesNames
<1>3. CASE SyncRemovesSeries \/ SeriesDeleted
  BY <1>3, SeriesGoneNames
<1>4. CASE ScanCandidates
  BY <1>4, ScanNames
<1>5. ASSUME NEW t \in Scopes,
             \/ CreateProtection(t) \/ DeleteProtection(t)
             \/ RequestProtection(t) \/ ApproveProtection(t)
             \/ RequestDeletion(t) \/ ApproveDeletion(t)
             \/ \E kind \in {"protect", "delete"} : CloseRequest(<<t, kind>>)
      PROVE  CatInv' /\ UNCHANGED catRows
  BY <1>5, HandlerNames
<1>6. ASSUME NEW t \in Scopes, ScopeRowsDeleted(t)
      PROVE  /\ CatInv'
             /\ catCandidates' \subseteq catCandidates
             /\ catProtected' \subseteq catProtected
             /\ catPending' \subseteq catPending
  BY <1>6, ScopeRowsDeletedNames
<1> QED
  BY <1>1, <1>2, <1>3, <1>4, <1>5, <1>6 DEF CatNext

\* The invariant holds when every row is new.
LEMMA CatInitNames == CatInit => CatInv
  BY CatNames DEF CatInit, CatInv, CatTypeOK, RowsNamed, Exists

\* The invariant holds in every behaviour of the rows.
THEOREM CatInvariance == CatSpec => []CatInv
  BY CatInitNames, CatNextNames, PTL DEF CatSpec

\* Whatever syncs, scans, deletions, requests and reviews follow each other,
\* what a candidate, a protection or a request names has its row: every
\* transaction that deletes rows has deleted or detached what names them.
THEOREM RowsNamedHolds == CatSpec => []RowsNamed
<1>1. CatInv => RowsNamed
  BY DEF CatInv
<1> QED
  BY <1>1, CatInvariance, PTL

\* A transaction that changes rows makes no candidate, no protection and no
\* request, not even by ON DELETE SET NULL.
THEOREM ScopesNeverWiden == CatSpec => ScopeNeverWidens
<1>1. ASSUME CatInv, [CatNext]_catVars
      PROVE  [catRows' # catRows => /\ catCandidates' \subseteq catCandidates
                                    /\ catProtected' \subseteq catProtected
                                    /\ catPending' \subseteq catPending]_catVars
  BY <1>1, CatNextNames
<1> QED
  BY <1>1, CatInitNames, CatNextNames, PTL DEF CatSpec, ScopeNeverWidens

-----------------------------------------------------------------------------
(* The moves.                                                              *)

\* The files of the candidate at hand are where its commit takes them to be; no
\* season with a folder of its own is lost; between calls nothing is moved.
MoveDone ==
    /\ movePc \in {"server", "commit"} =>
          \/ moveCurrent \in MoveVersions /\ moveFiles[moveCurrent] = "moved"
          \/ moveCurrent \in Seasons /\ (moveFiles[moveCurrent] = "moved" \/ moveCall.flat)
          \/ /\ moveCurrent = WholeSeries
             /\ ~moveCall.flat => \A s \in Seasons : moveFiles[s] = "moved"
    /\ ~moveCall.flat => \A s \in Seasons : moveFiles[s] # "lost"
    /\ movePc = "idle" =>
          /\ moveFiles = [x \in Movable |-> "kept"]
          /\ moveRows = Movable /\ ~moveRemoved
          /\ moveCurrent = NoCandidate

MoveInv == MoveTypeOK /\ MoveDone /\ MovedExactly

\* The names of versions, seasons and scopes do not collide.
LEMMA MoveNames ==
    /\ WholeSeries \notin Movable /\ WholeMovie \notin Movable
    /\ WholeMovie # WholeSeries
    /\ NoCandidate \notin MoveScopes
    /\ MoveVersions \cap Seasons = {} /\ MoveVersions \cap Episodes = {}
    /\ \A s \in Seasons : Within(s) \cap Movable = {s}
<1>1. /\ MoveVersions \cap ({WholeSeries} \cup Seasons \cup Episodes) = {}
      /\ WholeMovie \notin MoveVersions /\ WholeMovie \notin Scopes
      /\ Seasons \cap Episodes = {} /\ WholeSeries \notin Seasons \cup Episodes
      /\ NoCandidate \notin MoveScopes
  BY MoveAssumption, StructureAssumption DEF MoveScopes, Scopes
<1>2. \A s \in Seasons : Within(s) = {s} \cup {e \in Episodes : EpisodeSeason[e] = s}
  BY <1>1 DEF Within, EpisodesOf
<1> QED
  BY <1>1, <1>2 DEF Movable, Scopes

\* The invariant holds before the first call.
LEMMA MoveInitInv == MoveInit => MoveInv
<1> SUFFICES ASSUME MoveInit PROVE MoveInv
  OBVIOUS
<1>1. /\ moveCall = NoMoveCall /\ movePc = "idle" /\ moveCurrent = NoCandidate /\ moveTodo = {}
      /\ moveFiles = [x \in Movable |-> "kept"] /\ moveRows = Movable
      /\ moveRemoved = FALSE /\ moveOpen = {}
  BY DEF MoveInit
<1>2. NoMoveCall \in [chosen : SUBSET MoveScopes, server : {"none", "media", "items"}, flat : BOOLEAN]
  BY DEF NoMoveCall
<1>3. MoveTypeOK
  BY <1>1, <1>2 DEF MoveTypeOK
<1>4. MoveDone /\ MovedExactly
  BY <1>1 DEF MoveDone, MovedExactly, Movable
<1> QED
  BY <1>3, <1>4 DEF MoveInv

\* A call starts with everything in its place.
LEMMA MoveBeginInv ==
    ASSUME MoveInv, MoveBegin
    PROVE  MoveInv'
<1>1. PICK chosen \in (SUBSET MoveScopes) \ {{}}, others \in {{}, MoveScopes},
           server \in {"none", "media", "items"}, flat \in BOOLEAN :
         /\ moveCall' = [chosen |-> chosen, server |-> server, flat |-> flat]
         /\ moveTodo' = chosen
         /\ moveOpen' = chosen \cup others
  BY DEF MoveBegin
<1>2. /\ movePc = "idle" /\ movePc' = "next"
      /\ UNCHANGED <<moveCurrent, moveFiles, moveRows, moveRemoved>>
  BY DEF MoveBegin
<1>3. /\ moveCurrent = NoCandidate /\ moveFiles = [x \in Movable |-> "kept"]
      /\ moveRows = Movable /\ moveRemoved = FALSE
  BY <1>2 DEF MoveInv, MoveTypeOK, MoveDone
<1>4. MoveTypeOK'
  BY <1>1, <1>2, <1>3 DEF MoveInv, MoveTypeOK
<1> QED
  BY <1>1, <1>2, <1>3, <1>4 DEF MoveInv, MoveDone, MovedExactly, Movable

\* What a move of the files of a chosen candidate leaves as it was.
LEMMA FilesMoved ==
    ASSUME MoveInv, NEW c \in moveCall.chosen, CanMove(c),
           moveFiles' = MovedFiles(FilesOfMove(c)), UNCHANGED <<moveCall, moveRows, moveRemoved>>
    PROVE  /\ moveFiles' \in [Movable -> {"kept", "moved", "lost"}]
           /\ MovedExactly'
           /\ ~moveCall.flat => \A s \in Seasons : moveFiles'[s] # "lost"
           /\ \/ c \in MoveVersions /\ moveFiles'[c] = "moved"
              \/ c \in Seasons /\ moveFiles'[c] = "moved"
              \/ /\ c = WholeSeries
                 /\ ~moveCall.flat => \A s \in Seasons : moveFiles'[s] = "moved"
<1>1. c \in MoveVersions \/ c \in Seasons \/ c = WholeSeries
  BY DEF CanMove
<1>2. FilesOfMove(c) \subseteq Movable
  BY <1>1, MoveNames DEF FilesOfMove, Movable
<1>3. moveFiles' \in [Movable -> {"kept", "moved", "lost"}]
  BY DEF MovedFiles, MoveInv, MoveTypeOK
<1>4. \A x \in Movable : moveFiles'[x] = IF x \in FilesOfMove(c) THEN "moved" ELSE moveFiles[x]
  BY DEF MovedFiles
<1>5. \A x \in FilesOfMove(c) : MoveCovers(x)
  BY <1>1, MoveNames DEF FilesOfMove, MoveCovers, Movable
<1>6. MovedExactly'
  BY <1>4, <1>5 DEF MoveInv, MovedExactly, MoveCovers, Movable
<1>7. ~moveCall.flat => \A s \in Seasons : moveFiles'[s] # "lost"
  BY <1>4 DEF MoveInv, MoveDone, Movable
<1>8. CASE c \in MoveVersions \cup Seasons
  BY <1>3, <1>4, <1>6, <1>7, <1>8, MoveNames DEF FilesOfMove, Movable
<1>9. CASE c = WholeSeries
  <2>1. \A s \in Seasons : moveFiles[s] = "kept" => moveFiles'[s] = "moved"
    BY <1>4, <1>9 DEF FilesOfMove, Movable
  <2>2. \A s \in Seasons : moveFiles[s] \in {"kept", "lost"}
    BY <1>9, MoveNames DEF CanMove, MoveInv, MoveTypeOK, Movable
  <2>3. ~moveCall.flat => \A s \in Seasons : moveFiles'[s] = "moved"
    BY <2>1, <2>2 DEF MoveInv, MoveDone
  <2> QED
    BY <1>3, <1>6, <1>7, <1>9, <2>3
<1> QED
  BY <1>1, <1>8, <1>9

\* The candidate at hand is one of the call.
LEMMA AtHand ==
    ASSUME MoveInv, NEW c \in MoveScopes, c = moveCurrent
    PROVE  c \in moveCall.chosen
  BY MoveNames DEF MoveInv, MoveTypeOK

\* Taking up a candidate touches no file.
LEMMA TakeCandidateInv ==
    ASSUME MoveInv, NEW c \in MoveScopes, TakeCandidate(c)
    PROVE  MoveInv'
<1>1. /\ movePc = "next" /\ c \in moveTodo /\ moveCurrent' = c /\ moveTodo' = moveTodo \ {c}
      /\ UNCHANGED <<moveCall, movePc, moveFiles, moveRows, moveRemoved, moveOpen>>
  BY DEF TakeCandidate
<1>2. MoveTypeOK'
  BY <1>1 DEF MoveInv, MoveTypeOK
<1>3. MoveDone' /\ MovedExactly'
  BY <1>1 DEF MoveInv, MoveDone, MovedExactly, MoveCovers
<1> QED
  BY <1>2, <1>3 DEF MoveInv

\* A move that succeeds has brought every file of its candidate over.
LEMMA FilesMoveInv ==
    ASSUME MoveInv, NEW c \in MoveScopes, FilesMove(c)
    PROVE  MoveInv'
<1>1. /\ c = moveCurrent /\ CanMove(c) /\ moveFiles' = MovedFiles(FilesOfMove(c))
      /\ movePc' = "server"
      /\ UNCHANGED <<moveCall, moveCurrent, moveTodo, moveRows, moveRemoved, moveOpen>>
  BY DEF FilesMove
<1>2. c \in moveCall.chosen
  BY <1>1, AtHand
<1>3. /\ moveFiles' \in [Movable -> {"kept", "moved", "lost"}]
      /\ MovedExactly'
      /\ ~moveCall.flat => \A s \in Seasons : moveFiles'[s] # "lost"
      /\ \/ c \in MoveVersions /\ moveFiles'[c] = "moved"
         \/ c \in Seasons /\ moveFiles'[c] = "moved"
         \/ /\ c = WholeSeries
            /\ ~moveCall.flat => \A s \in Seasons : moveFiles'[s] = "moved"
  BY <1>1, <1>2, FilesMoved
<1>4. MoveTypeOK'
  BY <1>1, <1>3 DEF MoveInv, MoveTypeOK
<1>5. MoveDone'
  BY <1>1, <1>3 DEF MoveDone
<1> QED
  BY <1>3, <1>4, <1>5 DEF MoveInv

\* One that fails leaves its rows, wherever its files are.
LEMMA MoveFailsInv ==
    ASSUME MoveInv, NEW c \in MoveScopes, MoveFails(c)
    PROVE  MoveInv'
<1>1. /\ movePc = "next" /\ c = moveCurrent /\ moveCurrent' = NoCandidate
      /\ (CanMove(c) /\ moveFiles' = MovedFiles(FilesOfMove(c))) \/ UNCHANGED moveFiles
      /\ UNCHANGED <<moveCall, movePc, moveTodo, moveRows, moveRemoved, moveOpen>>
  BY DEF MoveFails
<1>2. /\ moveFiles' \in [Movable -> {"kept", "moved", "lost"}]
      /\ MovedExactly'
      /\ ~moveCall.flat => \A s \in Seasons : moveFiles'[s] # "lost"
  <2>1. CASE CanMove(c) /\ moveFiles' = MovedFiles(FilesOfMove(c))
    BY <1>1, <2>1, AtHand, FilesMoved
  <2>2. CASE UNCHANGED moveFiles
    BY <1>1, <2>2 DEF MoveInv, MoveTypeOK, MoveDone, MovedExactly, MoveCovers
  <2> QED
    BY <1>1, <2>1, <2>2
<1>3. MoveTypeOK'
  BY <1>1, <1>2 DEF MoveInv, MoveTypeOK
<1>4. MoveDone'
  BY <1>1, <1>2 DEF MoveDone
<1> QED
  BY <1>2, <1>3, <1>4 DEF MoveInv

\* A season in a shared folder goes on whether its files have moved or not.
LEMMA FlatSeasonInv ==
    ASSUME MoveInv, NEW s \in Seasons, FlatSeasonMoves(s)
    PROVE  MoveInv'
<1>1. /\ s = moveCurrent /\ moveCall.flat /\ movePc' = "server"
      /\ (moveFiles[s] = "kept" /\ moveFiles' = MovedFiles({s})) \/ UNCHANGED moveFiles
      /\ UNCHANGED <<moveCall, moveCurrent, moveTodo, moveRows, moveRemoved, moveOpen>>
  BY DEF FlatSeasonMoves
<1>2. s \in moveCall.chosen /\ s \in Movable
  BY <1>1, AtHand DEF MoveScopes, Scopes, Movable
<1>3. moveFiles' \in [Movable -> {"kept", "moved", "lost"}]
  BY <1>1 DEF MoveInv, MoveTypeOK, MovedFiles
<1>4. \A x \in Movable : moveFiles'[x] = moveFiles[x] \/ (x = s /\ moveFiles'[x] = "moved")
  BY <1>1 DEF MovedFiles
<1>5. MovedExactly'
  BY <1>1, <1>2, <1>4 DEF MoveInv, MovedExactly, MoveCovers
<1>6. MoveTypeOK' /\ MoveDone'
  BY <1>1, <1>3 DEF MoveInv, MoveTypeOK, MoveDone
<1> QED
  BY <1>5, <1>6 DEF MoveInv

\* The server takes nothing that is at the destination, nor anything of a
\* season with a folder of its own.
LEMMA ServerRemovesInv ==
    ASSUME MoveInv, ServerRemoves
    PROVE  MoveInv'
<1>1. /\ movePc = "server" /\ movePc' = "commit"
      /\ moveFiles' = LostFiles(ServerTakes(moveCurrent)) \/ UNCHANGED moveFiles
      /\ UNCHANGED <<moveCall, moveCurrent, moveTodo, moveRows, moveRemoved, moveOpen>>
  BY DEF ServerRemoves
<1>2. \/ moveCurrent \in MoveVersions /\ moveFiles[moveCurrent] = "moved"
      \/ moveCurrent \in Seasons /\ (moveFiles[moveCurrent] = "moved" \/ moveCall.flat)
      \/ /\ moveCurrent = WholeSeries
         /\ ~moveCall.flat => \A s \in Seasons : moveFiles[s] = "moved"
  BY <1>1 DEF MoveInv, MoveDone
<1>3. moveFiles' \in [Movable -> {"kept", "moved", "lost"}]
  BY <1>1 DEF MoveInv, MoveTypeOK, LostFiles
<1>4. \A x \in Movable :
         \/ moveFiles'[x] = moveFiles[x]
         \/ /\ moveFiles[x] = "kept" /\ moveFiles'[x] = "lost"
            /\ x \in ServerTakes(moveCurrent)
  BY <1>1 DEF LostFiles
<1>5. ~moveCall.flat => \A s \in Seasons : moveFiles'[s] = moveFiles[s]
  <2> SUFFICES ASSUME ~moveCall.flat, NEW s \in Seasons, moveFiles[s] = "kept",
                      s \in ServerTakes(moveCurrent)
               PROVE  FALSE
    BY <1>4 DEF Movable
  <2>1. CASE moveCurrent \in MoveVersions
    BY <2>1, MoveNames DEF ServerTakes
  <2>2. CASE moveCurrent \in Seasons
    BY <1>2, <2>2, MoveNames DEF ServerTakes, FilesOfMove, Movable
  <2>3. CASE moveCurrent = WholeSeries
    BY <1>2, <2>3, MoveNames DEF Movable
  <2> QED
    BY <1>2, <2>1, <2>2, <2>3
<1>6. \A x \in Movable : moveFiles[x] = "moved" <=> moveFiles'[x] = "moved"
  BY <1>4
<1>7. MoveTypeOK'
  BY <1>1, <1>3 DEF MoveInv, MoveTypeOK
<1>8. MoveDone'
  BY <1>1, <1>2, <1>5, <1>6 DEF MoveInv, MoveDone, Movable
<1>9. MovedExactly'
  BY <1>1, <1>6 DEF MoveInv, MovedExactly, MoveCovers, Movable
<1> QED
  BY <1>7, <1>8, <1>9 DEF MoveInv

\* The rows that go are those of the candidate whose files are gone.
LEMMA MoveCommitInv ==
    ASSUME MoveInv, MoveCommit
    PROVE  MoveInv'
<1>1. /\ movePc = "commit" /\ movePc' = "next" /\ moveCurrent' = NoCandidate
      /\ UNCHANGED <<moveCall, moveTodo, moveFiles>>
  BY DEF MoveCommit
<1>2. \/ moveCurrent \in MoveVersions /\ moveFiles[moveCurrent] = "moved"
      \/ moveCurrent \in Seasons /\ (moveFiles[moveCurrent] = "moved" \/ moveCall.flat)
      \/ /\ moveCurrent = WholeSeries
         /\ ~moveCall.flat => \A s \in Seasons : moveFiles[s] = "moved"
  BY <1>1 DEF MoveInv, MoveDone
<1>3. CASE moveCurrent = WholeSeries
  <2>1. moveRemoved' = TRUE /\ moveOpen' = moveOpen \ {WholeSeries} /\ UNCHANGED moveRows
    BY <1>3 DEF MoveCommit
  <2>2. MoveTypeOK' /\ MoveDone'
    BY <1>1, <2>1 DEF MoveInv, MoveTypeOK, MoveDone
  <2>3. MovedExactly'
    BY <1>1, <1>2, <1>3, <2>1, MoveNames DEF MoveInv, MovedExactly, MoveCovers, Movable
  <2> QED
    BY <2>2, <2>3 DEF MoveInv
<1>4. CASE moveCurrent # WholeSeries
  <2> DEFINE gone == IF moveCurrent \in Seasons THEN Within(moveCurrent) ELSE {moveCurrent}
  <2>1. /\ moveRows' = moveRows \ gone /\ moveOpen' = moveOpen \ gone
        /\ moveRemoved' = (moveRemoved \/ moveRows' \cap Seasons = {})
    BY <1>4 DEF MoveCommit
  <2>2. gone \cap Movable = {moveCurrent}
    BY <1>2, <1>4, MoveNames DEF Movable
  <2>3. moveRemoved' \in BOOLEAN /\ moveRows' \subseteq Movable /\ moveOpen' \subseteq MoveScopes
    BY <2>1 DEF MoveInv, MoveTypeOK
  <2>4. MoveTypeOK' /\ MoveDone'
    BY <1>1, <2>3 DEF MoveInv, MoveTypeOK, MoveDone
  <2>5. \A x \in Movable \ moveRows' :
           moveFiles[x] = "moved" \/ (x \in Seasons /\ moveCall.flat)
    BY <1>2, <1>4, <2>1, <2>2 DEF MoveInv, MovedExactly
  <2>6. moveRemoved' /\ ~moveCall.flat => \A s \in Seasons : moveFiles[s] = "moved"
    <3>1. CASE moveRemoved
      BY <3>1 DEF MoveInv, MovedExactly
    <3>2. CASE moveRows' \cap Seasons = {}
      BY <2>5, <3>2 DEF Movable
    <3> QED
      BY <2>1, <3>1, <3>2
  <2>7. MovedExactly'
    BY <1>1, <2>5, <2>6 DEF MoveInv, MovedExactly, MoveCovers
  <2> QED
    BY <2>4, <2>7 DEF MoveInv
<1> QED
  BY <1>3, <1>4

\* A commit that fails leaves the rows, a return puts everything back.
LEMMA MoveEndsInv ==
    ASSUME MoveInv, MoveCommitFails \/ MoveReturns
    PROVE  MoveInv'
<1>1. CASE MoveCommitFails
  <2>1. /\ movePc' = "next" /\ moveCurrent' = NoCandidate
        /\ UNCHANGED <<moveCall, moveTodo, moveFiles, moveRows, moveRemoved, moveOpen>>
    BY <1>1 DEF MoveCommitFails
  <2>2. MoveTypeOK' /\ MoveDone'
    BY <2>1 DEF MoveInv, MoveTypeOK, MoveDone
  <2>3. MovedExactly'
    BY <2>1 DEF MoveInv, MovedExactly, MoveCovers
  <2> QED
    BY <2>2, <2>3 DEF MoveInv
<1>2. CASE MoveReturns
  <2>1. /\ moveTodo = {} /\ moveCurrent = NoCandidate
        /\ moveCall' = NoMoveCall /\ movePc' = "idle"
        /\ moveFiles' = [x \in Movable |-> "kept"] /\ moveRows' = Movable
        /\ moveRemoved' = FALSE /\ moveOpen' = {} /\ UNCHANGED <<moveCurrent, moveTodo>>
    BY <1>2 DEF MoveReturns
  <2>2. NoMoveCall \in [chosen : SUBSET MoveScopes, server : {"none", "media", "items"}, flat : BOOLEAN]
    BY DEF NoMoveCall
  <2>3. MoveTypeOK'
    BY <2>1, <2>2 DEF MoveTypeOK
  <2>4. MoveDone' /\ MovedExactly'
    BY <2>1 DEF MoveDone, MovedExactly, Movable
  <2> QED
    BY <2>3, <2>4 DEF MoveInv
<1> QED
  BY <1>1, <1>2

\* Every step of a call keeps the invariant.
LEMMA MoveNextInv ==
    ASSUME MoveInv, [MoveNext]_moveVars
    PROVE  MoveInv'
<1>1. CASE UNCHANGED moveVars
  BY <1>1 DEF MoveInv, MoveTypeOK, MoveDone, MovedExactly, MoveCovers, moveVars
<1>2. CASE MoveBegin
  BY <1>2, MoveBeginInv
<1>3. ASSUME NEW c \in MoveScopes, TakeCandidate(c) \/ FilesMove(c) \/ MoveFails(c)
      PROVE  MoveInv'
  BY <1>3, TakeCandidateInv, FilesMoveInv, MoveFailsInv
<1>4. ASSUME NEW s \in Seasons, FlatSeasonMoves(s)
      PROVE  MoveInv'
  BY <1>4, FlatSeasonInv
<1>5. CASE ServerRemoves
  BY <1>5, ServerRemovesInv
<1>6. CASE MoveCommit
  BY <1>6, MoveCommitInv
<1>7. CASE MoveCommitFails \/ MoveReturns
  BY <1>7, MoveEndsInv
<1> QED
  BY <1>1, <1>2, <1>3, <1>4, <1>5, <1>6, <1>7 DEF MoveNext

\* Whatever a call is given and wherever it stops, its files, its rows and the
\* candidate at hand agree: _move_specific_candidates_impl removes rows only
\* after move_media, move_directory or move_season_files has run for them.
THEOREM MoveInvariance == MoveSpec => []MoveInv
<1> QED
  BY MoveInitInv, MoveNextInv, PTL DEF MoveSpec

\* Files reach the destination only for a candidate of the call, and a version,
\* a season with a folder of its own, or a series is recorded as gone only
\* when none of its files is left behind.
THEOREM MovedExactlyHolds == MoveSpec => []MovedExactly
<1>1. MoveInv => MovedExactly
  BY DEF MoveInv
<1> QED
  BY <1>1, MoveInvariance, PTL
=============================================================================
