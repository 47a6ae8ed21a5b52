--------------------------- MODULE DeletionProofs ---------------------------
(***************************************************************************)
(* The deletion of a movie's and of a series' candidates and the Leaving   *)
(* Soon collections, for any versions, instances, seasons, episodes,       *)
(* servers and titles: nothing is lost that no candidate names, both       *)
(* deletions implement DeletionCall, and the collections are pruned before *)
(* candidates go.                                                          *)
(*                                                                         *)
(* The invariant of either deletion has three parts: its shape (types, the *)
(* candidate at hand is an open one of the call, nothing is left of the    *)
(* call before), what must not be lost, and that what it counted as        *)
(* deleted is no more than what went.  The last part is what makes the     *)
(* final marking enough: a call that counted everything has nothing left.  *)
(***************************************************************************)
EXTENDS DeletionRoutes, FiniteSetTheorems, TLAPS

\* A proper part of a finite set has fewer members.
LEMMA CardinalityLess ==
    ASSUME NEW S, IsFiniteSet(S), NEW T \in SUBSET S
    PROVE  /\ Cardinality(S) \in Nat /\ Cardinality(T) \in Nat /\ IsFiniteSet(T)
           /\ Cardinality(T) <= Cardinality(S)
           /\ T # S => Cardinality(T) + 1 <= Cardinality(S)
<1>1. /\ IsFiniteSet(T) /\ Cardinality(T) <= Cardinality(S)
      /\ Cardinality(S) = Cardinality(T) => S = T
  BY FS_Subset
<1>2. Cardinality(S) \in Nat /\ Cardinality(T) \in Nat
  BY <1>1, FS_CardinalityType
<1> QED
  BY <1>1, <1>2

\* Whatever rules matched, the action is one Radarr and Sonarr know.
LEMMA ActionTyped ==
    ASSUME NEW rules \in SUBSET {"delete", "unmonitor"},
           NEW default \in {"unmonitor", "remove_if_empty"}
    PROVE  GetArrAction(rules, default) \in ArrDeleteAction
  BY DEF GetArrAction, ArrDeleteAction

-----------------------------------------------------------------------------
(* A movie.                                                                *)

\* What a call may be, with the candidates it was given.
MovieCallOK ==
    /\ movieCall.layout \in Layouts
    /\ movieCall.refs \subseteq Radarrs /\ movieCall.clients \subseteq Radarrs
    /\ movieCall.settings \in MovieSettings

\* Between calls nothing is left of the last one.
MovieFresh ==
    moviePc = "idle" =>
        /\ movieCall = NoMovieCall
        /\ movieFiles = [v \in Versions |-> "kept"]
        /\ movieRows = Versions
        /\ ~movieRemoved
        /\ movieOpen = {} /\ movieExplained = {} /\ movieTodo = {}
        /\ movieRefs = {} /\ movieDone = {} /\ movieEntries = {}
        /\ movieDeleted = 0

\* Before a commit, what it counts is still open.
MovieStillOpen ==
    /\ moviePc \in {"route", "versions", "radarr", "disk", "commit"} =>
           RoutedCandidates \subseteq movieOpen /\ (WholeMovie => Whole \in movieOpen)
    /\ moviePc = "server" /\ movieDone = {} /\ WholeMovie => Whole \in movieOpen
    /\ moviePc = "route" => movieOpen = Chosen
    /\ moviePc \in {"disk", "commit"} => movieDone # {}
    /\ movieTodo \subseteq movieOpen
    /\ movieTodo # {} => movieCall.settings.main # "none"

\* A call that returns has explained what is left, or counted everything.
MovieTold ==
    moviePc = "done" =>
        movieOpen \subseteq movieExplained \/ ~(Cardinality(Chosen) > movieDeleted)

\* The shape of a call.
MovieShape ==
    /\ MovieTypeOK
    /\ moviePc # "idle" => MovieCallOK
    /\ MovieFresh
    /\ MovieStillOpen
    /\ MovieTold

\* The candidates and the routes of a call depend on what it has read.
LEMMA MovieRoutesStay ==
    ASSUME movieCall' = movieCall
    PROVE  /\ Chosen' = Chosen /\ WholeMovie' = WholeMovie
           /\ UnmatchedVersions' = UnmatchedVersions /\ RoutedCandidates' = RoutedCandidates
           /\ MovieArrRouting' = MovieArrRouting
           /\ Unselected' = Unselected
           /\ MovieCallOK' = MovieCallOK
  BY
  DEF Chosen, WholeMovie, UnmatchedVersions, RoutedCandidates, MovieArrRouting,
      RoutedVersions, ChosenVersions, Unselected, MatchVersionToArr, ActiveRefs, InFolder,
      MovieAction, CandidateCoversFullRadarrEntry, MovieCallOK

\* A candidate that goes to Radarr does not go to the media server first.
RoutesAreApart ==
    /\ UnmatchedVersions \subseteq Chosen /\ Whole \notin UnmatchedVersions
    /\ RoutedCandidates \subseteq Chosen
    /\ UnmatchedVersions \cap RoutedCandidates = {}
    /\ MovieArrRouting # {} => RoutedCandidates # {}

\* They are, in every state.
LEMMA MovieRoutesApart == RoutesAreApart /\ RoutesAreApart'
  BY MovieAssumption
  DEF RoutesAreApart, UnmatchedVersions, RoutedCandidates, RoutedVersions, ChosenVersions,
      WholeMovie, MovieArrRouting, ActiveRefs

\* The shape holds at the start.
LEMMA MovieInitShape == MovieInit => MovieShape
<1> SUFFICES ASSUME MovieInit PROVE MovieShape
  OBVIOUS
<1>1. Chosen = {} /\ ~WholeMovie
  BY DEF MovieInit, NoMovieCall, Chosen, WholeMovie
<1>2. MovieTypeOK
  BY <1>1 DEF MovieInit, MovieTypeOK
<1>3. MovieFresh /\ MovieStillOpen
  BY <1>1 DEF MovieInit, MovieFresh, MovieStillOpen
<1> QED
  BY <1>2, <1>3 DEF MovieInit, MovieShape, MovieTold

\* What a call has when it starts.
LEMMA MovieBeginGives ==
    ASSUME MovieBegin
    PROVE  /\ moviePc = "idle" /\ moviePc' \in {"tally", "route"}
           /\ MovieCallOK'
           /\ movieOpen' = Chosen' /\ Chosen' \subseteq Versions \cup {Whole}
           /\ Cardinality(Chosen') \in 1..MaxCandidates
           /\ movieEntries' = movieCall'.refs
           /\ UNCHANGED <<movieFiles, movieRows, movieRemoved, movieExplained, movieTodo,
                          movieRefs, movieDone, movieDeleted>>
<1>1. PICK layout \in Layouts, chosen \in SUBSET (Versions \cup {Whole}) :
           /\ Cardinality(chosen) \in 1..MaxCandidates
           /\ \E refs \in SUBSET Radarrs :
              \E known \in SUBSET refs, clients \in SUBSET Radarrs, settings \in MovieSettings,
                 default \in {"unmonitor", "remove_if_empty"},
                 rules \in [chosen -> SUBSET {"delete", "unmonitor"}] :
                  MovieCallStarts(
                      [layout |-> layout, refs |-> refs, known |-> known, clients |-> clients,
                       action |-> [c \in chosen |-> GetArrAction(rules[c], default)],
                       settings |-> settings])
  BY Zenon DEF MovieBegin
<1>2. PICK refs \in SUBSET Radarrs :
              \E known \in SUBSET refs, clients \in SUBSET Radarrs, settings \in MovieSettings,
                 default \in {"unmonitor", "remove_if_empty"},
                 rules \in [chosen -> SUBSET {"delete", "unmonitor"}] :
                  MovieCallStarts(
                      [layout |-> layout, refs |-> refs, known |-> known, clients |-> clients,
                       action |-> [c \in chosen |-> GetArrAction(rules[c], default)],
                       settings |-> settings])
  BY <1>1, Zenon
<1>3. PICK known \in SUBSET refs, clients \in SUBSET Radarrs, settings \in MovieSettings,
                 default \in {"unmonitor", "remove_if_empty"},
                 rules \in [chosen -> SUBSET {"delete", "unmonitor"}] :
                  MovieCallStarts(
                      [layout |-> layout, refs |-> refs, known |-> known, clients |-> clients,
                       action |-> [c \in chosen |-> GetArrAction(rules[c], default)],
                       settings |-> settings])
  BY <1>2, Zenon
<1>4. DOMAIN movieCall'.action = chosen
  BY <1>3 DEF MovieCallStarts
<1> QED
  BY <1>1, <1>3, <1>4 DEF MovieBegin, MovieCallStarts, MovieCallOK, Chosen

\* A call starts.
LEMMA MovieBeginShape ==
    ASSUME MovieShape, MovieBegin
    PROVE  MovieShape'
<1>1. MovieTypeOK'
  BY MovieBeginGives DEF MovieShape, MovieTold, MovieTypeOK, MovieFresh, MovieCallOK
<1>2. MovieFresh' /\ MovieStillOpen'
  BY MovieBeginGives, MovieRoutesApart
  DEF RoutesAreApart, MovieShape, MovieTold, MovieFresh, MovieStillOpen, WholeMovie
<1> QED
  BY <1>1, <1>2, MovieBeginGives DEF MovieShape, MovieTold

\* The candidates are routed.
LEMMA MovieRouteShape ==
    ASSUME MovieShape, MovieRoute
    PROVE  MovieShape'
<1>1. movieCall' = movieCall
  BY DEF MovieRoute
<1>2. MovieTypeOK'
  BY <1>1, MovieRoutesStay, MovieRoutesApart
  DEF MovieRoute, RoutesAreApart, MovieShape, MovieTold, MovieTypeOK
<1>3. MovieFresh' /\ MovieStillOpen'
  BY <1>1, MovieRoutesStay, MovieRoutesApart
  DEF MovieRoute, RoutesAreApart, MovieShape, MovieTold, MovieTypeOK, MovieFresh,
      MovieStillOpen
<1>4. MovieTold'
  BY <1>1, MovieRoutesStay DEF MovieRoute, MovieShape, MovieTold
<1>5. moviePc # "idle"
  BY DEF MovieRoute
<1> QED
  BY <1>1, <1>2, <1>3, <1>4, <1>5, MovieRoutesStay DEF MovieShape, MovieTold

\* The media server fails for a version.
LEMMA VersionFailsShape ==
    ASSUME MovieShape, NEW v \in Versions, MovieVersionFails(v)
    PROVE  MovieShape'
<1>1. movieCall' = movieCall
  BY DEF MovieVersionFails
<1>2. MovieTypeOK'
  BY <1>1, MovieRoutesStay, MovieRoutesApart
  DEF MovieVersionFails, Gone, RoutesAreApart, MovieShape, MovieTold, MovieTypeOK
<1>3. MovieFresh' /\ MovieStillOpen'
  BY <1>1, MovieRoutesStay, MovieRoutesApart
  DEF MovieVersionFails, Gone, RoutesAreApart, MovieShape, MovieTold, MovieTypeOK, MovieFresh,
      MovieStillOpen
<1>4. MovieTold'
  BY <1>1, MovieRoutesStay DEF MovieVersionFails, Gone, MovieShape, MovieTold
<1>5. moviePc # "idle"
  BY DEF MovieVersionFails
<1> QED
  BY <1>1, <1>2, <1>3, <1>4, <1>5, MovieRoutesStay DEF MovieShape, MovieTold

\* The media server deletes a version.
LEMMA VersionDeletedShape ==
    ASSUME MovieShape, NEW v \in Versions, MovieVersionDeleted(v)
    PROVE  MovieShape'
<1>1. movieCall' = movieCall
  BY DEF MovieVersionDeleted
<1>2. MovieTypeOK'
  BY <1>1, MovieRoutesStay, MovieRoutesApart
  DEF MovieVersionDeleted, Gone, RoutesAreApart, MovieShape, MovieTold, MovieTypeOK
<1>3. MovieFresh' /\ MovieStillOpen'
  BY <1>1, MovieRoutesStay, MovieRoutesApart
  DEF MovieVersionDeleted, Gone, RoutesAreApart, MovieShape, MovieTold, MovieTypeOK,
      MovieFresh, MovieStillOpen
<1>4. MovieTold'
  BY <1>1, MovieRoutesStay DEF MovieVersionDeleted, Gone, MovieShape, MovieTold
<1>5. moviePc # "idle"
  BY DEF MovieVersionDeleted
<1> QED
  BY <1>1, <1>2, <1>3, <1>4, <1>5, MovieRoutesStay DEF MovieShape, MovieTold

\* The versions for the media server are done.
LEMMA VersionsDoneShape ==
    ASSUME MovieShape, MovieVersionsDone
    PROVE  MovieShape'
<1>1. movieCall' = movieCall
  BY DEF MovieVersionsDone
<1>2. MovieTypeOK'
  BY <1>1, MovieRoutesStay, MovieRoutesApart
  DEF MovieVersionsDone, movieData, movieWork, RoutesAreApart, MovieShape, MovieTold,
      MovieTypeOK
<1>3. MovieFresh' /\ MovieStillOpen'
  BY <1>1, MovieRoutesStay, MovieRoutesApart
  DEF MovieVersionsDone, movieData, movieWork, RoutesAreApart, MovieShape, MovieTold,
      MovieTypeOK, MovieFresh, MovieStillOpen
<1>4. MovieTold'
  BY <1>1, MovieRoutesStay DEF MovieVersionsDone, movieData, movieWork, MovieShape, MovieTold
<1>5. moviePc # "idle"
  BY DEF MovieVersionsDone
<1> QED
  BY <1>1, <1>2, <1>3, <1>4, <1>5, MovieRoutesStay DEF MovieShape, MovieTold

\* A Radarr instance accepts.
LEMMA RadarrAcceptsShape ==
    ASSUME MovieShape, NEW c \in Radarrs, MovieRadarrAccepts(c)
    PROVE  MovieShape'
<1>1. movieCall' = movieCall
  BY DEF MovieRadarrAccepts
<1>2. MovieTypeOK'
  BY <1>1, MovieRoutesStay, MovieRoutesApart
  DEF MovieRadarrAccepts, MovieRadarrDeletes, MovesBefore, Gone, RoutesAreApart, MovieShape,
      MovieTold, MovieTypeOK
<1>3. MovieFresh' /\ MovieStillOpen'
  BY <1>1, MovieRoutesStay, MovieRoutesApart
  DEF MovieRadarrAccepts, MovieRadarrDeletes, MovesBefore, Gone, RoutesAreApart, MovieShape,
      MovieTold, MovieTypeOK, MovieFresh, MovieStillOpen
<1>4. MovieTold'
  BY <1>1, MovieRoutesStay
  DEF MovieRadarrAccepts, MovieRadarrDeletes, MovesBefore, Gone, MovieShape, MovieTold
<1>5. moviePc # "idle"
  BY DEF MovieRadarrAccepts
<1> QED
  BY <1>1, <1>2, <1>3, <1>4, <1>5, MovieRoutesStay DEF MovieShape, MovieTold

\* A Radarr instance raises, after or before it did its work.
LEMMA RadarrRaisesShape ==
    ASSUME MovieShape, NEW c \in Radarrs, MovieRadarrRaises(c)
    PROVE  MovieShape'
<1>1. movieCall' = movieCall
  BY DEF MovieRadarrRaises
<1>2. MovieTypeOK'
  BY <1>1, MovieRoutesStay, MovieRoutesApart
  DEF MovieRadarrRaises, MovieRadarrDeletes, MovesBefore, Gone, RoutesAreApart, MovieShape,
      MovieTold, MovieTypeOK
<1>3. MovieFresh' /\ MovieStillOpen'
  BY <1>1, MovieRoutesStay, MovieRoutesApart
  DEF MovieRadarrRaises, MovieRadarrDeletes, MovesBefore, Gone, RoutesAreApart, MovieShape,
      MovieTold, MovieTypeOK, MovieFresh, MovieStillOpen
<1>4. MovieTold'
  BY <1>1, MovieRoutesStay
  DEF MovieRadarrRaises, MovieRadarrDeletes, MovesBefore, Gone, MovieShape, MovieTold
<1>5. moviePc # "idle"
  BY DEF MovieRadarrRaises
<1> QED
  BY <1>1, <1>2, <1>3, <1>4, <1>5, MovieRoutesStay DEF MovieShape, MovieTold

\* Every Radarr instance was called.
LEMMA RadarrDoneShape ==
    ASSUME MovieShape, MovieRadarrDone
    PROVE  MovieShape'
<1>1. movieCall' = movieCall
  BY DEF MovieRadarrDone
<1>2. MovieTypeOK'
  BY <1>1, MovieRoutesStay, MovieRoutesApart
  DEF MovieRadarrDone, movieData, movieWork, RoutesAreApart, MovieShape, MovieTold,
      MovieTypeOK
<1>3. MovieFresh' /\ MovieStillOpen'
  BY <1>1, MovieRoutesStay, MovieRoutesApart
  DEF MovieRadarrDone, movieData, movieWork, RoutesAreApart, MovieShape, MovieTold,
      MovieTypeOK, MovieFresh, MovieStillOpen
<1>4. MovieTold'
  BY <1>1, MovieRoutesStay DEF MovieRadarrDone, movieData, movieWork, MovieShape, MovieTold
<1>5. moviePc # "idle"
  BY DEF MovieRadarrDone
<1> QED
  BY <1>1, <1>2, <1>3, <1>4, <1>5, MovieRoutesStay DEF MovieShape, MovieTold

\* Files of unmonitored movies go.
LEMMA UnmonitorFilesShape ==
    ASSUME MovieShape, MovieUnmonitorFiles
    PROVE  MovieShape'
<1>1. movieCall' = movieCall
  BY DEF MovieUnmonitorFiles
<1>2. MovieTypeOK'
  BY <1>1, MovieRoutesStay, MovieRoutesApart
  DEF MovieUnmonitorFiles, Gone, movieData, movieWork, RoutesAreApart, MovieShape, MovieTold,
      MovieTypeOK
<1>3. MovieFresh' /\ MovieStillOpen'
  BY <1>1, MovieRoutesStay, MovieRoutesApart
  DEF MovieUnmonitorFiles, Gone, movieData, movieWork, RoutesAreApart, MovieShape, MovieTold,
      MovieTypeOK, MovieFresh, MovieStillOpen
<1>4. MovieTold'
  BY <1>1, MovieRoutesStay
  DEF MovieUnmonitorFiles, Gone, movieData, movieWork, MovieShape, MovieTold
<1>5. moviePc # "idle"
  BY DEF MovieUnmonitorFiles
<1> QED
  BY <1>1, <1>2, <1>3, <1>4, <1>5, MovieRoutesStay DEF MovieShape, MovieTold

\* What Radarr did is recorded.
LEMMA MovieCommitShape ==
    ASSUME MovieShape, MovieCommit
    PROVE  MovieShape'
<1>1. movieCall' = movieCall
  BY DEF MovieCommit
<1>2. MovieTypeOK'
  BY <1>1, MovieRoutesStay, MovieRoutesApart
  DEF MovieCommit, RoutesAreApart, MovieShape, MovieTold, MovieTypeOK
<1>3. MovieFresh' /\ MovieStillOpen'
  BY <1>1, MovieRoutesStay, MovieRoutesApart
  DEF MovieCommit, RoutesAreApart, MovieShape, MovieTold, MovieTypeOK, MovieFresh,
      MovieStillOpen
<1>4. MovieTold'
  BY <1>1, MovieRoutesStay DEF MovieCommit, MovieShape, MovieTold
<1>5. moviePc # "idle"
  BY DEF MovieCommit
<1> QED
  BY <1>1, <1>2, <1>3, <1>4, <1>5, MovieRoutesStay DEF MovieShape, MovieTold

\* Recording it fails.
LEMMA MovieCommitFailsShape ==
    ASSUME MovieShape, MovieCommitFails
    PROVE  MovieShape'
<1>1. movieCall' = movieCall
  BY DEF MovieCommitFails
<1>2. MovieTypeOK'
  BY <1>1, MovieRoutesStay, MovieRoutesApart
  DEF MovieCommitFails, movieData, movieWork, RoutesAreApart, MovieShape, MovieTold,
      MovieTypeOK
<1>3. MovieFresh' /\ MovieStillOpen'
  BY <1>1, MovieRoutesStay, MovieRoutesApart
  DEF MovieCommitFails, movieData, movieWork, RoutesAreApart, MovieShape, MovieTold,
      MovieTypeOK, MovieFresh, MovieStillOpen
<1>4. MovieTold'
  BY <1>1, MovieRoutesStay DEF MovieCommitFails, movieData, movieWork, MovieShape, MovieTold
<1>5. moviePc # "idle"
  BY DEF MovieCommitFails
<1> QED
  BY <1>1, <1>2, <1>3, <1>4, <1>5, MovieRoutesStay DEF MovieShape, MovieTold

\* The media server deletes the movie.
LEMMA ServerDeletesShape ==
    ASSUME MovieShape, MovieServerDeletes
    PROVE  MovieShape'
<1>1. movieCall' = movieCall
  BY DEF MovieServerDeletes
<1>2. MovieTypeOK'
  BY <1>1, MovieRoutesStay, MovieRoutesApart
  DEF MovieServerDeletes, ServerFallback, Gone, RoutesAreApart, MovieShape, MovieTold,
      MovieTypeOK
<1>3. MovieFresh' /\ MovieStillOpen'
  BY <1>1, MovieRoutesStay, MovieRoutesApart
  DEF MovieServerDeletes, ServerFallback, Gone, RoutesAreApart, MovieShape, MovieTold,
      MovieTypeOK, MovieFresh, MovieStillOpen
<1>4. MovieTold'
  BY <1>1, MovieRoutesStay DEF MovieServerDeletes, ServerFallback, Gone, MovieShape, MovieTold
<1>5. moviePc # "idle"
  BY DEF MovieServerDeletes
<1> QED
  BY <1>1, <1>2, <1>3, <1>4, <1>5, MovieRoutesStay DEF MovieShape, MovieTold

\* It does not, or is not asked to.
LEMMA ServerDoesNotShape ==
    ASSUME MovieShape, MovieServerDoesNot
    PROVE  MovieShape'
<1>1. movieCall' = movieCall
  BY DEF MovieServerDoesNot
<1>2. MovieTypeOK'
  BY <1>1, MovieRoutesStay, MovieRoutesApart
  DEF MovieServerDoesNot, ServerFallback, Gone, movieData, movieWork, RoutesAreApart,
      MovieShape, MovieTold, MovieTypeOK
<1>3. MovieFresh' /\ MovieStillOpen'
  BY <1>1, MovieRoutesStay, MovieRoutesApart
  DEF MovieServerDoesNot, ServerFallback, Gone, movieData, movieWork, RoutesAreApart,
      MovieShape, MovieTold, MovieTypeOK, MovieFresh, MovieStillOpen
<1>4. MovieTold'
  BY <1>1, MovieRoutesStay
  DEF MovieServerDoesNot, ServerFallback, Gone, movieData, movieWork, MovieShape, MovieTold
<1>5. moviePc # "idle"
  BY DEF MovieServerDoesNot
<1> QED
  BY <1>1, <1>2, <1>3, <1>4, <1>5, MovieRoutesStay DEF MovieShape, MovieTold

\* What is left is marked.
LEMMA MovieTallyShape ==
    ASSUME MovieShape, MovieTally
    PROVE  MovieShape'
<1>1. movieCall' = movieCall
  BY DEF MovieTally
<1>2. MovieTypeOK'
  BY <1>1, MovieRoutesStay, MovieRoutesApart
  DEF MovieTally, movieData, movieWork, RoutesAreApart, MovieShape, MovieTold, MovieTypeOK
<1>3. MovieFresh' /\ MovieStillOpen'
  BY <1>1, MovieRoutesStay, MovieRoutesApart
  DEF MovieTally, movieData, movieWork, RoutesAreApart, MovieShape, MovieTold, MovieTypeOK,
      MovieFresh, MovieStillOpen
<1>4. MovieTold'
  BY <1>1, MovieRoutesStay DEF MovieTally, movieData, movieWork, MovieShape, MovieTold
<1>5. moviePc # "idle"
  BY DEF MovieTally
<1> QED
  BY <1>1, <1>2, <1>3, <1>4, <1>5, MovieRoutesStay DEF MovieShape, MovieTold

\* The call returns.
LEMMA MovieReturnShape ==
    ASSUME MovieShape, MovieReturn
    PROVE  MovieShape'
<1>1. Chosen' = {} /\ ~WholeMovie'
  BY DEF MovieReturn, NoMovieCall, Chosen, WholeMovie
<1>2. MovieTypeOK'
  BY <1>1 DEF MovieReturn, MovieTypeOK
<1>3. MovieFresh' /\ MovieStillOpen'
  BY <1>1 DEF MovieReturn, MovieFresh, MovieStillOpen
<1> QED
  BY <1>2, <1>3 DEF MovieReturn, MovieShape, MovieTold

\* A step of a call under way.
MovieWorks == MovieProgress /\ ~MovieReturn

\* What a call has read stays while it runs.
LEMMA MovieCallStays ==
    ASSUME MovieWorks
    PROVE  movieCall' = movieCall /\ moviePc # "idle" /\ moviePc' # "idle"
  BY
  DEF MovieWorks, MovieProgress, MovieRoute, MovieVersionFails, MovieVersionDeleted,
      MovieVersionsDone, MovieRadarrAccepts, MovieRadarrRaises, MovieRadarrDone,
      MovieUnmonitorFiles, MovieCommit, MovieCommitFails, MovieServerDeletes,
      MovieServerDoesNot, MovieTally

\* An instance that is called for versions holds no unselected file.
LEMMA RoutedFolder ==
    ASSUME MovieShape, moviePc # "idle", NEW w \in Unselected, NEW c \in MovieArrRouting,
           MovieAction # "unmonitor"
    PROVE  movieCall.layout[w].folder # c
<1>1. ~WholeMovie /\ w \in Versions \ ChosenVersions
  BY DEF Unselected
<1>2. PICK v \in RoutedVersions : c \in MatchVersionToArr(v)
  BY <1>1 DEF MovieArrRouting
<1>3. CandidateCoversFullRadarrEntry(MatchVersionToArr(v))
  BY <1>2 DEF RoutedVersions
<1>4. \/ InFolder(c) = {}
      \/ InFolder(c) \subseteq ChosenVersions
      \/ ChosenVersions = Versions
  BY <1>2, <1>3 DEF CandidateCoversFullRadarrEntry
<1> QED
  BY <1>1, <1>4 DEF InFolder

\* What the media server deletes for a version is a selected version.
LEMMA ServerDeletesSelected ==
    ASSUME MovieShape, NEW v \in movieTodo, Deletable(v), NEW w \in Unselected
    PROVE  w \notin VersionFiles(v)
<1>1. w \in Versions \ ChosenVersions /\ v \in ChosenVersions /\ v \in Versions /\ moviePc # "idle"
  BY
  DEF Unselected, MovieShape, MovieTold, MovieTypeOK, MovieFresh, UnmatchedVersions,
      ChosenVersions
<1>2. movieCall.settings.main \in {"plex", "jellyfin"}
  BY <1>1, MovieAssumption DEF MovieShape, MovieTold, MovieStillOpen, MovieCallOK
<1>3. CASE movieCall.settings.main = "plex"
  BY <1>1, <1>3 DEF VersionFiles
<1>4. CASE movieCall.settings.main = "jellyfin"
  <2>1. v \in SameItem(v)
    BY <1>1 DEF Deletable, SameItem, OfMain
  <2>2. Cardinality(SameItem(v)) = 1
    BY <1>4 DEF Deletable
  <2>3. IsFiniteSet(SameItem(v))
    BY MovieAssumption, FS_Subset DEF SameItem, OfMain
  <2>4. SameItem(v) = {v}
    BY <2>1, <2>2, <2>3, FS_Singleton
  <2> QED
    BY <1>1, <1>4, <2>4 DEF VersionFiles
<1> QED
  BY <1>2, <1>3, <1>4

\* No step deletes the file of an unselected version.
LEMMA MovieFilesKept ==
    ASSUME MovieShape, MovieWorks, NEW w \in Unselected, movieFiles[w] # "gone"
    PROVE  movieFiles'[w] # "gone"
<1>0. w \in Versions /\ ~WholeMovie /\ w \notin ChosenVersions
  BY DEF Unselected
<1>1. ASSUME NEW v \in Versions, MovieVersionFails(v) \/ MovieVersionDeleted(v)
      PROVE  movieFiles'[w] # "gone"
  BY <1>0, <1>1, ServerDeletesSelected DEF MovieVersionFails, MovieVersionDeleted, Gone
<1>2. ASSUME NEW c \in Radarrs, MovieRadarrAccepts(c) \/ MovieRadarrRaises(c)
      PROVE  movieFiles'[w] # "gone"
  <2>1. moviePc # "idle" /\ c \in MovieArrRouting
    BY <1>2 DEF MovieRadarrAccepts, MovieRadarrRaises, MovieShape, MovieTold, MovieTypeOK
  <2>2. MovesBefore => movieFiles'[w] # "gone"
    BY <1>0 DEF MovesBefore
  <2>3. MovieRadarrDeletes(c) => movieFiles'[w] # "gone"
    <3>1. CASE MovieAction # "unmonitor"
      BY <1>0, <2>1, <2>2, <3>1, RoutedFolder DEF MovieRadarrDeletes, Gone, InFolder
    <3> QED
      BY <3>1 DEF MovieRadarrDeletes
  <2> QED
    BY <1>2, <2>2, <2>3 DEF MovieRadarrAccepts, MovieRadarrRaises
<1>3. CASE MovieUnmonitorFiles
  BY <1>0, <1>3 DEF MovieUnmonitorFiles, UnmonitorTargets, ItemTargets, Gone
<1>4. CASE MovieServerDeletes \/ MovieServerDoesNot
  BY <1>0, <1>4 DEF MovieServerDeletes, MovieServerDoesNot, ServerFallback
<1>5. CASE \/ MovieRoute \/ MovieVersionsDone \/ MovieRadarrDone
           \/ MovieCommit \/ MovieCommitFails \/ MovieTally
  BY <1>5
  DEF MovieRoute, MovieVersionsDone, MovieRadarrDone, MovieCommit, MovieCommitFails,
      MovieTally, movieData
<1> QED
  BY <1>1, <1>2, <1>3, <1>4, <1>5 DEF MovieWorks, MovieProgress

\* No step deletes its row, or marks its movie as removed.
LEMMA MovieRowsKept ==
    ASSUME MovieShape, MovieWorks, NEW w \in Unselected, w \in movieRows, ~movieRemoved
    PROVE  w \in movieRows' /\ ~movieRemoved'
<1>0. w \in Versions /\ ~WholeMovie /\ w \notin ChosenVersions
  BY DEF Unselected
<1>1. ASSUME NEW v \in Versions, MovieVersionDeleted(v)
      PROVE  w \in movieRows' /\ ~movieRemoved'
  <2>1. w # v
    BY <1>0, <1>1
    DEF MovieVersionDeleted, MovieShape, MovieTold, MovieTypeOK, UnmatchedVersions
  <2>2. movieRows' = movieRows \ {v} /\ (movieRemoved' = (movieRemoved \/ movieRows' = {}))
    BY <1>1 DEF MovieVersionDeleted
  <2> QED
    BY <2>1, <2>2
<1>2. CASE MovieCommit
  <2>1. movieRows' = movieRows \ ChosenVersions
        /\ (movieRemoved' = (movieRemoved \/ WholeMovie \/ movieRows' = {}))
    BY <1>0, <1>2 DEF MovieCommit
  <2> QED
    BY <1>0, <2>1
<1>3. CASE MovieServerDeletes
  BY <1>0, <1>3 DEF MovieServerDeletes, ServerFallback
<1>4. CASE ~(MovieCommit \/ MovieServerDeletes \/ \E v \in Versions : MovieVersionDeleted(v))
  <2>1. movieRows' = movieRows /\ movieRemoved' = movieRemoved
    BY <1>4
    DEF MovieWorks, MovieProgress, MovieRoute, MovieVersionFails, MovieVersionsDone,
        MovieRadarrAccepts, MovieRadarrRaises, MovieRadarrDone, MovieUnmonitorFiles,
        MovieCommitFails, MovieServerDoesNot, MovieTally, movieData
  <2> QED
    BY <2>1
<1> QED
  BY <1>1, <1>2, <1>3, <1>4

\* No step deletes the entry its Radarr instance keeps.
LEMMA MovieEntriesKept ==
    ASSUME MovieShape, MovieWorks, NEW w \in Unselected, w \in movieRows, ~movieRemoved,
           movieCall.layout[w].folder \in movieEntries
    PROVE  movieCall.layout[w].folder \in movieEntries'
<1>1. ASSUME NEW v \in Versions, MovieVersionDeleted(v)
      PROVE  movieCall.layout[w].folder \in movieEntries'
  <2>1. ~movieRemoved'
    BY <1>1, MovieRowsKept
  <2> QED
    BY <1>1, <2>1 DEF MovieVersionDeleted
<1>2. ASSUME NEW c \in Radarrs, MovieRadarrAccepts(c) \/ MovieRadarrRaises(c)
      PROVE  movieCall.layout[w].folder \in movieEntries'
  <2>1. moviePc # "idle" /\ c \in MovieArrRouting
    BY <1>2 DEF MovieRadarrAccepts, MovieRadarrRaises, MovieShape, MovieTold, MovieTypeOK
  <2>2. MovieRadarrDeletes(c) => movieCall.layout[w].folder \in movieEntries'
    <3>1. CASE MovieAction # "unmonitor"
      BY <2>1, <3>1, RoutedFolder DEF MovieRadarrDeletes
    <3> QED
      BY <3>1 DEF MovieRadarrDeletes
  <2> QED
    BY <1>2, <2>2 DEF MovieRadarrAccepts, MovieRadarrRaises
<1>3. CASE ~(\/ \E v \in Versions : MovieVersionDeleted(v)
             \/ \E c \in Radarrs : MovieRadarrAccepts(c) \/ MovieRadarrRaises(c))
  <2>1. movieEntries' = movieEntries
    BY <1>3
    DEF MovieWorks, MovieProgress, MovieRoute, MovieVersionFails, MovieVersionsDone,
        MovieRadarrDone, MovieUnmonitorFiles, MovieCommit, MovieCommitFails,
        MovieServerDeletes, MovieServerDoesNot, MovieTally, movieData, movieWork
  <2> QED
    BY <2>1
<1> QED
  BY <1>1, <1>2, <1>3

\* Every step loses no unselected version.
LEMMA UnselectedStep ==
    ASSUME MovieShape, MovieShape', UnselectedKept, MovieNext
    PROVE  UnselectedKept'
<1>1. CASE MovieBegin
  <2>1. /\ moviePc = "idle"
        /\ movieFiles' = [v \in Versions |-> "kept"] /\ movieRows' = Versions /\ ~movieRemoved'
        /\ movieEntries' = movieCall'.refs
    BY <1>1, MovieBeginGives DEF MovieShape, MovieTold, MovieFresh
  <2> QED
    BY <2>1 DEF UnselectedKept, Unselected
<1>2. CASE MovieReturn
  BY <1>2 DEF MovieReturn, UnselectedKept, Unselected
<1>3. CASE MovieWorks
  <2>1. movieCall' = movieCall /\ moviePc # "idle"
    BY <1>3, MovieCallStays
  <2>2. Unselected' = Unselected
    BY <2>1, MovieRoutesStay
  <2>3. \A w \in Unselected : movieFiles'[w] # "gone"
    BY <1>3, MovieFilesKept DEF UnselectedKept
  <2>4. \A w \in Unselected : w \in movieRows' /\ ~movieRemoved'
    BY <1>3, MovieRowsKept DEF UnselectedKept
  <2>5. \A w \in Unselected : movieCall.layout[w].folder \in movieCall.refs
                                  => movieCall.layout[w].folder \in movieEntries'
    BY <1>3, <2>1, MovieEntriesKept DEF UnselectedKept
  <2> QED
    BY <2>1, <2>2, <2>3, <2>4, <2>5 DEF UnselectedKept
<1> QED
  BY <1>1, <1>2, <1>3 DEF MovieNext, MovieWorks

\* What is counted as deleted is no more than what went.
MovieCountOK == movieDeleted + Cardinality(movieOpen) <= Cardinality(Chosen)

\* The candidates of a call can be counted.
LEMMA MovieChosenFinite ==
    ASSUME MovieShape
    PROVE  IsFiniteSet(Chosen) /\ movieOpen \subseteq Chosen
<1>1. IsFiniteSet(Versions \cup {Whole})
  BY FS_AddElement, MovieAssumption
<1>2. Chosen \in SUBSET (Versions \cup {Whole}) /\ movieOpen \subseteq Chosen
  BY DEF MovieShape, MovieTold, MovieTypeOK
<1> QED
  BY <1>1, <1>2, FS_Subset

\* What the call counts as deleted goes from the open candidates.
LEMMA MovieCountsWhatGoes ==
    ASSUME MovieShape, MovieWorks
    PROVE  /\ movieOpen' \subseteq movieOpen
           /\ \/ movieDeleted' = movieDeleted
              \/ movieDeleted' = movieDeleted + 1 /\ movieOpen' # movieOpen
<1>1. ASSUME NEW v \in Versions, MovieVersionDeleted(v)
      PROVE  /\ movieDeleted' = movieDeleted + 1
             /\ movieOpen' \subseteq movieOpen /\ movieOpen' # movieOpen
  BY <1>1 DEF MovieVersionDeleted, MovieShape, MovieTold, MovieStillOpen
<1>2. ASSUME MovieCommit
      PROVE  /\ movieDeleted' = movieDeleted + 1
             /\ movieOpen' \subseteq movieOpen /\ movieOpen' # movieOpen
  <2>1. /\ movieDone # {} /\ movieDone \subseteq MovieArrRouting
        /\ RoutedCandidates \subseteq movieOpen
    BY <1>2 DEF MovieCommit, MovieShape, MovieTold, MovieStillOpen, MovieTypeOK
  <2>2. RoutedCandidates # {}
    BY <2>1, MovieRoutesApart DEF RoutesAreApart
  <2> QED
    BY <1>2, <2>1, <2>2 DEF MovieCommit
<1>3. ASSUME MovieServerDeletes
      PROVE  /\ movieDeleted' = movieDeleted + 1
             /\ movieOpen' \subseteq movieOpen /\ movieOpen' # movieOpen
  BY <1>3 DEF MovieServerDeletes, ServerFallback, MovieShape, MovieTold, MovieStillOpen
<1>4. CASE ~(MovieCommit \/ MovieServerDeletes \/ \E v \in Versions : MovieVersionDeleted(v))
  <2>1. movieOpen' = movieOpen /\ movieDeleted' = movieDeleted
    BY <1>4
    DEF MovieWorks, MovieProgress, MovieRoute, MovieVersionFails, MovieVersionsDone,
        MovieRadarrAccepts, MovieRadarrRaises, MovieRadarrDone, MovieUnmonitorFiles,
        MovieCommitFails, MovieServerDoesNot, MovieTally, movieData, movieWork
  <2> QED
    BY <2>1
<1> QED
  BY <1>1, <1>2, <1>3, <1>4

\* The count stays within what has gone.
LEMMA MovieCountStep ==
    ASSUME MovieShape, MovieCountOK, MovieNext
    PROVE  MovieCountOK'
<1>1. CASE MovieBegin
  <2>1. moviePc = "idle" /\ movieOpen' = Chosen' /\ movieDeleted' = movieDeleted
        /\ Cardinality(Chosen') \in 1..MaxCandidates
    BY <1>1, MovieBeginGives
  <2>2. movieDeleted' = 0
    BY <2>1 DEF MovieShape, MovieTold, MovieFresh
  <2> QED
    BY <2>1, <2>2 DEF MovieCountOK
<1>2. CASE MovieReturn
  BY <1>2, FS_EmptySet DEF MovieReturn, MovieCountOK, Chosen, NoMovieCall
<1>3. CASE MovieWorks
  <2>1. IsFiniteSet(Chosen) /\ movieOpen \in SUBSET Chosen
    BY MovieChosenFinite
  <2>2. IsFiniteSet(movieOpen) /\ Cardinality(Chosen) \in Nat /\ Cardinality(movieOpen) \in Nat
    BY <2>1, CardinalityLess
  <2>3. movieOpen' \in SUBSET movieOpen
    BY <1>3, MovieCountsWhatGoes
  <2>4. /\ Cardinality(movieOpen') \in Nat /\ Cardinality(movieOpen') <= Cardinality(movieOpen)
        /\ movieOpen' # movieOpen => Cardinality(movieOpen') + 1 <= Cardinality(movieOpen)
    BY <2>2, <2>3, CardinalityLess
  <2>5. movieDeleted \in Nat
    BY DEF MovieShape, MovieTold, MovieTypeOK
  <2>6. \/ movieDeleted' = movieDeleted
        \/ movieDeleted' = movieDeleted + 1 /\ movieOpen' # movieOpen
    BY <1>3, MovieCountsWhatGoes
  <2>7. Chosen' = Chosen
    BY <1>3, MovieCallStays, MovieRoutesStay
  <2> QED
    BY <2>2, <2>4, <2>5, <2>6, <2>7 DEF MovieCountOK
<1> QED
  BY <1>1, <1>2, <1>3 DEF MovieNext, MovieWorks

\* Every step keeps the shape.
LEMMA MovieShapeStep ==
    ASSUME MovieShape, MovieNext
    PROVE  MovieShape'
  BY MovieBeginShape, MovieRouteShape, VersionFailsShape, VersionDeletedShape,
     VersionsDoneShape, RadarrAcceptsShape, RadarrRaisesShape, RadarrDoneShape,
     UnmonitorFilesShape, MovieCommitShape, MovieCommitFailsShape, ServerDeletesShape,
     ServerDoesNotShape, MovieTallyShape, MovieReturnShape
  DEF MovieNext, MovieProgress

\* The inductive invariant.
MovieInv == MovieShape /\ UnselectedKept /\ MovieCountOK

\* A step of another part changes nothing.
LEMMA MovieUnchanged ==
    ASSUME MovieInv, UNCHANGED movieVars
    PROVE  MovieInv'
<1>1. /\ UNCHANGED <<movieCall, moviePc>>
      /\ UNCHANGED <<movieFiles, movieRows, movieRemoved, movieOpen, movieExplained>>
      /\ UNCHANGED <<movieTodo, movieRefs, movieDone, movieEntries, movieDeleted>>
  BY DEF movieVars, movieData, movieWork
<1>2. MovieTypeOK' /\ MovieFresh' /\ MovieStillOpen'
  BY <1>1, MovieRoutesStay
  DEF MovieInv, MovieShape, MovieTold, MovieTypeOK, MovieFresh, MovieStillOpen
<1>3. MovieShape'
  BY <1>1, <1>2, MovieRoutesStay DEF MovieInv, MovieShape, MovieTold
<1>4. UnselectedKept'
  BY <1>1, MovieRoutesStay DEF MovieInv, UnselectedKept
<1>5. MovieCountOK'
  BY <1>1, MovieRoutesStay DEF MovieInv, MovieCountOK
<1> QED
  BY <1>3, <1>4, <1>5 DEF MovieInv

\* The inductive invariant of a movie's deletion holds in every reachable state of
\* _delete_specific_candidates_impl.
THEOREM MovieInvariance == MovieSpec => []MovieInv
<1>1. MovieInit => MovieInv
  <2> SUFFICES ASSUME MovieInit PROVE MovieInv
    OBVIOUS
  <2>1. UnselectedKept
    BY DEF MovieInit, UnselectedKept, Unselected
  <2>2. MovieCountOK
    BY FS_EmptySet DEF MovieInit, MovieCountOK, Chosen, NoMovieCall
  <2> QED
    BY <2>1, <2>2, MovieInitShape DEF MovieInv
<1>2. MovieInv /\ [MovieNext]_movieVars => MovieInv'
  BY MovieShapeStep, UnselectedStep, MovieCountStep, MovieUnchanged DEF MovieInv
<1> QED
  BY <1>1, <1>2, PTL DEF MovieSpec

\* No error is taken back.
LEMMA MovieExplains ==
    ASSUME MovieWorks
    PROVE  movieExplained \subseteq movieExplained'
  BY
  DEF MovieWorks, MovieProgress, MovieRoute, MovieVersionFails, MovieVersionDeleted,
      MovieVersionsDone, MovieRadarrAccepts, MovieRadarrRaises, MovieRadarrDone,
      MovieUnmonitorFiles, MovieCommit, MovieCommitFails, MovieServerDeletes,
      MovieServerDoesNot, MovieTally, movieData

\* Starting a call is Call of DeletionCall.
LEMMA MovieBeginCalls ==
    ASSUME MovieInv, MovieBegin
    PROVE  MovieCallAbstract!Next
<1>1. /\ moviePc = "idle" /\ moviePc' # "idle"
      /\ movieOpen' \in SUBSET (Versions \cup {Whole})
      /\ UNCHANGED <<movieExplained, movieDeleted>>
      /\ Cardinality(movieOpen') \in 1..MaxCandidates
  BY MovieBeginGives
<1>2. movieExplained' = {} /\ movieDeleted' = 0
  BY <1>1 DEF MovieInv, MovieShape, MovieTold, MovieFresh
<1>3. movieOpen' # {}
  BY <1>1, FS_EmptySet
<1>4. MovieCallAbstract!Call(movieOpen')
  BY <1>1, <1>2, <1>3 DEF MovieCallAbstract!Call
<1> QED
  BY <1>1, <1>4 DEF MovieCallAbstract!Next

\* The Cardinality of DeletionCall is that of this module.
LEMMA MovieSameCardinality ==
    ASSUME NEW S
    PROVE  MovieCallAbstract!Cardinality(S) = Cardinality(S)
  BY DEF MovieCallAbstract!Cardinality, Cardinality

\* A step of the call is Progress of DeletionCall.
LEMMA MovieWorkProgresses ==
    ASSUME MovieInv, MovieInv', MovieWorks
    PROVE  MovieCallAbstract!Next
<1>1. moviePc # "idle" /\ moviePc' # "idle" /\ movieExplained \subseteq movieExplained'
  BY MovieCallStays, MovieExplains
<1>2. movieExplained' \in SUBSET (Versions \cup {Whole})
  BY DEF MovieInv, MovieShape, MovieTold, MovieTypeOK
<1>3. /\ movieOpen' \in SUBSET movieOpen
      /\ \/ movieDeleted' = movieDeleted
         \/ movieDeleted' = movieDeleted + 1 /\ movieOpen' # movieOpen
  BY MovieCountsWhatGoes DEF MovieInv
<1>4. movieDeleted' \in movieDeleted .. (movieDeleted + Cardinality(movieOpen \ movieOpen'))
  <2>1. IsFiniteSet(movieOpen \ movieOpen')
    BY MovieChosenFinite, FS_Subset DEF MovieInv
  <2>2. Cardinality(movieOpen \ movieOpen') \in Nat
    BY <2>1, FS_CardinalityType
  <2>3. Cardinality(movieOpen \ movieOpen') = 0 <=> movieOpen \ movieOpen' = {}
    BY <2>1, FS_EmptySet
  <2>4. movieDeleted \in Nat
    BY DEF MovieInv, MovieShape, MovieTold, MovieTypeOK
  <2> QED
    BY <1>3, <2>2, <2>3, <2>4
<1>5. movieDeleted' \in
          movieDeleted .. (movieDeleted + MovieCallAbstract!Cardinality(movieOpen \ movieOpen'))
  BY <1>4, MovieSameCardinality
<1>6. MovieCallAbstract!Progress
  BY <1>1, <1>2, <1>3, <1>5 DEF MovieCallAbstract!Progress
<1> QED
  BY <1>6 DEF MovieCallAbstract!Next

\* The end of the call is Return of DeletionCall.
LEMMA MovieReturnReturns ==
    ASSUME MovieInv, MovieReturn
    PROVE  MovieCallAbstract!Next
<1>1. /\ moviePc = "done" /\ moviePc' = "idle"
      /\ movieExplained' = {} /\ movieDeleted' = 0 /\ movieOpen' = {}
  BY DEF MovieReturn
<1>2. movieOpen \subseteq movieExplained
  <2> SUFFICES ASSUME ~(Cardinality(Chosen) > movieDeleted)
               PROVE  movieOpen = {}
    BY <1>1 DEF MovieInv, MovieShape, MovieTold
  <2>1. IsFiniteSet(Chosen) /\ movieOpen \in SUBSET Chosen
    BY MovieChosenFinite DEF MovieInv
  <2>2. /\ IsFiniteSet(movieOpen) /\ Cardinality(movieOpen) \in Nat
        /\ Cardinality(Chosen) \in Nat
    BY <2>1, CardinalityLess
  <2>3. movieDeleted + Cardinality(movieOpen) <= Cardinality(Chosen) /\ movieDeleted \in Nat
    BY DEF MovieInv, MovieCountOK, MovieShape, MovieTold, MovieTypeOK
  <2>4. Cardinality(movieOpen) = 0
    BY <2>2, <2>3
  <2> QED
    BY <2>2, <2>4, FS_EmptySet
<1>3. MovieCallAbstract!Return
  BY <1>1, <1>2 DEF MovieCallAbstract!Return
<1> QED
  BY <1>3 DEF MovieCallAbstract!Next

\* Every step of a movie's deletion is a step of DeletionCall or a stutter: the
\* count never exceeds what went, and every candidate left has its error when
\* _delete_specific_candidates_impl returns.
THEOREM MovieKeepsPromise == MovieSpec => MovieCallPromise
<1>1. MovieInit => MovieCallAbstract!Init
  BY DEF MovieInit, MovieCallAbstract!Init
<1>2. MovieInv /\ MovieInv' /\ [MovieNext]_movieVars
         => [MovieCallAbstract!Next]_(MovieCallAbstract!vars)
  <2> SUFFICES ASSUME MovieInv, MovieInv', [MovieNext]_movieVars
               PROVE  [MovieCallAbstract!Next]_(MovieCallAbstract!vars)
    OBVIOUS
  <2>1. CASE MovieBegin
    BY <2>1, MovieBeginCalls
  <2>2. CASE MovieReturn
    BY <2>2, MovieReturnReturns
  <2>3. CASE MovieWorks
    BY <2>3, MovieWorkProgresses
  <2>4. CASE UNCHANGED movieVars
    BY <2>4 DEF movieVars, movieData, movieWork, MovieCallAbstract!vars
  <2> QED
    BY <2>1, <2>2, <2>3, <2>4 DEF MovieNext, MovieWorks
<1> QED
  BY <1>1, <1>2, MovieInvariance, PTL DEF MovieSpec, MovieCallPromise, MovieCallAbstract!Spec

\* No version is lost that no candidate of the call names: neither its file, its
\* row, nor the Radarr entry of its folder (_candidate_covers_full_radarr_entry).
THEOREM UnselectedStays == MovieSpec => []UnselectedKept
<1>1. MovieInv => UnselectedKept
  BY DEF MovieInv
<1> QED
  BY <1>1, MovieInvariance, PTL

-----------------------------------------------------------------------------
(* A series.                                                               *)

\* What a call may be.
SeriesRecords ==
    [layout : SeriesLayouts, chosen : SUBSET Scopes, clients : SUBSET Sonarrs,
     default : Sonarrs \cup {NoInstance}, settings : SeriesSettings]

\* Between calls nothing is left of the last one.
SeriesFresh ==
    seriesPc = "idle" =>
        /\ seriesCall = NoSeriesCall
        /\ seriesGone = {}
        /\ seriesRows = Seasons \cup Episodes
        /\ ~seriesRemoved
        /\ seriesCandidates = {} /\ seriesExplained = {} /\ seriesEntries = {} /\ seriesTodo = {}
        /\ seriesCurrent = NoInstance /\ seriesRefs = {} /\ seriesDone = {}
        /\ seriesDeleted = 0

\* The candidate at hand is one of the call that is still open.
SeriesAtHand ==
    /\ seriesPc \in {"idle", "series", "nextPass", "passDone", "tally", "done"} =>
           seriesCurrent = NoInstance
    /\ seriesPc = "series" => SeriesChosen \subseteq seriesCandidates
    /\ seriesPc \in {"batches", "seriesCommit", "seriesServer"} =>
           seriesCurrent = WholeSeries /\ WholeSeries \in OpenChosen
    /\ seriesPc \in {"seasons", "seasonCommit"} => seriesTodo \subseteq Seasons
    /\ seriesPc \in {"episodes", "episodeCommit"} => seriesTodo \subseteq Episodes
    /\ seriesPc \in {"seasons", "episodes"} => seriesCurrent \in seriesTodo \cup {NoInstance}
    /\ seriesPc \in {"seasonCommit", "episodeCommit"} => seriesCurrent \in seriesTodo

\* A call that returns has explained what is left, or counted everything.
SeriesTold ==
    seriesPc = "done" =>
        OpenChosen \subseteq seriesExplained \/ ~(Cardinality(SeriesChosen) > seriesDeleted)

\* The shape of a call.
SeriesShape ==
    /\ SeriesTypeOK
    /\ seriesPc # "idle" => seriesCall \in SeriesRecords
    /\ SeriesFresh
    /\ SeriesAtHand
    /\ CandidatesHaveRows
    /\ SeriesTold

\* The shape holds at the start.
LEMMA SeriesInitShape == SeriesInit => SeriesShape
<1> SUFFICES ASSUME SeriesInit PROVE SeriesShape
  OBVIOUS
<1>1. SeriesTypeOK
  BY
  DEF SeriesInit, SeriesTypeOK, NoSeriesCall, SeriesChosen, SeriesFiles, OpenChosen,
      ArrDeleteAction
<1>2. SeriesFresh /\ CandidatesHaveRows
  BY DEF SeriesInit, SeriesFresh, CandidatesHaveRows
<1>3. SeriesAtHand
  BY DEF SeriesInit, SeriesAtHand
<1> QED
  BY <1>1, <1>2, <1>3 DEF SeriesInit, SeriesShape, SeriesTold

\* A call starts.
LEMMA SeriesBeginShape ==
    ASSUME SeriesShape, SeriesBegin
    PROVE  SeriesShape'
  BY SeriesAssumption, StructureAssumption
  DEF SeriesBegin, seriesWork, SeriesShape, SeriesTold, SeriesTypeOK, SeriesFresh,
      SeriesAtHand, CandidatesHaveRows, SeriesRecords, Scopes, NoSeriesCall, SeriesChosen,
      SeriesFiles, OpenChosen

\* The candidate of the whole series is taken up, or there is none.
LEMMA WholeTakenUpShape ==
    ASSUME SeriesShape, WholeSeriesTakenUp
    PROVE  SeriesShape'
  BY SeriesAssumption, StructureAssumption, ActionTyped
  DEF WholeSeriesTakenUp, TakeUp, seriesData, SeriesShape, SeriesTold, SeriesTypeOK,
      SeriesFresh, SeriesAtHand, CandidatesHaveRows, SeriesRecords, Scopes, SeriesChosen,
      SeriesFiles, OpenChosen

\* A Sonarr instance accepts the series.
LEMMA SonarrAcceptsShape ==
    ASSUME SeriesShape, NEW c \in Sonarrs, SonarrAcceptsSeries(c)
    PROVE  SeriesShape'
  BY SeriesAssumption, StructureAssumption
  DEF SonarrAcceptsSeries, SonarrDeletesSeries, SeriesShape, SeriesTold, SeriesTypeOK,
      SeriesFresh, SeriesAtHand, CandidatesHaveRows, SeriesChosen, SeriesFiles, OpenChosen,
      InstanceFiles

\* A Sonarr instance raises, after or before it did its work.
LEMMA SonarrRaisesShape ==
    ASSUME SeriesShape, NEW c \in Sonarrs, SonarrRaisesOnSeries(c)
    PROVE  SeriesShape'
  BY SeriesAssumption, StructureAssumption
  DEF SonarrRaisesOnSeries, SonarrDeletesSeries, SeriesShape, SeriesTold, SeriesTypeOK,
      SeriesFresh, SeriesAtHand, CandidatesHaveRows, SeriesChosen, SeriesFiles, OpenChosen,
      InstanceFiles

\* Every instance was called.
LEMMA BatchesDoneShape ==
    ASSUME SeriesShape, SeriesBatchesDone
    PROVE  SeriesShape'
  BY SeriesAssumption, StructureAssumption
  DEF SeriesBatchesDone, PutDown, SeriesShape, SeriesTold, SeriesTypeOK, SeriesFresh,
      SeriesAtHand, CandidatesHaveRows, SeriesChosen, SeriesFiles, OpenChosen, ArrDeleteAction

\* The pass of the whole series is over, whether it was recorded or not.
LEMMA WholeOverShape ==
    ASSUME SeriesShape, seriesPc \in {"seriesCommit", "seriesServer"},
           \/ SeriesIsRemoved
           \/ UNCHANGED <<seriesRemoved, seriesCandidates, seriesDeleted>>,
           seriesGone \subseteq seriesGone', seriesGone' \subseteq SeriesFiles,
           seriesPc' = "nextPass", PutDown,
           UNCHANGED <<seriesCall, seriesRows, seriesExplained, seriesEntries, seriesStray,
                       seriesTodo>>
    PROVE  SeriesShape'
<1>1. /\ seriesRemoved \in BOOLEAN /\ seriesDeleted \in Nat
      /\ seriesRemoved' \in BOOLEAN /\ seriesDeleted' \in Nat
      /\ seriesCandidates' \subseteq seriesCandidates
      /\ seriesCandidates \ {WholeSeries} \subseteq seriesCandidates'
  <2>1. seriesRemoved \in BOOLEAN /\ seriesDeleted \in Nat
    BY DEF SeriesShape, SeriesTold, SeriesTypeOK
  <2>2. CASE SeriesIsRemoved
    <3>1. seriesRemoved' \in BOOLEAN /\ seriesDeleted' \in Nat
      BY <2>1, <2>2 DEF SeriesIsRemoved
    <3>2. seriesCandidates' = seriesCandidates \ {WholeSeries}
      BY <2>2 DEF SeriesIsRemoved
    <3> QED
      BY <2>1, <3>1, <3>2
  <2>3. CASE UNCHANGED <<seriesRemoved, seriesCandidates, seriesDeleted>>
    BY <2>1, <2>3
  <2> QED
    BY <2>2, <2>3
<1>2. SeriesTypeOK'
  BY <1>1
  DEF PutDown, SeriesShape, SeriesTold, SeriesTypeOK, SeriesChosen, SeriesFiles, OpenChosen,
      ArrDeleteAction
<1>3. SeriesFresh' /\ SeriesAtHand' /\ CandidatesHaveRows'
  BY <1>1 DEF PutDown, SeriesShape, SeriesTold, SeriesFresh, SeriesAtHand, CandidatesHaveRows
<1> QED
  BY <1>2, <1>3 DEF SeriesShape, SeriesTold

\* What Sonarr did is recorded, or that fails.
LEMMA SeriesCommitShape ==
    ASSUME SeriesShape, SeriesCommit
    PROVE  SeriesShape'
<1>1. seriesGone \subseteq seriesGone' /\ seriesGone' \subseteq SeriesFiles
  BY DEF SeriesCommit, UnmonitoredFiles, InstanceFiles, SeriesShape, SeriesTold, SeriesTypeOK
<1> QED
  BY <1>1, WholeOverShape DEF SeriesCommit

\* The media server deletes the series, or fails.
LEMMA SeriesServerShape ==
    ASSUME SeriesShape, SeriesViaMediaServer
    PROVE  SeriesShape'
<1>1. seriesGone \subseteq seriesGone' /\ seriesGone' \subseteq SeriesFiles
  BY DEF SeriesViaMediaServer, SeriesShape, SeriesTold, SeriesTypeOK
<1> QED
  BY <1>1, WholeOverShape DEF SeriesViaMediaServer

\* The seasons, or the episodes, are read.
LEMMA PassStartsShape ==
    ASSUME SeriesShape, PassStarts
    PROVE  SeriesShape'
  BY SeriesAssumption, StructureAssumption
  DEF PassStarts, seriesData, SeriesShape, SeriesTold, SeriesTypeOK, SeriesFresh,
      SeriesAtHand, CandidatesHaveRows, SeriesChosen, SeriesFiles, OpenChosen, ArrDeleteAction

\* A pass is done.
LEMMA PassEndsShape ==
    ASSUME SeriesShape, PassEnds
    PROVE  SeriesShape'
  BY SeriesAssumption, StructureAssumption
  DEF PassEnds, seriesData, seriesWork, SeriesShape, SeriesTold, SeriesTypeOK, SeriesFresh,
      SeriesAtHand, CandidatesHaveRows, SeriesChosen, SeriesFiles, OpenChosen, ArrDeleteAction

\* A season or an episode is taken up.
LEMMA ScopeTakenUpShape ==
    ASSUME SeriesShape, NEW t \in Seasons \cup Episodes, ScopeTakenUp(t)
    PROVE  SeriesShape'
  BY SeriesAssumption, StructureAssumption, ActionTyped
  DEF ScopeTakenUp, TakeUp, seriesData, SeriesShape, SeriesTold, SeriesTypeOK, SeriesFresh,
      SeriesAtHand, CandidatesHaveRows, SeriesRecords, Scopes, SeriesChosen, SeriesFiles,
      OpenChosen

\* An instance is skipped.
LEMMA InstanceSkippedShape ==
    ASSUME SeriesShape, NEW c \in Sonarrs, NEW t \in Seasons \cup Episodes, InstanceSkipped(c, t)
    PROVE  SeriesShape'
  BY SeriesAssumption, StructureAssumption
  DEF InstanceSkipped, AtHand, SonarrFiles, InstanceFiles, SeriesShape, SeriesTold,
      SeriesTypeOK, SeriesFresh, SeriesAtHand, CandidatesHaveRows, SeriesRecords, Scopes,
      SeriesChosen, SeriesFiles, OpenChosen

\* An instance deletes the files of the scope.
LEMMA InstanceDeletesShape ==
    ASSUME SeriesShape, NEW c \in Sonarrs, NEW t \in Seasons \cup Episodes, InstanceDeletes(c, t)
    PROVE  SeriesShape'
  BY SeriesAssumption, StructureAssumption
  DEF InstanceDeletes, AtHand, SonarrFiles, InstanceFiles, SeriesShape, SeriesTold,
      SeriesTypeOK, SeriesFresh, SeriesAtHand, CandidatesHaveRows, SeriesRecords, Scopes,
      SeriesChosen, SeriesFiles, OpenChosen

\* The main instance deletes those of another series.
LEMMA OtherDeletesShape ==
    ASSUME SeriesShape, NEW c \in Sonarrs, NEW t \in Seasons \cup Episodes, OtherSeriesDeletes(c, t)
    PROVE  SeriesShape'
  BY SeriesAssumption, StructureAssumption
  DEF OtherSeriesDeletes, AtHand, SeriesShape, SeriesTold, SeriesTypeOK, SeriesFresh,
      SeriesAtHand, CandidatesHaveRows, SeriesRecords, Scopes, SeriesChosen, SeriesFiles,
      OpenChosen

\* What follows once an instance has deleted.
LEMMA ScopeDeletedShape ==
    ASSUME SeriesShape, NEW t \in Seasons \cup Episodes, ScopeDeleted(t)
    PROVE  SeriesShape'
  BY SeriesAssumption, StructureAssumption
  DEF ScopeDeleted, ServerDeletes, FilesOf, AtHand, seriesWork, SeriesShape, SeriesTold,
      SeriesTypeOK, SeriesFresh, SeriesAtHand, CandidatesHaveRows, SeriesRecords, Scopes,
      SeriesChosen, SeriesFiles, OpenChosen

\* The media server deletes a season or an episode.
LEMMA ServerDeletesScopeShape ==
    ASSUME SeriesShape, NEW t \in Seasons \cup Episodes, ServerDeletesScope(t)
    PROVE  SeriesShape'
  BY SeriesAssumption, StructureAssumption
  DEF ServerDeletesScope, ServerDeletes, FilesOf, AtHand, seriesWork, SeriesShape, SeriesTold,
      SeriesTypeOK, SeriesFresh, SeriesAtHand, CandidatesHaveRows, SeriesRecords, Scopes,
      SeriesChosen, SeriesFiles, OpenChosen

\* Nothing could delete it.
LEMMA ScopeFailsShape ==
    ASSUME SeriesShape, NEW t \in Seasons \cup Episodes, ScopeFails(t)
    PROVE  SeriesShape'
  BY SeriesAssumption, StructureAssumption
  DEF ScopeFails, ServerDeletes, FilesOf, AtHand, PutDown, SeriesShape, SeriesTold,
      SeriesTypeOK, SeriesFresh, SeriesAtHand, CandidatesHaveRows, SeriesRecords, Scopes,
      SeriesChosen, SeriesFiles, OpenChosen, ArrDeleteAction

\* What goes with the candidate at hand.
GoesAlong == RowsOfScope(seriesCurrent)[1]

\* The candidate at hand goes, and with it no episode, nor its season, that has a
\* row and lies outside.
LEMMA ScopeGone ==
    ASSUME SeriesShape, seriesPc \in {"seasonCommit", "episodeCommit"}
    PROVE  /\ RowsOfScope(seriesCurrent) = <<GoesAlong, GoesAlong>>
           /\ seriesCurrent \in GoesAlong
           /\ \A e \in (Episodes \cap seriesRows) \ EpisodesOf(seriesCurrent) :
                  {e, EpisodeSeason[e]} \cap GoesAlong = {}
<1> DEFINE t == seriesCurrent
           season == IF t \in Seasons THEN t ELSE EpisodeSeason[t]
           whole == t \in Seasons \/ seriesRows \cap EpisodesOf(season) \subseteq {t}
           gone == IF whole THEN Within(season) ELSE {t}
<1>1. t \in seriesTodo /\ t \in Seasons \cup Episodes /\ t # WholeSeries
  BY StructureAssumption DEF SeriesShape, SeriesTold, SeriesAtHand
<1>2. season \in Seasons /\ season \notin Episodes /\ season # WholeSeries
  BY <1>1, StructureAssumption
<1>3. EpisodesOf(season) = {e \in Episodes : EpisodeSeason[e] = season}
  BY <1>2 DEF EpisodesOf
<1>4. EpisodesOf(t) = IF t \in Seasons THEN EpisodesOf(season) ELSE {t}
  BY <1>1 DEF EpisodesOf
<1>5. RowsOfScope(t) = <<gone, gone>> /\ gone = GoesAlong
  BY DEF RowsOfScope, GoesAlong
<1>6. t \in gone
  BY <1>1, <1>2, <1>3, StructureAssumption DEF Within
<1>7. ASSUME NEW e \in Episodes, e \in seriesRows, e \notin EpisodesOf(t)
      PROVE  {e, EpisodeSeason[e]} \cap gone = {}
  BY <1>1, <1>2, <1>3, <1>4, <1>7, StructureAssumption DEF Within
<1> QED
  BY <1>5, <1>6, <1>7

\* What was done is recorded.
LEMMA ScopeCommitShape ==
    ASSUME SeriesShape, ScopeCommit
    PROVE  SeriesShape'
  BY SeriesAssumption, StructureAssumption
  DEF ScopeCommit, RowsOfScope, Within, EpisodesOf, PutDown, SeriesShape, SeriesTold,
      SeriesTypeOK, SeriesFresh, SeriesAtHand, CandidatesHaveRows, SeriesRecords, Scopes,
      SeriesChosen, SeriesFiles, OpenChosen, ArrDeleteAction

\* Recording it raises.
LEMMA CommitRaisesShape ==
    ASSUME SeriesShape, ScopeCommitRaises
    PROVE  SeriesShape'
  BY SeriesAssumption, StructureAssumption
  DEF ScopeCommitRaises, seriesData, seriesWork, SeriesShape, SeriesTold, SeriesTypeOK,
      SeriesFresh, SeriesAtHand, CandidatesHaveRows, SeriesRecords, Scopes, SeriesChosen,
      SeriesFiles, OpenChosen, ArrDeleteAction

\* What is left is marked.
LEMMA TallyShape ==
    ASSUME SeriesShape, SeriesTally
    PROVE  SeriesShape'
  BY SeriesAssumption, StructureAssumption
  DEF SeriesTally, seriesWork, SeriesShape, SeriesTold, SeriesTypeOK, SeriesFresh,
      SeriesAtHand, CandidatesHaveRows, SeriesRecords, Scopes, SeriesChosen, SeriesFiles,
      OpenChosen, ArrDeleteAction

\* The call returns.
LEMMA ReturnShape ==
    ASSUME SeriesShape, SeriesReturn
    PROVE  SeriesShape'
  BY SeriesAssumption, StructureAssumption
  DEF SeriesReturn, PutDown, SeriesShape, SeriesTold, SeriesTypeOK, SeriesFresh, SeriesAtHand,
      CandidatesHaveRows, SeriesRecords, Scopes, NoSeriesCall, SeriesChosen, SeriesFiles,
      OpenChosen, ArrDeleteAction

\* A candidate covers its episodes.
LEMMA InChosenCovered ==
    ASSUME NEW t \in SeriesChosen
    PROVE  EpisodesOf(t) \subseteq Covered
  BY DEF Covered

\* The whole series covers every episode.
LEMMA WholeCovers ==
    ASSUME WholeSeries \in SeriesChosen
    PROVE  Episodes \subseteq Covered
  BY InChosenCovered DEF EpisodesOf

\* A file of the series holds an episode of it.
LEMMA FilesHoldEpisodes ==
    ASSUME SeriesShape, NEW f \in SeriesFiles
    PROVE  f \in Sonarrs \X ((SUBSET Episodes) \ {{}})
<1>1. CASE seriesPc = "idle"
  BY <1>1 DEF SeriesShape, SeriesTold, SeriesFresh, NoSeriesCall, SeriesFiles
<1>2. CASE seriesPc # "idle"
  BY <1>2, SeriesAssumption DEF SeriesShape, SeriesTold, SeriesRecords, SeriesFiles
<1> QED
  BY <1>1, <1>2

\* Whatever files of the series go, they hold covered episodes.
LEMMA WholeGoes ==
    ASSUME SeriesShape, WholeSeries \in SeriesChosen, seriesGone' \subseteq SeriesFiles,
           NEW f \in seriesGone'
    PROVE  f[2] \cap Covered # {}
<1>1. f \in Sonarrs \X ((SUBSET Episodes) \ {{}})
  BY FilesHoldEpisodes
<1> QED
  BY <1>1, WholeCovers

\* Whatever step, but for the start and the return.
LEMMA SeriesFilesKept ==
    ASSUME SeriesShape, SeriesProgress, ~SeriesReturn
    PROVE  /\ seriesGone \subseteq seriesGone'
           /\ \A f \in seriesGone' \ seriesGone : f[2] \cap Covered # {}
<1>1. ASSUME WholeSeries \in SeriesChosen,
             seriesGone \subseteq seriesGone', seriesGone' \subseteq SeriesFiles
      PROVE  /\ seriesGone \subseteq seriesGone'
             /\ \A f \in seriesGone' \ seriesGone : f[2] \cap Covered # {}
  BY <1>1, WholeGoes
<1>2. ASSUME NEW t \in Seasons \cup Episodes, AtHand(t), seriesGone \subseteq seriesGone',
             seriesGone' \subseteq seriesGone \cup FilesOf(t)
      PROVE  /\ seriesGone \subseteq seriesGone'
             /\ \A f \in seriesGone' \ seriesGone : f[2] \cap Covered # {}
  <2>1. t \in SeriesChosen
    BY <1>2, SeriesAssumption
    DEF AtHand, SeriesShape, SeriesTold, SeriesTypeOK, SeriesAtHand, OpenChosen
  <2> QED
    BY <1>2, <2>1, InChosenCovered DEF FilesOf
<1>3. seriesPc \in {"batches", "seriesCommit", "seriesServer"} => WholeSeries \in SeriesChosen
  BY DEF SeriesShape, SeriesTold, SeriesAtHand, OpenChosen
<1>4. seriesGone \subseteq SeriesFiles
  BY DEF SeriesShape, SeriesTold, SeriesTypeOK
<1>5. ASSUME NEW c \in Sonarrs, SonarrAcceptsSeries(c) \/ SonarrRaisesOnSeries(c)
      PROVE  /\ WholeSeries \in SeriesChosen
             /\ seriesGone \subseteq seriesGone' /\ seriesGone' \subseteq SeriesFiles
  BY <1>3, <1>4, <1>5
  DEF SonarrAcceptsSeries, SonarrRaisesOnSeries, SonarrDeletesSeries, InstanceFiles
<1>6. ASSUME SeriesCommit \/ SeriesViaMediaServer
      PROVE  /\ WholeSeries \in SeriesChosen
             /\ seriesGone \subseteq seriesGone' /\ seriesGone' \subseteq SeriesFiles
  BY <1>3, <1>4, <1>6 DEF SeriesCommit, SeriesViaMediaServer, UnmonitoredFiles, InstanceFiles
<1>7. ASSUME NEW c \in Sonarrs, NEW t \in Seasons \cup Episodes,
             InstanceSkipped(c, t) \/ InstanceDeletes(c, t)
      PROVE  /\ AtHand(t)
             /\ seriesGone \subseteq seriesGone' /\ seriesGone' \subseteq seriesGone \cup FilesOf(t)
  BY <1>7 DEF InstanceSkipped, InstanceDeletes, SonarrFiles
<1>8. ASSUME NEW t \in Seasons \cup Episodes,
             ScopeDeleted(t) \/ ServerDeletesScope(t) \/ ScopeFails(t)
      PROVE  /\ AtHand(t)
             /\ seriesGone \subseteq seriesGone' /\ seriesGone' \subseteq seriesGone \cup FilesOf(t)
  BY <1>8 DEF ScopeDeleted, ServerDeletesScope, ScopeFails, ServerDeletes
<1>9. ASSUME \/ WholeSeriesTakenUp \/ SeriesBatchesDone \/ PassStarts \/ PassEnds
             \/ ScopeCommit \/ ScopeCommitRaises \/ SeriesTally
             \/ \E t \in Seasons \cup Episodes :
                    ScopeTakenUp(t) \/ \E c \in Sonarrs : OtherSeriesDeletes(c, t)
      PROVE  seriesGone' = seriesGone
  BY <1>9
  DEF WholeSeriesTakenUp, SeriesBatchesDone, PassStarts, PassEnds, ScopeCommit,
      ScopeCommitRaises, SeriesTally, ScopeTakenUp, OtherSeriesDeletes, seriesData
<1> QED
  BY <1>1, <1>2, <1>5, <1>6, <1>7, <1>8, <1>9 DEF SeriesProgress

\* It deletes no row of an uncovered episode or of its season.
LEMMA SeriesRowsKept ==
    ASSUME SeriesShape, UncoveredKept, SeriesProgress, ~SeriesReturn,
           NEW e \in Episodes \ Covered
    PROVE  {e, EpisodeSeason[e]} \subseteq seriesRows' /\ ~seriesRemoved'
<1>1. {e, EpisodeSeason[e]} \subseteq seriesRows /\ ~seriesRemoved
  BY DEF UncoveredKept
<1>2. CASE ScopeCommit
  <2>0. seriesPc \in {"seasonCommit", "episodeCommit"}
    BY <1>2 DEF ScopeCommit
  <2>1. /\ RowsOfScope(seriesCurrent) = <<GoesAlong, GoesAlong>>
        /\ seriesCurrent \in GoesAlong
        /\ \A x \in (Episodes \cap seriesRows) \ EpisodesOf(seriesCurrent) :
               {x, EpisodeSeason[x]} \cap GoesAlong = {}
    BY <2>0, ScopeGone
  <2>2. seriesCurrent \in SeriesChosen
    BY <1>2 DEF ScopeCommit, SeriesShape, SeriesTold, SeriesAtHand, SeriesTypeOK, OpenChosen
  <2>3. e \notin EpisodesOf(seriesCurrent)
    BY <2>2, InChosenCovered
  <2>4. seriesRows' = seriesRows \ GoesAlong /\ seriesRemoved' = (seriesRows' \cap Seasons = {})
    BY <1>2, <2>1 DEF ScopeCommit
  <2>5. {e, EpisodeSeason[e]} \subseteq seriesRows'
    BY <1>1, <2>1, <2>3, <2>4
  <2>6. EpisodeSeason[e] \in seriesRows' \cap Seasons
    BY <2>5, StructureAssumption
  <2> QED
    BY <2>4, <2>5, <2>6
<1>3. CASE SeriesCommit \/ SeriesViaMediaServer
  <2>1. WholeSeries \in SeriesChosen
    BY <1>3
    DEF SeriesCommit, SeriesViaMediaServer, SeriesShape, SeriesTold, SeriesAtHand, OpenChosen
  <2> QED
    BY <2>1, WholeCovers
<1>4. CASE ~(ScopeCommit \/ SeriesCommit \/ SeriesViaMediaServer)
  <2>1. seriesRows' = seriesRows /\ (seriesRemoved' = seriesRemoved)
    BY <1>4
    DEF SeriesProgress, WholeSeriesTakenUp, SonarrAcceptsSeries, SonarrRaisesOnSeries,
        SeriesBatchesDone, PassStarts, PassEnds, ScopeTakenUp, InstanceSkipped,
        InstanceDeletes, OtherSeriesDeletes, ScopeDeleted, ServerDeletesScope, ScopeFails,
        ScopeCommitRaises, SeriesTally, seriesData
  <2> QED
    BY <1>1, <2>1
<1> QED
  BY <1>2, <1>3, <1>4

\* An instance with a file left keeps its entry, unless the series was chosen.
LEMMA SeriesEntriesKept ==
    ASSUME SeriesShape, UncoveredKept, SeriesProgress, ~SeriesReturn,
           WholeSeries \notin SeriesChosen,
           NEW f \in SeriesFiles, f \notin seriesGone', f[1] \in seriesCall.layout.refs
    PROVE  f[1] \in seriesEntries'
<1>1. f \notin seriesGone
  BY SeriesFilesKept
<1>2. f[1] \in seriesEntries
  BY <1>1 DEF UncoveredKept
<1>3. CASE \E t \in Seasons \cup Episodes : ScopeDeleted(t)
  <2>1. \/ seriesEntries' = seriesEntries
        \/ \E c \in seriesDone : NoFilesLeft(c) /\ seriesEntries' = seriesEntries \ {c}
    BY <1>3 DEF ScopeDeleted
  <2> QED
    BY <1>1, <1>2, <2>1 DEF NoFilesLeft, InstanceFiles
<1>4. CASE \E c \in Sonarrs : SonarrAcceptsSeries(c) \/ SonarrRaisesOnSeries(c)
  BY <1>4
  DEF SonarrAcceptsSeries, SonarrRaisesOnSeries, SeriesShape, SeriesTold, SeriesAtHand,
      OpenChosen
<1>5. CASE ~(\/ \E t \in Seasons \cup Episodes : ScopeDeleted(t)
             \/ \E c \in Sonarrs : SonarrAcceptsSeries(c) \/ SonarrRaisesOnSeries(c))
  <2>1. seriesEntries' = seriesEntries
    BY <1>5
    DEF SeriesProgress, WholeSeriesTakenUp, SeriesBatchesDone, SeriesCommit,
        SeriesViaMediaServer, PassStarts, PassEnds, ScopeTakenUp, InstanceSkipped,
        InstanceDeletes, OtherSeriesDeletes, ServerDeletesScope, ScopeFails, ScopeCommit,
        ScopeCommitRaises, SeriesTally, seriesData
  <2> QED
    BY <1>2, <2>1
<1> QED
  BY <1>3, <1>4, <1>5

\* What a call has read stays while it runs.
LEMMA SeriesCallStays ==
    ASSUME SeriesProgress, ~SeriesReturn
    PROVE  seriesCall' = seriesCall /\ seriesPc # "idle" /\ seriesPc' # "idle"
  BY
  DEF SeriesProgress, WholeSeriesTakenUp, SonarrAcceptsSeries, SonarrRaisesOnSeries,
      SeriesBatchesDone, SeriesCommit, SeriesViaMediaServer, PassStarts, PassEnds,
      ScopeTakenUp, InstanceSkipped, InstanceDeletes, OtherSeriesDeletes, ScopeDeleted,
      ServerDeletesScope, ScopeFails, ScopeCommit, ScopeCommitRaises, SeriesTally, AtHand

\* Between calls nothing is lost.
LEMMA NothingLostWhenFresh ==
    ASSUME SeriesFresh, seriesPc = "idle"
    PROVE  UncoveredKept
  BY StructureAssumption
  DEF SeriesFresh, UncoveredKept, NoSeriesCall, SeriesFiles, SeriesChosen

\* Every step loses nothing uncovered.
LEMMA UncoveredStep ==
    ASSUME SeriesShape, UncoveredKept, SeriesNext, SeriesShape'
    PROVE  UncoveredKept'
<1>1. CASE SeriesBegin
  <2>1. /\ seriesPc = "idle" /\ UNCHANGED <<seriesGone, seriesRows, seriesRemoved>>
        /\ seriesEntries' = seriesCall'.layout.refs
    BY <1>1 DEF SeriesBegin
  <2>2. seriesGone = {} /\ seriesRows = Seasons \cup Episodes /\ ~seriesRemoved
    BY <2>1 DEF SeriesShape, SeriesTold, SeriesFresh
  <2> QED
    BY <2>1, <2>2, StructureAssumption DEF UncoveredKept, SeriesFiles
<1>2. CASE SeriesReturn
  <2>1. (seriesPc = "idle")'
    BY <1>2 DEF SeriesReturn
  <2>2. UncoveredKept'
    BY <2>1, NothingLostWhenFresh, StructureAssumption
    DEF SeriesShape, SeriesTold, SeriesFresh, UncoveredKept, NoSeriesCall, SeriesFiles,
        SeriesChosen
  <2> QED
    BY <2>2
<1>3. CASE SeriesProgress /\ ~SeriesReturn
  <2>1. seriesCall' = seriesCall /\ Covered' = Covered /\ SeriesFiles' = SeriesFiles
    BY <1>3, SeriesCallStays DEF Covered, SeriesChosen, SeriesFiles
  <2>2. \A f \in seriesGone' : f[2] \cap Covered' # {}
    BY <1>3, <2>1, SeriesFilesKept DEF UncoveredKept
  <2>3. \A e \in Episodes \ Covered' :
            {e, EpisodeSeason[e]} \subseteq seriesRows' /\ ~seriesRemoved'
    BY <1>3, <2>1, SeriesRowsKept
  <2>4. WholeSeries \notin SeriesChosen' =>
           \A f \in SeriesFiles' \ seriesGone' :
               f[1] \in seriesCall.layout.refs => f[1] \in seriesEntries'
    BY <1>3, <2>1, SeriesEntriesKept DEF SeriesChosen
  <2> QED
    BY <2>1, <2>2, <2>3, <2>4 DEF UncoveredKept
<1> QED
  BY <1>1, <1>2, <1>3 DEF SeriesNext

\* What is counted as deleted is no more than what went.
SeriesCountOK == seriesDeleted + Cardinality(OpenChosen) <= Cardinality(SeriesChosen)

\* The candidates of a call can be counted.
LEMMA SeriesChosenFinite ==
    ASSUME SeriesShape
    PROVE  IsFiniteSet(SeriesChosen) /\ OpenChosen \subseteq SeriesChosen
<1>1. IsFiniteSet({WholeSeries}) /\ IsFiniteSet(Seasons) /\ IsFiniteSet(Episodes)
  BY FS_Singleton, StructureAssumption
<1>2. IsFiniteSet({WholeSeries} \cup Seasons)
  BY <1>1, FS_Union
<1>3. IsFiniteSet(Scopes)
  BY <1>1, <1>2, FS_Union DEF Scopes
<1>4. SeriesChosen \in SUBSET Scopes
  BY DEF SeriesShape, SeriesTold, SeriesTypeOK
<1>5. IsFiniteSet(SeriesChosen)
  BY <1>3, <1>4, FS_Subset
<1> QED
  BY <1>5 DEF OpenChosen

\* What the call counts as deleted goes from the open candidates.
LEMMA SeriesCountsWhatGoes ==
    ASSUME SeriesShape, SeriesProgress, ~SeriesReturn
    PROVE  /\ OpenChosen' \subseteq OpenChosen
           /\ \/ seriesDeleted' = seriesDeleted
              \/ seriesDeleted' = seriesDeleted + 1 /\ OpenChosen' # OpenChosen
<1>0. SeriesChosen' = SeriesChosen
  BY SeriesCallStays DEF SeriesChosen
<1>1. CASE SeriesCommit \/ SeriesViaMediaServer
  <2>1. WholeSeries \in OpenChosen
    BY <1>1 DEF SeriesCommit, SeriesViaMediaServer, SeriesShape, SeriesTold, SeriesAtHand
  <2>2. \/ /\ seriesCandidates' = seriesCandidates \ {WholeSeries}
           /\ seriesDeleted' = seriesDeleted + 1
        \/ UNCHANGED <<seriesCandidates, seriesDeleted>>
    BY <1>1 DEF SeriesCommit, SeriesViaMediaServer, SeriesIsRemoved
  <2> QED
    BY <1>0, <2>1, <2>2 DEF OpenChosen
<1>2. CASE ScopeCommit
  <2>1. seriesPc \in {"seasonCommit", "episodeCommit"}
    BY <1>2 DEF ScopeCommit
  <2>2. /\ RowsOfScope(seriesCurrent) = <<GoesAlong, GoesAlong>>
        /\ seriesCurrent \in GoesAlong
        /\ \A x \in (Episodes \cap seriesRows) \ EpisodesOf(seriesCurrent) :
               {x, EpisodeSeason[x]} \cap GoesAlong = {}
    BY <2>1, ScopeGone
  <2>3. seriesCurrent \in OpenChosen
    BY <2>1 DEF SeriesShape, SeriesTold, SeriesAtHand, SeriesTypeOK
  <2>4. seriesCandidates' = seriesCandidates \ GoesAlong /\ seriesDeleted' = seriesDeleted + 1
    BY <1>2, <2>2 DEF ScopeCommit
  <2> QED
    BY <1>0, <2>2, <2>3, <2>4 DEF OpenChosen
<1>3. CASE ~(ScopeCommit \/ SeriesCommit \/ SeriesViaMediaServer)
  <2>1. seriesCandidates' = seriesCandidates /\ seriesDeleted' = seriesDeleted
    BY <1>3
    DEF SeriesProgress, WholeSeriesTakenUp, SonarrAcceptsSeries, SonarrRaisesOnSeries,
        SeriesBatchesDone, PassStarts, PassEnds, ScopeTakenUp, InstanceSkipped,
        InstanceDeletes, OtherSeriesDeletes, ScopeDeleted, ServerDeletesScope, ScopeFails,
        ScopeCommitRaises, SeriesTally, seriesData, seriesWork
  <2> QED
    BY <1>0, <2>1 DEF OpenChosen
<1> QED
  BY <1>1, <1>2, <1>3

\* The count stays within what has gone.
LEMMA SeriesCountStep ==
    ASSUME SeriesShape, SeriesCountOK, SeriesNext
    PROVE  SeriesCountOK'
<1>1. CASE SeriesBegin
  <2>1. seriesPc = "idle" /\ seriesDeleted' = seriesDeleted
        /\ SeriesChosen' \in SUBSET Scopes /\ SeriesChosen' \subseteq seriesCandidates'
    BY <1>1 DEF SeriesBegin, seriesWork, SeriesChosen
  <2>2. seriesDeleted' = 0 /\ OpenChosen' = SeriesChosen'
    BY <2>1 DEF SeriesShape, SeriesTold, SeriesFresh, OpenChosen
  <2>3. Cardinality(SeriesChosen') \in 1..MaxSeriesCandidates
    BY <1>1 DEF SeriesBegin, SeriesChosen
  <2> QED
    BY <2>2, <2>3 DEF SeriesCountOK
<1>2. CASE SeriesReturn
  BY <1>2, FS_EmptySet DEF SeriesReturn, SeriesCountOK, OpenChosen, SeriesChosen, NoSeriesCall
<1>3. CASE SeriesProgress /\ ~SeriesReturn
  <2>1. IsFiniteSet(SeriesChosen) /\ OpenChosen \in SUBSET SeriesChosen
    BY SeriesChosenFinite
  <2>2. /\ IsFiniteSet(OpenChosen) /\ Cardinality(OpenChosen) \in Nat
        /\ Cardinality(SeriesChosen) \in Nat
    BY <2>1, CardinalityLess
  <2>3. OpenChosen' \in SUBSET OpenChosen
    BY <1>3, SeriesCountsWhatGoes
  <2>4. /\ Cardinality(OpenChosen') \in Nat /\ Cardinality(OpenChosen') <= Cardinality(OpenChosen)
        /\ OpenChosen' # OpenChosen => Cardinality(OpenChosen') + 1 <= Cardinality(OpenChosen)
    BY <2>2, <2>3, CardinalityLess
  <2>5. seriesDeleted \in Nat
    BY DEF SeriesShape, SeriesTold, SeriesTypeOK
  <2>6. \/ seriesDeleted' = seriesDeleted
        \/ seriesDeleted' = seriesDeleted + 1 /\ OpenChosen' # OpenChosen
    BY <1>3, SeriesCountsWhatGoes
  <2>7. SeriesChosen' = SeriesChosen
    BY <1>3, SeriesCallStays DEF SeriesChosen
  <2> QED
    BY <2>2, <2>4, <2>5, <2>6, <2>7 DEF SeriesCountOK
<1> QED
  BY <1>1, <1>2, <1>3 DEF SeriesNext

\* Every step keeps the shape.
LEMMA SeriesShapeStep ==
    ASSUME SeriesShape, SeriesNext
    PROVE  SeriesShape'
  BY SeriesBeginShape, WholeTakenUpShape, SonarrAcceptsShape, SonarrRaisesShape,
     BatchesDoneShape, SeriesCommitShape, SeriesServerShape, PassStartsShape, PassEndsShape,
     ScopeTakenUpShape, InstanceSkippedShape, InstanceDeletesShape, OtherDeletesShape,
     ScopeDeletedShape, ServerDeletesScopeShape, ScopeFailsShape, ScopeCommitShape,
     CommitRaisesShape, TallyShape, ReturnShape
  DEF SeriesNext, SeriesProgress

\* The inductive invariant.
SeriesInv == SeriesShape /\ UncoveredKept /\ SeriesCountOK

\* A step of another part changes nothing.
LEMMA SeriesUnchanged ==
    ASSUME SeriesInv, UNCHANGED seriesVars
    PROVE  SeriesInv'
<1>1. SeriesShape'
  BY
  DEF SeriesInv, seriesVars, seriesData, seriesWork, SeriesShape, SeriesTold, SeriesTypeOK,
      SeriesFresh, SeriesAtHand, CandidatesHaveRows, OpenChosen, SeriesChosen, SeriesFiles
<1>2. UncoveredKept'
  BY DEF SeriesInv, seriesVars, seriesData, UncoveredKept, Covered, SeriesChosen, SeriesFiles
<1>3. SeriesCountOK'
  BY
  DEF SeriesInv, seriesVars, seriesData, seriesWork, SeriesCountOK, SeriesChosen, OpenChosen
<1> QED
  BY <1>1, <1>2, <1>3 DEF SeriesInv

\* The inductive invariant of a series' deletion holds in every reachable state of
\* _delete_specific_candidates_impl.
THEOREM SeriesInvariance == SeriesSpec => []SeriesInv
<1>1. SeriesInit => SeriesInv
  <2> SUFFICES ASSUME SeriesInit PROVE SeriesInv
    OBVIOUS
  <2>1. SeriesShape
    BY SeriesInitShape
  <2>2. UncoveredKept
    BY <2>1, NothingLostWhenFresh DEF SeriesInit, SeriesShape, SeriesTold
  <2>3. SeriesCountOK
    BY FS_EmptySet DEF SeriesInit, SeriesCountOK, OpenChosen, SeriesChosen, NoSeriesCall
  <2> QED
    BY <2>1, <2>2, <2>3 DEF SeriesInv
<1>2. SeriesInv /\ [SeriesNext]_seriesVars => SeriesInv'
  BY SeriesShapeStep, UncoveredStep, SeriesCountStep, SeriesUnchanged DEF SeriesInv
<1> QED
  BY <1>1, <1>2, PTL DEF SeriesSpec

\* No error is taken back.
LEMMA SeriesExplains ==
    ASSUME SeriesProgress, ~SeriesReturn
    PROVE  seriesExplained \subseteq seriesExplained'
  BY
  DEF SeriesProgress, WholeSeriesTakenUp, SonarrAcceptsSeries, SonarrRaisesOnSeries,
      SeriesBatchesDone, SeriesCommit, SeriesViaMediaServer, PassStarts, PassEnds,
      ScopeTakenUp, InstanceSkipped, InstanceDeletes, OtherSeriesDeletes, ScopeDeleted,
      ServerDeletesScope, ScopeFails, ScopeCommit, ScopeCommitRaises, SeriesTally, seriesData

\* Only a transaction that raises makes the call raise.
LEMMA SeriesRaises ==
    ASSUME SeriesProgress, ~SeriesReturn
    PROVE  /\ seriesPc # "raised"
           /\ ~ScopeCommitRaises => seriesPc' # "raised"
  BY
  DEF SeriesProgress, WholeSeriesTakenUp, SonarrAcceptsSeries, SonarrRaisesOnSeries,
      SeriesBatchesDone, SeriesCommit, SeriesViaMediaServer, PassStarts, PassEnds,
      ScopeTakenUp, InstanceSkipped, InstanceDeletes, OtherSeriesDeletes, ScopeDeleted,
      ServerDeletesScope, ScopeFails, ScopeCommit, ScopeCommitRaises, SeriesTally, seriesData,
      AtHand

\* Starting a call is Call of DeletionCall.
LEMMA SeriesBeginCalls ==
    ASSUME SeriesInv, SeriesInv', SeriesBegin
    PROVE  SeriesCallAbstract!Next
<1>1. /\ seriesPc = "idle" /\ seriesPc' \in {"tally", "series"}
      /\ SeriesChosen' \in SUBSET Scopes /\ SeriesChosen' \subseteq seriesCandidates'
      /\ UNCHANGED <<seriesExplained, seriesDeleted>>
      /\ Cardinality(SeriesChosen') \in 1..MaxSeriesCandidates
  BY DEF SeriesBegin, seriesWork, SeriesChosen
<1>2. seriesExplained' = {} /\ seriesDeleted' = 0 /\ OpenChosen' = SeriesChosen'
  BY <1>1 DEF SeriesInv, SeriesShape, SeriesTold, SeriesFresh, OpenChosen
<1>3. SeriesChosen' # {}
  BY <1>1, FS_EmptySet
<1>4. SeriesCallAbstract!Call(SeriesChosen')
  BY <1>1, <1>2, <1>3 DEF SeriesCallAbstract!Call
<1> QED
  BY <1>1, <1>4 DEF SeriesCallAbstract!Next

\* The Cardinality of DeletionCall is that of this module.
LEMMA SeriesSameCardinality ==
    ASSUME NEW S
    PROVE  SeriesCallAbstract!Cardinality(S) = Cardinality(S)
  BY DEF SeriesCallAbstract!Cardinality, Cardinality

\* A step of the passes is Progress of DeletionCall.
LEMMA SeriesWorkProgresses ==
    ASSUME SeriesInv, SeriesInv', SeriesProgress, ~SeriesReturn, ~ScopeCommitRaises
    PROVE  SeriesCallAbstract!Next
<1>1. /\ seriesPc # "idle" /\ seriesPc' # "idle"
      /\ seriesPc # "raised" /\ seriesPc' # "raised"
      /\ seriesExplained \subseteq seriesExplained'
  BY SeriesCallStays, SeriesRaises, SeriesExplains
<1>2. seriesExplained' \in SUBSET Scopes
  BY DEF SeriesInv, SeriesShape, SeriesTold, SeriesTypeOK
<1>3. /\ OpenChosen' \in SUBSET OpenChosen
      /\ \/ seriesDeleted' = seriesDeleted
         \/ seriesDeleted' = seriesDeleted + 1 /\ OpenChosen' # OpenChosen
  BY SeriesCountsWhatGoes DEF SeriesInv
<1>4. seriesDeleted' \in seriesDeleted .. (seriesDeleted + Cardinality(OpenChosen \ OpenChosen'))
  <2>1. IsFiniteSet(OpenChosen \ OpenChosen')
    BY SeriesChosenFinite, FS_Subset DEF SeriesInv
  <2>2. /\ Cardinality(OpenChosen \ OpenChosen') \in Nat
        /\ OpenChosen' # OpenChosen => Cardinality(OpenChosen \ OpenChosen') # 0
    <3>1. Cardinality(OpenChosen \ OpenChosen') \in Nat
      BY <2>1, FS_CardinalityType
    <3>2. Cardinality(OpenChosen \ OpenChosen') = 0 <=> OpenChosen \ OpenChosen' = {}
      BY <2>1, FS_EmptySet
    <3> QED
      BY <1>3, <3>1, <3>2
  <2>3. seriesDeleted \in Nat
    BY DEF SeriesInv, SeriesShape, SeriesTold, SeriesTypeOK
  <2> QED
    BY <1>3, <2>2, <2>3
<1>5. seriesDeleted' \in
          seriesDeleted ..
              (seriesDeleted + SeriesCallAbstract!Cardinality(OpenChosen \ OpenChosen'))
  BY <1>4, SeriesSameCardinality
<1>6. SeriesCallAbstract!Progress
  BY <1>1, <1>2, <1>3, <1>5 DEF SeriesCallAbstract!Progress
<1> QED
  BY <1>6 DEF SeriesCallAbstract!Next

\* A transaction that raises is Fail of DeletionCall.
LEMMA SeriesRaiseFails ==
    ASSUME SeriesInv, ScopeCommitRaises
    PROVE  SeriesCallAbstract!Next
<1>1. /\ seriesPc \in {"seasonCommit", "episodeCommit"} /\ seriesPc' = "raised"
      /\ UNCHANGED <<seriesExplained, seriesDeleted>> /\ OpenChosen' = OpenChosen
  BY DEF ScopeCommitRaises, seriesData, seriesWork, OpenChosen, SeriesChosen
<1>2. SeriesCallAbstract!Fail
  BY <1>1 DEF SeriesCallAbstract!Fail
<1> QED
  BY <1>2 DEF SeriesCallAbstract!Next

\* The end of the call is Return of DeletionCall.
LEMMA SeriesReturnReturns ==
    ASSUME SeriesInv, SeriesReturn
    PROVE  SeriesCallAbstract!Next
<1>1. /\ seriesPc \in {"done", "raised"} /\ seriesPc' = "idle"
      /\ seriesExplained' = {} /\ seriesDeleted' = 0 /\ OpenChosen' = {}
  BY DEF SeriesReturn, OpenChosen
<1>2. seriesPc = "done" => OpenChosen \subseteq seriesExplained
  <2> SUFFICES ASSUME seriesPc = "done", ~(Cardinality(SeriesChosen) > seriesDeleted)
               PROVE  OpenChosen = {}
    BY DEF SeriesInv, SeriesShape, SeriesTold
  <2>1. IsFiniteSet(SeriesChosen) /\ OpenChosen \in SUBSET SeriesChosen
    BY SeriesChosenFinite DEF SeriesInv
  <2>2. /\ IsFiniteSet(OpenChosen) /\ Cardinality(OpenChosen) \in Nat
        /\ Cardinality(SeriesChosen) \in Nat
    BY <2>1, CardinalityLess
  <2>3. /\ seriesDeleted + Cardinality(OpenChosen) <= Cardinality(SeriesChosen)
        /\ seriesDeleted \in Nat
    BY DEF SeriesInv, SeriesCountOK, SeriesShape, SeriesTold, SeriesTypeOK
  <2>4. Cardinality(OpenChosen) = 0
    BY <2>2, <2>3
  <2> QED
    BY <2>2, <2>4, FS_EmptySet
<1>3. /\ seriesPc # "idle" /\ ~(seriesPc' # "idle") /\ ~(seriesPc' = "raised")
      /\ seriesPc = "raised" \/ OpenChosen \subseteq seriesExplained
  BY <1>1, <1>2
<1>4. SeriesCallAbstract!Return
  BY <1>1, <1>3 DEF SeriesCallAbstract!Return
<1> QED
  BY <1>4 DEF SeriesCallAbstract!Next

\* Every step of a series' deletion is a step of DeletionCall or a stutter: what
\* the three passes count has gone, and what they leave has its error when the
\* call returns without raising.
THEOREM SeriesKeepsPromise == SeriesSpec => SeriesCallPromise
<1>1. SeriesInit => SeriesCallAbstract!Init
  BY DEF SeriesInit, SeriesCallAbstract!Init, OpenChosen
<1>2. SeriesInv /\ SeriesInv' /\ [SeriesNext]_seriesVars
         => [SeriesCallAbstract!Next]_(SeriesCallAbstract!vars)
  <2> SUFFICES ASSUME SeriesInv, SeriesInv', [SeriesNext]_seriesVars
               PROVE  [SeriesCallAbstract!Next]_(SeriesCallAbstract!vars)
    OBVIOUS
  <2>1. CASE SeriesBegin
    BY <2>1, SeriesBeginCalls
  <2>2. CASE SeriesReturn
    BY <2>2, SeriesReturnReturns
  <2>3. CASE ScopeCommitRaises
    BY <2>3, SeriesRaiseFails
  <2>4. CASE SeriesProgress /\ ~SeriesReturn /\ ~ScopeCommitRaises
    BY <2>4, SeriesWorkProgresses
  <2>5. CASE UNCHANGED seriesVars
    BY <2>5
    DEF seriesVars, seriesData, seriesWork, SeriesCallAbstract!vars, OpenChosen, SeriesChosen
  <2> QED
    BY <2>1, <2>2, <2>3, <2>4, <2>5 DEF SeriesNext
<1> QED
  BY <1>1, <1>2, SeriesInvariance, PTL
  DEF SeriesSpec, SeriesCallPromise, SeriesCallAbstract!Spec

\* No file, row or entry is lost that no candidate of the call covers
\* (_delete_season_candidates, _delete_episode_candidates).
THEOREM UncoveredStays == SeriesSpec => []UncoveredKept
<1>1. SeriesInv => UncoveredKept
  BY DEF SeriesInv
<1> QED
  BY <1>1, SeriesInvariance, PTL

\* The candidates whose rows _delete_episode_candidates and
\* _delete_season_candidates delete go with them.
THEOREM CandidatesKeepRows == SeriesSpec => []CandidatesHaveRows
<1>1. SeriesInv => CandidatesHaveRows
  BY DEF SeriesInv, SeriesShape
<1> QED
  BY <1>1, SeriesInvariance, PTL

-----------------------------------------------------------------------------
(* The Leaving Soon collections.                                           *)

\* What the holder of the lock has asked the servers to remove is gone there.
PrunedSoFar ==
    soonPc \in {"prune", "act"} /\ soonRead.row.enabled =>
        \A s \in SoonServers \ (SilentServers \cup soonTodo) : soonRead.row.last[s] # NoTitle =>
            \A x \in soonShown[s] : x[1] \in PrunedTitles(s) => x[2] \notin soonActed

\* A sync that will remember another title has removed the one before.
ReplacedGone(s) ==
    /\ s \in soonTodo => soonRead.next[s] = soonRead.row.last[s]
    /\ soonRead.row.last[s] \notin {NoTitle, soonRead.next[s]} =>
           \A x \in soonShown[s] : x[1] # soonRead.row.last[s]

\* The inductive invariant.
SoonInv ==
    /\ SoonTypeOK
    /\ soonPc = "act" => soonTodo = {}
    /\ PrunedSoFar
    /\ soonPc = "sync" => \A s \in SoonServers : ReplacedGone(s)

\* The settings that are read are typed.
LEMMA SettingsTyped ==
    /\ FirstSettings \in SoonSettings
    /\ \A row \in SoonSettings : Reading(row) \in ReadSettings
    /\ NothingRead \in ReadSettings
<1>1. FirstSettings \in SoonSettings
  BY SoonAssumption DEF FirstSettings, SoonSettings, LastTitles
<1>2. \A row \in SoonSettings : Reading(row) \in ReadSettings
  BY DEF Reading, ReadSettings, SoonSettings
<1> QED
  BY <1>1, <1>2 DEF NothingRead

\* The invariant holds at the start.
LEMMA SoonInitInv == SoonInit => SoonInv
  BY SettingsTyped DEF SoonInit, SoonInv, SoonTypeOK, PrunedSoFar

\* Candidates are about to be deleted or moved.
LEMMA ActOnCandidatesInv ==
    ASSUME SoonInv, ActOnCandidates
    PROVE  SoonInv'
<1>1. SoonTypeOK'
  BY SettingsTyped, SoonAssumption
  DEF ActOnCandidates, soonWork, soonEditing, SoonInv, SoonTypeOK, Reading, ReadSettings,
      SoonSettings, LastTitles
<1>2. PrunedSoFar' /\ (soonPc = "act" => soonTodo = {})'
  BY SoonAssumption
  DEF ActOnCandidates, Reading, soonWork, soonEditing, SoonInv, SoonTypeOK, PrunedSoFar,
      PrunedTitles, ReadSettings, SoonSettings, LastTitles
<1>3. (soonPc = "sync" => \A r \in SoonServers : ReplacedGone(r))'
  BY SoonAssumption
  DEF ActOnCandidates, soonWork, soonEditing, SoonInv, SoonTypeOK, ReplacedGone, Reading,
      ReadSettings, SoonSettings, LastTitles
<1> QED
  BY <1>1, <1>2, <1>3 DEF SoonInv

\* A server is pruned.
LEMMA PruneServerInv ==
    ASSUME SoonInv, NEW s \in SoonServers, PruneServer(s)
    PROVE  SoonInv'
<1>1. SoonTypeOK'
  BY SettingsTyped, SoonAssumption
  DEF PruneServer, PrunedTitles, soonWork, soonEditing, SoonInv, SoonTypeOK, Reading,
      ReadSettings, SoonSettings, LastTitles
<1>2. PrunedSoFar' /\ (soonPc = "act" => soonTodo = {})'
  BY SoonAssumption
  DEF PruneServer, PrunedTitles, soonWork, soonEditing, SoonInv, SoonTypeOK, PrunedSoFar,
      PrunedTitles, ReadSettings, SoonSettings, LastTitles
<1>3. (soonPc = "sync" => \A r \in SoonServers : ReplacedGone(r))'
  BY SoonAssumption
  DEF PruneServer, PrunedTitles, soonWork, soonEditing, SoonInv, SoonTypeOK, ReplacedGone,
      Reading, ReadSettings, SoonSettings, LastTitles
<1> QED
  BY <1>1, <1>2, <1>3 DEF SoonInv

\* Pruning fails.
LEMMA PruneFailsInv ==
    ASSUME SoonInv, NEW s \in SoonServers, PruneFails(s)
    PROVE  SoonInv'
<1>1. SoonTypeOK'
  BY SettingsTyped, SoonAssumption
  DEF PruneFails, PrunedTitles, soonWork, soonEditing, SoonInv, SoonTypeOK, Reading,
      ReadSettings, SoonSettings, LastTitles
<1>2. PrunedSoFar' /\ (soonPc = "act" => soonTodo = {})'
  BY SoonAssumption
  DEF PruneFails, PrunedTitles, soonWork, soonEditing, SoonInv, SoonTypeOK, PrunedSoFar,
      PrunedTitles, ReadSettings, SoonSettings, LastTitles
<1>3. (soonPc = "sync" => \A r \in SoonServers : ReplacedGone(r))'
  BY SoonAssumption
  DEF PruneFails, PrunedTitles, soonWork, soonEditing, SoonInv, SoonTypeOK, ReplacedGone,
      Reading, ReadSettings, SoonSettings, LastTitles
<1> QED
  BY <1>1, <1>2, <1>3 DEF SoonInv

\* Every server was pruned, and the action starts.
LEMMA ActionStartsInv ==
    ASSUME SoonInv, ActionStarts
    PROVE  SoonInv'
<1>1. SoonTypeOK'
  BY SettingsTyped, SoonAssumption
  DEF ActionStarts, soonWork, soonEditing, SoonInv, SoonTypeOK, Reading, ReadSettings,
      SoonSettings, LastTitles
<1>2. PrunedSoFar' /\ (soonPc = "act" => soonTodo = {})'
  BY SoonAssumption
  DEF ActionStarts, soonWork, soonEditing, SoonInv, SoonTypeOK, PrunedSoFar, PrunedTitles,
      ReadSettings, SoonSettings, LastTitles
<1>3. (soonPc = "sync" => \A r \in SoonServers : ReplacedGone(r))'
  BY SoonAssumption
  DEF ActionStarts, soonWork, soonEditing, SoonInv, SoonTypeOK, ReplacedGone, Reading,
      ReadSettings, SoonSettings, LastTitles
<1> QED
  BY <1>1, <1>2, <1>3 DEF SoonInv

\* The action ends.
LEMMA ActionEndsInv ==
    ASSUME SoonInv, ActionEnds
    PROVE  SoonInv'
<1>1. SoonTypeOK'
  BY SettingsTyped, SoonAssumption
  DEF ActionEnds, soonWork, soonEditing, SoonInv, SoonTypeOK, Reading, ReadSettings,
      SoonSettings, LastTitles
<1>2. PrunedSoFar' /\ (soonPc = "act" => soonTodo = {})'
  BY SoonAssumption
  DEF ActionEnds, soonWork, soonEditing, SoonInv, SoonTypeOK, PrunedSoFar, PrunedTitles,
      ReadSettings, SoonSettings, LastTitles
<1>3. (soonPc = "sync" => \A r \in SoonServers : ReplacedGone(r))'
  BY SoonAssumption
  DEF ActionEnds, soonWork, soonEditing, SoonInv, SoonTypeOK, ReplacedGone, Reading,
      ReadSettings, SoonSettings, LastTitles
<1> QED
  BY <1>1, <1>2, <1>3 DEF SoonInv

\* A scan replaces the candidates.
LEMMA SoonScanInv ==
    ASSUME SoonInv, SoonScan
    PROVE  SoonInv'
<1>1. SoonTypeOK'
  BY SettingsTyped, SoonAssumption
  DEF SoonScan, soonWork, soonEditing, SoonInv, SoonTypeOK, Reading, ReadSettings,
      SoonSettings, LastTitles
<1>2. PrunedSoFar' /\ (soonPc = "act" => soonTodo = {})'
  BY SoonAssumption
  DEF SoonScan, soonWork, soonEditing, SoonInv, SoonTypeOK, PrunedSoFar, PrunedTitles,
      ReadSettings, SoonSettings, LastTitles
<1>3. (soonPc = "sync" => \A r \in SoonServers : ReplacedGone(r))'
  BY SoonAssumption
  DEF SoonScan, soonWork, soonEditing, SoonInv, SoonTypeOK, ReplacedGone, Reading,
      ReadSettings, SoonSettings, LastTitles
<1> QED
  BY <1>1, <1>2, <1>3 DEF SoonInv

\* A sync reads the settings.
LEMMA LoadSettingsInv ==
    ASSUME SoonInv, LoadSettings
    PROVE  SoonInv'
<1>1. SoonTypeOK'
  BY SettingsTyped, SoonAssumption
  DEF LoadSettings, soonWork, soonEditing, SoonInv, SoonTypeOK, Reading, ReadSettings,
      SoonSettings, LastTitles
<1>2. PrunedSoFar' /\ (soonPc = "act" => soonTodo = {})'
  BY SoonAssumption
  DEF LoadSettings, soonWork, soonEditing, SoonInv, SoonTypeOK, PrunedSoFar, PrunedTitles,
      ReadSettings, SoonSettings, LastTitles
<1>3. (soonPc = "sync" => \A r \in SoonServers : ReplacedGone(r))'
  BY SoonAssumption
  DEF LoadSettings, soonWork, soonEditing, SoonInv, SoonTypeOK, ReplacedGone, Reading,
      ReadSettings, SoonSettings, LastTitles
<1> QED
  BY <1>1, <1>2, <1>3 DEF SoonInv

\* A server has no client.
LEMMA ServerAwayInv ==
    ASSUME SoonInv, NEW s \in SoonServers, ServerAway(s)
    PROVE  SoonInv'
<1>1. SoonTypeOK'
  BY SettingsTyped, SoonAssumption
  DEF ServerAway, soonWork, soonEditing, SoonInv, SoonTypeOK, Reading, ReadSettings,
      SoonSettings, LastTitles
<1>2. PrunedSoFar' /\ (soonPc = "act" => soonTodo = {})'
  BY SoonAssumption
  DEF ServerAway, soonWork, soonEditing, SoonInv, SoonTypeOK, PrunedSoFar, PrunedTitles,
      ReadSettings, SoonSettings, LastTitles
<1>3. (soonPc = "sync" => \A r \in SoonServers : ReplacedGone(r))'
  BY SoonAssumption
  DEF ServerAway, soonWork, soonEditing, SoonInv, SoonTypeOK, ReplacedGone, Reading,
      ReadSettings, SoonSettings, LastTitles
<1> QED
  BY <1>1, <1>2, <1>3 DEF SoonInv

\* The collections of a server are written, or that fails.
LEMMA SyncServerInv ==
    ASSUME SoonInv, NEW s \in SoonServers, SyncServer(s)
    PROVE  SoonInv'
<1>1. SoonTypeOK'
  BY SettingsTyped, SoonAssumption
  DEF SyncServer, Without, Written, PartlyWritten, Shown, soonWork, soonEditing, SoonInv,
      SoonTypeOK, Reading, ReadSettings, SoonSettings, LastTitles
<1>2. PrunedSoFar' /\ (soonPc = "act" => soonTodo = {})'
  BY SoonAssumption
  DEF SyncServer, Without, Written, PartlyWritten, Shown, soonWork, soonEditing, SoonInv,
      SoonTypeOK, PrunedSoFar, PrunedTitles, ReadSettings, SoonSettings, LastTitles
<1>3. (soonPc = "sync" => \A r \in SoonServers : ReplacedGone(r))'
  BY SoonAssumption
  DEF SyncServer, Without, Written, PartlyWritten, Shown, soonWork, soonEditing, SoonInv,
      SoonTypeOK, ReplacedGone, Reading, ReadSettings, SoonSettings, LastTitles
<1> QED
  BY <1>1, <1>2, <1>3 DEF SoonInv

\* The collections of a server are removed.
LEMMA CleanUpServerInv ==
    ASSUME SoonInv, NEW s \in SoonServers, CleanUpServer(s)
    PROVE  SoonInv'
<1>1. SoonTypeOK'
  BY SettingsTyped, SoonAssumption
  DEF CleanUpServer, Without, soonWork, soonEditing, SoonInv, SoonTypeOK, Reading,
      ReadSettings, SoonSettings, LastTitles
<1>2. PrunedSoFar' /\ (soonPc = "act" => soonTodo = {})'
  BY SoonAssumption
  DEF CleanUpServer, Without, soonWork, soonEditing, SoonInv, SoonTypeOK, PrunedSoFar,
      PrunedTitles, ReadSettings, SoonSettings, LastTitles
<1>3. (soonPc = "sync" => \A r \in SoonServers : ReplacedGone(r))'
  BY SoonAssumption
  DEF CleanUpServer, Without, soonWork, soonEditing, SoonInv, SoonTypeOK, ReplacedGone,
      Reading, ReadSettings, SoonSettings, LastTitles
<1> QED
  BY <1>1, <1>2, <1>3 DEF SoonInv

\* The titles are saved.
LEMMA SyncEndsInv ==
    ASSUME SoonInv, SyncEnds
    PROVE  SoonInv'
<1>1. SoonTypeOK'
  BY SettingsTyped, SoonAssumption
  DEF SyncEnds, soonWork, soonEditing, SoonInv, SoonTypeOK, Reading, ReadSettings,
      SoonSettings, LastTitles
<1>2. PrunedSoFar' /\ (soonPc = "act" => soonTodo = {})'
  BY SoonAssumption
  DEF SyncEnds, soonWork, soonEditing, SoonInv, SoonTypeOK, PrunedSoFar, PrunedTitles,
      ReadSettings, SoonSettings, LastTitles
<1>3. (soonPc = "sync" => \A r \in SoonServers : ReplacedGone(r))'
  BY SoonAssumption
  DEF SyncEnds, soonWork, soonEditing, SoonInv, SoonTypeOK, ReplacedGone, Reading,
      ReadSettings, SoonSettings, LastTitles
<1> QED
  BY <1>1, <1>2, <1>3 DEF SoonInv

\* An edit of the settings starts.
LEMMA EditStartsInv ==
    ASSUME SoonInv, EditStarts
    PROVE  SoonInv'
<1>1. SoonTypeOK'
  <2>1. PICK title \in Titles, enabled \in BOOLEAN :
           IF soonSaved.enabled /\ ~enabled
           THEN /\ soonEdit' = Reading([soonSaved EXCEPT !.title = title])
                /\ soonEditTodo' = {s \in SoonServers : soonSaved.last[s] # NoTitle}
                /\ UNCHANGED soonSaved
           ELSE /\ soonSaved' = [soonSaved EXCEPT !.title = title, !.enabled = enabled]
                /\ UNCHANGED <<soonEdit, soonEditTodo>>
    BY DEF EditStarts, soonEditing
  <2>2. /\ [soonSaved EXCEPT !.title = title] \in SoonSettings
        /\ [soonSaved EXCEPT !.title = title, !.enabled = enabled] \in SoonSettings
    BY DEF SoonInv, SoonTypeOK, SoonSettings
  <2>3. Reading([soonSaved EXCEPT !.title = title]) \in ReadSettings
    BY <2>2, SettingsTyped
  <2>4. /\ soonSaved' \in SoonSettings /\ soonEdit' \in ReadSettings
        /\ soonEditTodo' \subseteq SoonServers
    BY <2>1, <2>2, <2>3 DEF SoonInv, SoonTypeOK
  <2> QED
    BY <2>4 DEF EditStarts, soonWork, SoonInv, SoonTypeOK
<1>2. PrunedSoFar' /\ (soonPc = "act" => soonTodo = {})'
  BY SoonAssumption
  DEF EditStarts, soonWork, soonEditing, SoonInv, SoonTypeOK, PrunedSoFar, PrunedTitles,
      ReadSettings, SoonSettings, LastTitles
<1>3. (soonPc = "sync" => \A r \in SoonServers : ReplacedGone(r))'
  BY SoonAssumption
  DEF EditStarts, soonWork, soonEditing, SoonInv, SoonTypeOK, ReplacedGone, Reading,
      ReadSettings, SoonSettings, LastTitles
<1> QED
  BY <1>1, <1>2, <1>3 DEF SoonInv

\* An edit that switches off removes the collections of a server.
LEMMA EditServerInv ==
    ASSUME SoonInv, NEW s \in SoonServers, EditServer(s)
    PROVE  SoonInv'
<1>1. SoonTypeOK'
  BY SettingsTyped, SoonAssumption
  DEF EditServer, Without, soonWork, soonEditing, SoonInv, SoonTypeOK, Reading, ReadSettings,
      SoonSettings, LastTitles
<1>2. PrunedSoFar' /\ (soonPc = "act" => soonTodo = {})'
  BY SoonAssumption
  DEF EditServer, Without, soonWork, soonEditing, SoonInv, SoonTypeOK, PrunedSoFar,
      PrunedTitles, ReadSettings, SoonSettings, LastTitles
<1>3. (soonPc = "sync" => \A r \in SoonServers : ReplacedGone(r))'
  BY SoonAssumption
  DEF EditServer, Without, soonWork, soonEditing, SoonInv, SoonTypeOK, ReplacedGone, Reading,
      ReadSettings, SoonSettings, LastTitles
<1> QED
  BY <1>1, <1>2, <1>3 DEF SoonInv

\* An edit is saved.
LEMMA EditEndsInv ==
    ASSUME SoonInv, EditEnds
    PROVE  SoonInv'
<1>1. SoonTypeOK'
  BY SettingsTyped, SoonAssumption
  DEF EditEnds, soonWork, soonEditing, SoonInv, SoonTypeOK, Reading, ReadSettings,
      SoonSettings, LastTitles
<1>2. PrunedSoFar' /\ (soonPc = "act" => soonTodo = {})'
  BY SoonAssumption
  DEF EditEnds, soonWork, soonEditing, SoonInv, SoonTypeOK, PrunedSoFar, PrunedTitles,
      ReadSettings, SoonSettings, LastTitles
<1>3. (soonPc = "sync" => \A r \in SoonServers : ReplacedGone(r))'
  BY SoonAssumption
  DEF EditEnds, soonWork, soonEditing, SoonInv, SoonTypeOK, ReplacedGone, Reading,
      ReadSettings, SoonSettings, LastTitles
<1> QED
  BY <1>1, <1>2, <1>3 DEF SoonInv

\* A step of another part changes nothing.
LEMMA SoonUnchanged ==
    ASSUME SoonInv, UNCHANGED soonVars
    PROVE  SoonInv'
  BY
  DEF SoonInv, soonVars, soonWork, soonEditing, SoonTypeOK, PrunedSoFar, PrunedTitles,
      ReplacedGone

\* The inductive invariant of the Leaving Soon collections holds in every reachable
\* state, whoever edits the settings meanwhile.
THEOREM SoonInvariance == SoonSpec => []SoonInv
<1>1. SoonInv /\ [SoonNext]_soonVars => SoonInv'
  BY ActOnCandidatesInv, PruneServerInv, PruneFailsInv, ActionStartsInv, ActionEndsInv,
     SoonScanInv, LoadSettingsInv, ServerAwayInv, SyncServerInv, CleanUpServerInv,
     SyncEndsInv, EditStartsInv, EditServerInv, EditEndsInv, SoonUnchanged
  DEF SoonNext
<1> QED
  BY SoonInitInv, <1>1, PTL DEF SoonSpec

\* While candidates are deleted or moved no synced server links them: what
\* _prune_leaving_soon_before_candidate_actions promises, for any servers and titles.
THEOREM LinksPrunedHolds == SoonSpec => []LinksPruned
<1>1. SoonInv => LinksPruned
  <2> SUFFICES ASSUME SoonInv, soonPc = "act", soonRead.row.enabled,
                      NEW s \in SoonServers \ SilentServers, soonRead.row.last[s] # NoTitle,
                      NEW item \in soonActed,
                      \/ item \in Shown(s, soonRead.row.title)
                      \/ item \in Shown(s, soonRead.row.last[s])
               PROVE  FALSE
    BY DEF LinksPruned
  <2>1. soonTodo = {} /\ soonRead.row.title # NoTitle
    BY SoonAssumption DEF SoonInv, SoonTypeOK, ReadSettings, SoonSettings
  <2>2. \A x \in soonShown[s] : x[1] \in PrunedTitles(s) => x[2] \notin soonActed
    BY <2>1 DEF SoonInv, PrunedSoFar
  <2>3. PICK x \in soonShown[s] :
            x[2] = item /\ (x[1] = soonRead.row.title \/ x[1] = soonRead.row.last[s])
    BY DEF Shown
  <2> QED
    BY <2>1, <2>2, <2>3 DEF PrunedTitles
<1> QED
  BY <1>1, SoonInvariance, PTL

\* _sync_leaving_soon_collections forgets a title only when its collection is gone.
THEOREM ForgottenAreGone == SoonSpec => SyncForgetsGone
<1>1. SoonInv /\ [SoonNext]_soonVars =>
        [SyncEnds => \A s \in SoonServers :
           soonRead.row.last[s] \notin {NoTitle, soonRead.next[s]} =>
               Shown(s, soonRead.row.last[s]) = {}]_soonVars
  BY DEF SyncEnds, SoonInv, ReplacedGone, Shown
<1> QED
  BY <1>1, SoonInvariance, PTL DEF SoonSpec, SyncForgetsGone

-----------------------------------------------------------------------------
(* One of the three in a behaviour.                                        *)

\* A behaviour of the routes is one of each of the three.
LEMMA RoutesAreThree == RoutesSpec => MovieSpec /\ SeriesSpec /\ SoonSpec
<1>1. RoutesInit => MovieInit /\ SeriesInit /\ SoonInit
  BY DEF RoutesInit
<1>2. [RoutesNext]_<<route, movieVars, seriesVars, soonVars>> =>
          [MovieNext]_movieVars /\ [SeriesNext]_seriesVars /\ [SoonNext]_soonVars
  BY DEF RoutesNext
<1> QED
  BY <1>1, <1>2, PTL DEF RoutesSpec, MovieSpec, SeriesSpec, SoonSpec

\* The variables of the routes keep their types, whatever
\* _delete_specific_candidates_impl and the syncs of the collections do.
THEOREM RoutesTyped == RoutesSpec => []RoutesTypeOK
<1>1. MovieInv /\ SeriesInv /\ SoonInv => RoutesTypeOK
  BY DEF MovieInv, MovieShape, SeriesInv, SeriesShape, SoonInv, RoutesTypeOK
<1> QED
  BY <1>1, RoutesAreThree, MovieInvariance, SeriesInvariance, SoonInvariance, PTL
=============================================================================
