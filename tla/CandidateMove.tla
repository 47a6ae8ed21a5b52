--------------------------- MODULE CandidateMove ----------------------------
(***************************************************************************)
(* One call of _move_specific_candidates_impl (backend/tasks/cleanup.py)   *)
(* with the file moves of backend/core/utils/filesystem.py: candidates of  *)
(* a movie and of a series go to the destination one by one.  Each has its *)
(* files moved, is unmonitored, is deleted on the main media server, and   *)
(* has its rows removed; an error of the first or the last of these ends   *)
(* it where it is, one of the other two is logged.                         *)
(*                                                                         *)
(* Radarr and Sonarr delete nothing here and are left out.  The files of a *)
(* season are moved or kept together.                                      *)
(***************************************************************************)
EXTENDS SeriesStructure

CONSTANTS
    MoveVersions, \* movie_versions rows of the movie
    WholeMovie,   \* a candidate without a version
    ServerItem,   \* the item of the media server a version belongs to
    NoCandidate,
    MaxMoves      \* bound: candidates in one call

ASSUME MoveAssumption ==
    /\ MoveVersions \cap Scopes = {}
    /\ WholeMovie \notin MoveVersions \cup Scopes
    /\ NoCandidate \notin MoveVersions \cup Scopes \cup {WholeMovie}
    /\ ServerItem \in [MoveVersions -> Nat]

VARIABLES
    moveCall,    \* chosen candidates, server: media or items, flat: one folder
    movePc,      \* idle, next, server or commit
    moveCurrent, \* the candidate at hand
    moveTodo,    \* those still to do
    moveFiles,   \* of each version and season: kept, moved or lost
    moveRows,    \* movie_versions and seasons rows left
    moveRemoved, \* series.removed_at is set
    moveOpen     \* candidates left

moveVars == <<moveCall, movePc, moveCurrent, moveTodo, moveFiles, moveRows, moveRemoved, moveOpen>>

Movable == MoveVersions \cup Seasons
MoveScopes == MoveVersions \cup {WholeMovie} \cup Scopes
NoMoveCall == [chosen |-> {}, server |-> "none", flat |-> FALSE]

MoveInit ==
    /\ moveCall = NoMoveCall
    /\ movePc = "idle"
    /\ moveCurrent = NoCandidate
    /\ moveTodo = {}
    /\ moveFiles = [x \in Movable |-> "kept"]
    /\ moveRows = Movable
    /\ moveRemoved = FALSE
    /\ moveOpen = {}

MoveBegin ==
    /\ movePc = "idle"
    /\ \E chosen \in (SUBSET MoveScopes) \ {{}}, others \in {{}, MoveScopes},
          server \in {"none", "media", "items"}, flat \in BOOLEAN :
           /\ Cardinality(chosen) <= MaxMoves
           /\ moveCall' = [chosen |-> chosen, server |-> server, flat |-> flat]
           /\ moveTodo' = chosen
           /\ moveOpen' = chosen \cup others
    /\ movePc' = "next"
    /\ UNCHANGED <<moveCurrent, moveFiles, moveRows, moveRemoved>>

\* Movie candidates come first.
TakeCandidate(c) ==
    /\ movePc = "next" /\ moveCurrent = NoCandidate
    /\ c \in moveTodo
    /\ c \in Scopes => moveTodo \subseteq Scopes
    /\ moveCurrent' = c
    /\ moveTodo' = moveTodo \ {c}
    /\ UNCHANGED <<moveCall, movePc, moveFiles, moveRows, moveRemoved, moveOpen>>

MovedFiles(X) == [x \in Movable |-> IF x \in X THEN "moved" ELSE moveFiles[x]]
LostFiles(X) ==
    [x \in Movable |-> IF x \in X /\ moveFiles[x] = "kept" THEN "lost" ELSE moveFiles[x]]

\* move_media and move_directory: what is not there cannot be moved, and what
\* is at the destination is not moved into.
CanMove(c) ==
    \/ c \in MoveVersions /\ moveFiles[c] = "kept"
    \/ c \in Seasons /\ ~moveCall.flat /\ moveFiles[c] = "kept"
    \/ /\ c = WholeSeries
       /\ \A s \in Seasons : moveFiles[s] # "moved"
       /\ \E s \in Seasons : moveFiles[s] = "kept"

FilesOfMove(c) == IF c = WholeSeries THEN {s \in Seasons : moveFiles[s] = "kept"} ELSE {c}

\* Mutant: an error of the move is logged, as for the files of a season.
FilesMove_Logged(c) ==
    /\ movePc = "next" /\ c = moveCurrent /\ c # NoCandidate
    /\ \/ CanMove(c) /\ moveFiles' = MovedFiles(FilesOfMove(c))
       \/ UNCHANGED moveFiles
    /\ movePc' = "server"
    /\ UNCHANGED <<moveCall, moveCurrent, moveTodo, moveRows, moveRemoved, moveOpen>>

FilesMove(c) ==
    /\ movePc = "next" /\ c = moveCurrent
    /\ CanMove(c)
    /\ moveFiles' = MovedFiles(FilesOfMove(c))
    /\ movePc' = "server"
    /\ UNCHANGED <<moveCall, moveCurrent, moveTodo, moveRows, moveRemoved, moveOpen>>

\* move_season_files logs the files it cannot move.
FlatSeasonMoves(s) ==
    /\ movePc = "next" /\ s = moveCurrent
    /\ moveCall.flat
    /\ \/ moveFiles[s] = "kept" /\ moveFiles' = MovedFiles({s})
       \/ UNCHANGED moveFiles
    /\ movePc' = "server"
    /\ UNCHANGED <<moveCall, moveCurrent, moveTodo, moveRows, moveRemoved, moveOpen>>

\* No version, no row, no path, no destination, an episode, or the files do
\* not move; they may have been copied before the error.
MoveFails(c) ==
    /\ movePc = "next" /\ c = moveCurrent /\ c # NoCandidate
    /\ \/ CanMove(c) /\ moveFiles' = MovedFiles(FilesOfMove(c))
       \/ UNCHANGED moveFiles
    /\ moveCurrent' = NoCandidate
    /\ UNCHANGED <<moveCall, movePc, moveTodo, moveRows, moveRemoved, moveOpen>>

\* What the server deletes of the disk: an item of Emby and Jellyfin with all
\* its versions; what a flat season has left.
ServerTakes(c) ==
    IF c \in MoveVersions
    THEN IF moveCall.server = "items"
         THEN {v \in MoveVersions : ServerItem[v] = ServerItem[c]} ELSE {c}
    ELSE FilesOfMove(c)

ServerRemoves ==
    /\ movePc = "server"
    /\ \/ /\ moveCall.server # "none"
          /\ moveFiles' = LostFiles(ServerTakes(moveCurrent))
       \/ UNCHANGED moveFiles    \* no server, or its error is logged
    /\ movePc' = "commit"
    /\ UNCHANGED <<moveCall, moveCurrent, moveTodo, moveRows, moveRemoved, moveOpen>>

MoveCommit ==
    /\ movePc = "commit"
    /\ IF moveCurrent = WholeSeries
       THEN /\ moveRemoved' = TRUE
            /\ moveOpen' = moveOpen \ {WholeSeries}
            /\ UNCHANGED moveRows
       ELSE LET gone == IF moveCurrent \in Seasons THEN Within(moveCurrent) ELSE {moveCurrent}
            IN  /\ moveRows' = moveRows \ gone
                /\ moveOpen' = moveOpen \ gone
                /\ moveRemoved' = (moveRemoved \/ moveRows' \cap Seasons = {})
    /\ moveCurrent' = NoCandidate
    /\ movePc' = "next"
    /\ UNCHANGED <<moveCall, moveTodo, moveFiles>>

MoveCommitFails ==
    /\ movePc = "commit"
    /\ moveCurrent' = NoCandidate
    /\ movePc' = "next"
    /\ UNCHANGED <<moveCall, moveTodo, moveFiles, moveRows, moveRemoved, moveOpen>>

\* The next call starts over.
MoveReturns ==
    /\ movePc = "next" /\ moveTodo = {} /\ moveCurrent = NoCandidate
    /\ moveCall' = NoMoveCall
    /\ movePc' = "idle"
    /\ moveFiles' = [x \in Movable |-> "kept"]
    /\ moveRows' = Movable
    /\ moveRemoved' = FALSE
    /\ moveOpen' = {}
    /\ UNCHANGED <<moveCurrent, moveTodo>>

MoveNext ==
    \/ MoveBegin
    \/ \E c \in MoveScopes : TakeCandidate(c) \/ FilesMove(c) \/ MoveFails(c)
    \/ \E s \in Seasons : FlatSeasonMoves(s)
    \/ ServerRemoves
    \/ MoveCommit
    \/ MoveCommitFails
    \/ MoveReturns

MoveSpec == MoveInit /\ [][MoveNext]_moveVars

-----------------------------------------------------------------------------
(* Properties                                                              *)

MoveTypeOK ==
    /\ moveCall \in [chosen : SUBSET MoveScopes, server : {"none", "media", "items"},
                     flat : BOOLEAN]
    /\ movePc \in {"idle", "next", "server", "commit"}
    /\ moveCurrent \in moveCall.chosen \cup {NoCandidate}
    /\ moveTodo \subseteq moveCall.chosen
    /\ moveFiles \in [Movable -> {"kept", "moved", "lost"}]
    /\ moveRows \subseteq Movable
    /\ moveRemoved \in BOOLEAN
    /\ moveOpen \subseteq MoveScopes

MoveCovers(x) == x \in moveCall.chosen \/ (x \in Seasons /\ WholeSeries \in moveCall.chosen)

\* Whatever candidates of a movie and a series one call gets and whichever of
\* its steps fail, files reach the destination only for a candidate of the
\* call, and a version, a season with a folder of its own, or a series is
\* recorded as gone only when no file of it is left where it was: a candidate
\* whose files another one took away is left open.
MovedExactly ==
    /\ \A x \in Movable : moveFiles[x] = "moved" => MoveCovers(x)
    /\ \A x \in Movable \ moveRows :
           moveFiles[x] = "moved" \/ (x \in Seasons /\ moveCall.flat)
    /\ moveRemoved /\ ~moveCall.flat => \A s \in Seasons : moveFiles[s] = "moved"
=============================================================================
