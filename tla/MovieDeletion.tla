--------------------------- MODULE MovieDeletion ----------------------------
(***************************************************************************)
(* One call of _delete_specific_candidates_impl for the candidates of one  *)
(* movie (backend/tasks/cleanup.py): the versions of the movie are files   *)
(* in folders of Radarr instances, listed by a media server.  The route of *)
(* each candidate depends on the paths the database holds; every call to   *)
(* Radarr, the media server and the disk may fail on its own, and so may   *)
(* the transaction that records what was done.                             *)
(*                                                                         *)
(* The caller holds candidate_workflow_lock.  Seerr, webhooks, history     *)
(* rows, sizes and the refresh Radarr is asked for at the end change       *)
(* nothing these properties read and are left out.                         *)
(***************************************************************************)
EXTENDS ArrActions

CONSTANTS
    Versions,      \* movie_versions rows of the movie
    Whole,         \* movie_version_id NULL: a candidate for the movie
    Radarrs,       \* ids of Radarr service_configs
    Outside,       \* the folder of a file that is in no Radarr folder
    Layouts,       \* functions: where each version is
    MovieSettings, \* records: main, fallback, move, favorite
    MaxCandidates  \* bound: candidates in one call

ASSUME MovieAssumption ==
    /\ IsFiniteSet(Versions)
    /\ Whole \notin Versions
    /\ Outside \notin Radarrs
    /\ \A l \in Layouts : /\ DOMAIN l = Versions
                          /\ \A v \in Versions : /\ l[v].folder \in Radarrs \cup {Outside}
                                                 /\ l[v].main \in BOOLEAN
    /\ MovieSettings \subseteq [main : {"none", "plex", "jellyfin"}, fallback : BOOLEAN,
                                move : BOOLEAN, favorite : BOOLEAN]

VARIABLES
    movieCall,      \* the candidates, and what the call has read
    moviePc,        \* where it is
    movieFiles,     \* movieFiles[v]: kept, moved or gone
    movieRows,      \* movie_versions rows left
    movieRemoved,   \* movies.removed_at is set
    movieOpen,      \* candidates left, as what they are for
    movieExplained, \* candidates with last_delete_error
    movieTodo,      \* version candidates for the media server still to do
    movieRefs,      \* Radarr instances still to call
    movieDone,      \* Radarr instances that accepted
    movieEntries,   \* Radarr instances that keep an entry of the movie
    movieDeleted    \* deleted_count

movieData == <<movieFiles, movieRows, movieRemoved, movieOpen, movieExplained>>
movieWork == <<movieTodo, movieRefs, movieDone, movieEntries, movieDeleted>>
movieVars == <<movieCall, moviePc, movieData, movieWork>>

\* What is read at the start.  `known': refs whose arr_movie_path is stored and
\* can be compared; `clients': instances the service manager serves.
NoMovieCall == [action |-> <<>>]

Chosen == DOMAIN movieCall.action
ChosenVersions == Chosen \ {Whole}
WholeMovie == Whole \in Chosen
MovieAction == MergedAction({movieCall.action[c] : c \in Chosen})

\* Files and rows the candidates of the call do not name.
Unselected == IF WholeMovie THEN {} ELSE Versions \ ChosenVersions

InFolder(c) == {v \in Versions : movieCall.layout[v].folder = c}
ActiveRefs == movieCall.refs \cap movieCall.clients

\* _match_version_to_arr: a stored folder that holds the file, or else the
\* only active instance.
MatchVersionToArr(v) ==
    LET proved == {c \in ActiveRefs \cap movieCall.known : v \in InFolder(c)}
    IN  IF proved # {} THEN proved
        ELSE IF Cardinality(ActiveRefs) = 1 THEN ActiveRefs ELSE {}

\* Mutant: one selected version in the folder is enough.
CandidateCoversFullRadarrEntry_Any(matched) ==
    /\ matched # {}
    /\ \A c \in matched : InFolder(c) \cap ChosenVersions # {}

\* _candidate_covers_full_radarr_entry, for the instances a version matches.
CandidateCoversFullRadarrEntry(matched) ==
    LET allOfOne == Cardinality(movieCall.refs) = 1 /\ ChosenVersions = Versions
    IN  /\ matched # {}
        /\ \A c \in matched :
               IF c \in movieCall.known /\ InFolder(c) # {}
               THEN InFolder(c) \subseteq ChosenVersions
               ELSE allOfOne

\* Version candidates that go to Radarr.
RoutedVersions ==
    {v \in ChosenVersions :
        /\ MatchVersionToArr(v) # {}
        /\ \/ MovieAction = "unmonitor"
           \/ /\ MovieAction = "delete"
              /\ CandidateCoversFullRadarrEntry(MatchVersionToArr(v))}

UnmatchedVersions == ChosenVersions \ RoutedVersions

\* all_cand_ids_by_movie: their rows go when Radarr accepts.
RoutedCandidates ==
    RoutedVersions \cup IF WholeMovie /\ movieCall.clients # {} THEN {Whole} ELSE {}

\* movie_arr_routing: a candidate of the whole movie goes to every instance.
MovieArrRouting ==
    UNION {MatchVersionToArr(v) : v \in RoutedVersions}
        \cup IF WholeMovie THEN ActiveRefs ELSE {}

OfMain == {v \in Versions : movieCall.layout[v].main}
SameItem(v) == {w \in OfMain : movieCall.layout[w].item = movieCall.layout[v].item}

Gone(S) == [v \in Versions |-> IF v \in S THEN "gone" ELSE movieFiles[v]]

-----------------------------------------------------------------------------
(* The call starts                                                         *)

MovieInit ==
    /\ movieCall = NoMovieCall
    /\ moviePc = "idle"
    /\ movieFiles = [v \in Versions |-> "kept"]
    /\ movieRows = Versions
    /\ movieRemoved = FALSE
    /\ movieOpen = {}
    /\ movieExplained = {}
    /\ movieTodo = {}
    /\ movieRefs = {}
    /\ movieDone = {}
    /\ movieEntries = {}
    /\ movieDeleted = 0

\* Without Radarr and media server, or for a favorite, nothing is routed.
MovieCallStarts(call) ==
    /\ movieCall' = call
    /\ movieOpen' = DOMAIN call.action
    /\ movieEntries' = call.refs
    /\ moviePc' = IF call.settings.favorite \/ (call.clients = {} /\ call.settings.main = "none")
                  THEN "tally" ELSE "route"
    /\ UNCHANGED <<movieFiles, movieRows, movieRemoved, movieExplained, movieTodo,
                   movieRefs, movieDone, movieDeleted>>

MovieBegin ==
    /\ moviePc = "idle"
    /\ \E layout \in Layouts, chosen \in SUBSET (Versions \cup {Whole}) :
           /\ Cardinality(chosen) \in 1..MaxCandidates
           /\ \E refs \in SUBSET Radarrs :
              \E known \in SUBSET refs, clients \in SUBSET Radarrs, settings \in MovieSettings,
                 default \in {"unmonitor", "remove_if_empty"},
                 rules \in [chosen -> SUBSET {"delete", "unmonitor"}] :
                  MovieCallStarts(
                      [layout |-> layout, refs |-> refs, known |-> known, clients |-> clients,
                       action |-> [c \in chosen |-> GetArrAction(rules[c], default)],
                       settings |-> settings])

\* Version candidates no Radarr can take go to the media server first.
MovieRoute ==
    /\ moviePc = "route"
    /\ movieRefs' = MovieArrRouting
    /\ IF movieCall.settings.fallback /\ movieCall.settings.main # "none"
       THEN movieTodo' = UnmatchedVersions /\ UNCHANGED movieExplained
       ELSE movieExplained' = movieExplained \cup UnmatchedVersions /\ UNCHANGED movieTodo
    /\ moviePc' = "versions"
    /\ UNCHANGED <<movieCall, movieFiles, movieRows, movieRemoved, movieOpen, movieDone,
                   movieEntries, movieDeleted>>

-----------------------------------------------------------------------------
(* _delete_movie_version_candidates                                        *)

\* Emby and Jellyfin delete items: the version must be the only one of its item.
Deletable(v) ==
    /\ movieCall.layout[v].main
    /\ movieCall.settings.main = "jellyfin" => Cardinality(SameItem(v)) = 1

\* What delete_movie_version removes: a Plex medium, or a Jellyfin item.
VersionFiles(v) == IF movieCall.settings.main = "plex" THEN {v} ELSE SameItem(v)

\* The failure may come after the server has deleted, from the transaction.
MovieVersionFails(v) ==
    /\ moviePc = "versions"
    /\ v \in movieTodo
    /\ movieTodo' = movieTodo \ {v}
    /\ movieExplained' = movieExplained \cup {v}
    /\ \/ UNCHANGED movieFiles
       \/ Deletable(v) /\ movieFiles' = Gone(VersionFiles(v))
    /\ UNCHANGED <<movieCall, moviePc, movieRows, movieRemoved, movieOpen, movieRefs,
                   movieDone, movieEntries, movieDeleted>>

\* remove_if_empty: the entries of an empty movie go, where Radarr answers.
MovieVersionDeleted(v) ==
    /\ moviePc = "versions"
    /\ v \in movieTodo
    /\ Deletable(v)
    /\ movieTodo' = movieTodo \ {v}
    /\ movieFiles' = Gone(VersionFiles(v))
    /\ movieOpen' = movieOpen \ {v}
    /\ movieRows' = movieRows \ {v}
    /\ movieRemoved' = (movieRemoved \/ movieRows' = {})
    /\ IF movieCall.action[v] = "remove_if_empty" /\ movieRemoved'
       THEN \E S \in SUBSET ActiveRefs : movieEntries' = movieEntries \ S
       ELSE UNCHANGED movieEntries
    /\ movieDeleted' = movieDeleted + 1
    /\ UNCHANGED <<movieCall, moviePc, movieExplained, movieRefs, movieDone>>

MovieVersionsDone ==
    /\ moviePc = "versions"
    /\ movieTodo = {}
    /\ moviePc' = IF movieRefs = {} THEN "server" ELSE "radarr"
    /\ UNCHANGED <<movieCall, movieData, movieWork>>

-----------------------------------------------------------------------------
(* _delete_movie_candidates: the batches of the Radarr instances           *)

\* Where moves are enabled, every version with a path that resolves is moved
\* before its entry goes.
MovesBefore ==
    \E S \in SUBSET {v \in Versions : movieFiles[v] = "kept"} :
        movieFiles' = [v \in Versions |-> IF v \in S THEN "moved" ELSE movieFiles[v]]

\* delete_movies removes the entry and, unless moves are enabled, its folder.
MovieRadarrDeletes(c) ==
    /\ MovieAction # "unmonitor"
    /\ IF movieCall.settings.move THEN MovesBefore
       ELSE movieFiles' = Gone({v \in InFolder(c) : movieFiles[v] = "kept"})
    /\ movieEntries' = movieEntries \ {c}

MovieRadarrAccepts(c) ==
    /\ moviePc = "radarr"
    /\ c \in movieRefs
    /\ \/ MovieRadarrDeletes(c)
       \/ MovieAction = "unmonitor" /\ UNCHANGED <<movieFiles, movieEntries>>
    /\ movieRefs' = movieRefs \ {c}
    /\ movieDone' = movieDone \cup {c}
    /\ UNCHANGED <<movieCall, moviePc, movieRows, movieRemoved, movieOpen, movieExplained,
                   movieTodo, movieDeleted>>

\* An answer that is lost does not undo what Radarr did.
MovieRadarrRaises(c) ==
    /\ moviePc = "radarr"
    /\ c \in movieRefs
    /\ \/ MovieRadarrDeletes(c)
       \/ /\ MovieAction # "unmonitor" /\ movieCall.settings.move
          /\ MovesBefore
          /\ UNCHANGED movieEntries
       \/ UNCHANGED <<movieFiles, movieEntries>>
    /\ movieRefs' = movieRefs \ {c}
    /\ movieExplained' = movieExplained \cup RoutedCandidates
    /\ UNCHANGED <<movieCall, moviePc, movieRows, movieRemoved, movieOpen, movieTodo,
                   movieDone, movieDeleted>>

MovieRadarrDone ==
    /\ moviePc = "radarr"
    /\ movieRefs = {}
    /\ moviePc' = IF movieDone = {} THEN "server"
                  ELSE IF MovieAction = "unmonitor" THEN "disk" ELSE "commit"
    /\ UNCHANGED <<movieCall, movieData, movieWork>>

\* Unmonitored: the files of the targets go, from the disk where their paths
\* resolve and from the media server, an item only with all its versions.
UnmonitorTargets == IF WholeMovie THEN Versions ELSE ChosenVersions

ItemTargets ==
    IF ~movieCall.settings.fallback \/ movieCall.settings.main = "none" THEN {}
    ELSE {v \in UnmonitorTargets \cap OfMain : SameItem(v) \subseteq UnmonitorTargets}

MovieUnmonitorFiles ==
    /\ moviePc = "disk"
    /\ \E siblings \in SUBSET UnmonitorTargets, items \in SUBSET ItemTargets :
           /\ \A v \in items : SameItem(v) \subseteq items
           /\ movieFiles' = Gone(siblings \cup items)
    /\ moviePc' = "commit"
    /\ UNCHANGED <<movieCall, movieRows, movieRemoved, movieOpen, movieExplained, movieWork>>

\* One instance that accepted is enough: the target rows and every candidate
\* that was routed go, those the media server refused keep their rows.
MovieCommit ==
    /\ moviePc = "commit"
    /\ movieRows' = IF WholeMovie THEN movieRows ELSE movieRows \ ChosenVersions
    /\ movieRemoved' = (movieRemoved \/ WholeMovie \/ movieRows' = {})
    /\ movieOpen' = movieOpen \ RoutedCandidates
    /\ movieDeleted' = movieDeleted + 1
    /\ moviePc' = "server"
    /\ UNCHANGED <<movieCall, movieFiles, movieExplained, movieTodo, movieRefs, movieDone,
                   movieEntries>>

MovieCommitFails ==
    /\ moviePc = "commit"
    /\ moviePc' = "server"
    /\ UNCHANGED <<movieCall, movieData, movieWork>>

-----------------------------------------------------------------------------
(* The whole movie through the media server, and the counts                *)

MainRows == movieRows \cap OfMain

ServerFallback == WholeMovie /\ movieDone = {} /\ movieCall.settings.fallback /\ movieCall.settings.main # "none"

\* _delete_movies_via_media_server
MovieServerDeletes ==
    /\ moviePc = "server"
    /\ ServerFallback
    /\ MainRows # {}
    /\ movieFiles' = Gone(MainRows)
    /\ movieRemoved' = TRUE
    /\ movieOpen' = movieOpen \ {Whole}
    /\ movieDeleted' = movieDeleted + 1
    /\ moviePc' = "tally"
    /\ UNCHANGED <<movieCall, movieRows, movieExplained, movieTodo, movieRefs, movieDone,
                   movieEntries>>

\* Nothing to delete, or an item that cannot be deleted after others were.
MovieServerDoesNot ==
    /\ moviePc = "server"
    /\ \/ /\ ServerFallback
          /\ \E S \in SUBSET MainRows :
                 /\ \A v \in S : SameItem(v) \cap MainRows \subseteq S
                 /\ movieFiles' = Gone(S)
       \/ ~ServerFallback /\ UNCHANGED movieFiles
    /\ movieExplained' = IF WholeMovie /\ movieDone = {} /\ ~movieCall.settings.fallback
                         THEN movieExplained \cup (movieOpen \cap {Whole})
                         ELSE movieExplained
    /\ moviePc' = "tally"
    /\ UNCHANGED <<movieCall, movieRows, movieRemoved, movieOpen, movieWork>>

\* Mutant: candidates without an error are marked only if nothing was deleted.
MovieTally_AllFailed ==
    /\ moviePc = "tally"
    /\ movieExplained' = IF movieDeleted = 0
                         THEN movieExplained \cup movieOpen ELSE movieExplained
    /\ moviePc' = "done"
    /\ UNCHANGED <<movieCall, movieFiles, movieRows, movieRemoved, movieOpen, movieWork>>

\* failed = found - deleted: what is left without an error gets one.
MovieTally ==
    /\ moviePc = "tally"
    /\ movieExplained' = IF Cardinality(Chosen) > movieDeleted
                         THEN movieExplained \cup movieOpen ELSE movieExplained
    /\ moviePc' = "done"
    /\ UNCHANGED <<movieCall, movieFiles, movieRows, movieRemoved, movieOpen, movieWork>>

\* The caller has its counts; the next call is for another movie.
MovieReturn ==
    /\ moviePc = "done"
    /\ movieCall' = NoMovieCall
    /\ moviePc' = "idle"
    /\ movieFiles' = [v \in Versions |-> "kept"]
    /\ movieRows' = Versions
    /\ movieRemoved' = FALSE
    /\ movieOpen' = {}
    /\ movieExplained' = {}
    /\ movieTodo' = {}
    /\ movieRefs' = {}
    /\ movieDone' = {}
    /\ movieEntries' = {}
    /\ movieDeleted' = 0

MovieProgress ==
    \/ MovieRoute
    \/ \E v \in Versions : MovieVersionFails(v) \/ MovieVersionDeleted(v)
    \/ MovieVersionsDone
    \/ \E c \in Radarrs : MovieRadarrAccepts(c) \/ MovieRadarrRaises(c)
    \/ MovieRadarrDone
    \/ MovieUnmonitorFiles
    \/ MovieCommit
    \/ MovieCommitFails
    \/ MovieServerDeletes
    \/ MovieServerDoesNot
    \/ MovieTally
    \/ MovieReturn

MovieNext == MovieBegin \/ MovieProgress

MovieSpec == MovieInit /\ [][MovieNext]_movieVars

-----------------------------------------------------------------------------
(* Properties                                                              *)

MovieTypeOK ==
    /\ moviePc \in {"idle", "route", "versions", "radarr", "disk", "commit", "server",
                    "tally", "done"}
    /\ movieFiles \in [Versions -> {"kept", "moved", "gone"}]
    /\ movieRows \subseteq Versions
    /\ movieRemoved \in BOOLEAN
    /\ movieOpen \subseteq Chosen
    /\ Chosen \subseteq Versions \cup {Whole}
    /\ movieExplained \subseteq Versions \cup {Whole}
    /\ movieTodo \subseteq UnmatchedVersions
    /\ movieRefs \cup movieDone \subseteq MovieArrRouting
    /\ movieEntries \subseteq Radarrs
    /\ movieDeleted \in Nat

\* A version no candidate of the call names is not lost, however the candidates
\* of its movie are routed and whatever fails: its file is not deleted, its row
\* stays and its movie is not marked removed, and a Radarr instance whose folder
\* holds the file keeps its entry (_candidate_covers_full_radarr_entry).
UnselectedKept ==
    \A v \in Unselected :
        /\ movieFiles[v] # "gone"
        /\ v \in movieRows
        /\ ~movieRemoved
        /\ moviePc # "idle" /\ movieCall.layout[v].folder \in movieCall.refs
              => movieCall.layout[v].folder \in movieEntries

MovieCallAbstract == INSTANCE DeletionCall WITH
    Targets <- Versions \cup {Whole}, running <- moviePc # "idle", failing <- FALSE,
    open <- movieOpen, explained <- movieExplained, deleted <- movieDeleted

\* The call keeps the promise of DeletionCall: the count of
\* _delete_specific_candidates_impl never exceeds the rows that are gone, and
\* every row that is left has an error when it returns.
MovieCallPromise == MovieCallAbstract!Spec
=============================================================================
