--------------------------- MODULE SeriesDeletion ---------------------------
(***************************************************************************)
(* One call of _delete_specific_candidates_impl for candidates of one      *)
(* series (backend/tasks/cleanup.py): the whole series, then its seasons,  *)
(* then its episodes.  Every Sonarr instance that has the series keeps     *)
(* files of its own, a file may hold two episodes, and every call to       *)
(* Sonarr, the media server and the disk may fail, also after it did its   *)
(* work.  The caller holds candidate_workflow_lock.                        *)
(*                                                                         *)
(* Left out: Seerr, webhooks, history rows, sizes, requests and            *)
(* protections (SeriesCatalogue has them) and the final Sonarr refresh.    *)
(***************************************************************************)
EXTENDS ArrActions, SeriesStructure

CONSTANTS
    Sonarrs,             \* ids of Sonarr service_configs
    NoInstance,          \* no Sonarr instance, no candidate at hand
    SeriesLayouts,       \* records: refs, files = {<<instance, episodes>>}
    SeriesSettings,      \* records: main, fallback, move, favorite
    MaxSeriesCandidates  \* bound: candidates in one call

\* The ids of files are those that episodes have, so every file holds an episode.
ASSUME SeriesAssumption ==
    /\ NoInstance \notin Sonarrs \cup Seasons \cup Episodes \cup {WholeSeries}
    /\ SeriesLayouts \subseteq
           [refs : SUBSET Sonarrs, files : SUBSET (Sonarrs \X ((SUBSET Episodes) \ {{}}))]
    /\ SeriesSettings \subseteq [main : BOOLEAN, fallback : BOOLEAN, move : BOOLEAN,
                                 favorite : BOOLEAN]

VARIABLES
    seriesCall,       \* the candidates, and what the call has read
    seriesPc,         \* where it is
    seriesGone,       \* files that were deleted
    seriesRows,       \* seasons and episodes rows left
    seriesRemoved,    \* series.removed_at is set
    seriesCandidates, \* candidates of the series left, also of other calls
    seriesExplained,  \* candidates with last_delete_error
    seriesEntries,    \* instances that keep an entry of the series
    seriesStray,      \* another series lost files
    seriesTodo,       \* candidates of this pass still to do
    seriesCurrent,    \* the one at hand
    seriesAction,     \* its arr_action
    seriesRefs,       \* instances still to try for it
    seriesDone,       \* instances that accepted
    seriesDeleted     \* deleted_count

seriesData == <<seriesGone, seriesRows, seriesRemoved, seriesCandidates, seriesExplained,
                seriesEntries, seriesStray>>
seriesWork == <<seriesTodo, seriesCurrent, seriesAction, seriesRefs, seriesDone, seriesDeleted>>
seriesVars == <<seriesCall, seriesPc, seriesData, seriesWork>>

NoSeriesCall == [chosen |-> {}, layout |-> [refs |-> {}, files |-> {}]]

SeriesChosen == seriesCall.chosen
SeriesFiles == seriesCall.layout.files
Covered == UNION {EpisodesOf(t) : t \in SeriesChosen}

FilesOf(t) == {f \in SeriesFiles : f[2] \cap EpisodesOf(t) # {}}
InstanceFiles(c) == {f \in SeriesFiles : f[1] = c}
OpenChosen == seriesCandidates \cap SeriesChosen

\* get_sonarr, and where it has no client the main one, with the same id.
ClientFor(c) == IF c \in seriesCall.clients THEN c ELSE seriesCall.default

ServerUsable == seriesCall.settings.main /\ seriesCall.settings.fallback

-----------------------------------------------------------------------------
SeriesInit ==
    /\ seriesCall = NoSeriesCall
    /\ seriesPc = "idle"
    /\ seriesGone = {}
    /\ seriesRows = Seasons \cup Episodes
    /\ seriesRemoved = FALSE
    /\ seriesCandidates = {}
    /\ seriesExplained = {}
    /\ seriesEntries = {}
    /\ seriesStray = FALSE
    /\ seriesTodo = {}
    /\ seriesCurrent = NoInstance
    /\ seriesAction = "delete"
    /\ seriesRefs = {}
    /\ seriesDone = {}
    /\ seriesDeleted = 0

SeriesBegin ==
    /\ seriesPc = "idle"
    /\ \E layout \in SeriesLayouts, chosen \in SUBSET Scopes, others \in {{}, Scopes},
          clients \in SUBSET Sonarrs, settings \in SeriesSettings :
       \E default \in IF clients = {} THEN {NoInstance} ELSE clients :
           /\ Cardinality(chosen) \in 1..MaxSeriesCandidates
           /\ seriesCall' = [layout |-> layout, chosen |-> chosen, clients |-> clients,
                             default |-> default, settings |-> settings]
           /\ seriesCandidates' = chosen \cup others
           /\ seriesEntries' = layout.refs
           /\ seriesPc' = IF settings.favorite \/ (clients = {} /\ ~settings.main)
                          THEN "tally" ELSE "series"
    /\ UNCHANGED <<seriesGone, seriesRows, seriesRemoved, seriesExplained, seriesStray,
                   seriesWork>>

\* A candidate comes up; its matched rules and the default give its action.
TakeUp(t, refs) ==
    /\ seriesCurrent' = t
    /\ seriesRefs' = refs
    /\ seriesDone' = {}
    /\ \E rules \in SUBSET {"delete", "unmonitor"}, default \in {"unmonitor", "remove_if_empty"} :
           seriesAction' = GetArrAction(rules, default)

\* The variables of a loop end with its round.
PutDown ==
    /\ seriesCurrent' = NoInstance
    /\ seriesAction' = "delete"
    /\ seriesRefs' = {}
    /\ seriesDone' = {}

-----------------------------------------------------------------------------
(* _delete_series_candidates: every instance that has the series           *)

WholeSeriesTakenUp ==
    /\ seriesPc = "series"
    /\ IF WholeSeries \in SeriesChosen
       THEN /\ TakeUp(WholeSeries, seriesCall.layout.refs \cap seriesCall.clients)
            /\ seriesPc' = "batches"
       ELSE /\ seriesPc' = "nextPass"
            /\ UNCHANGED <<seriesCurrent, seriesRefs, seriesDone, seriesAction>>
    /\ UNCHANGED <<seriesCall, seriesData, seriesTodo, seriesDeleted>>

\* delete_series, with its files unless they have been moved away.
SonarrDeletesSeries(c) ==
    /\ seriesAction # "unmonitor"
    /\ seriesGone' = IF seriesCall.settings.move THEN seriesGone
                     ELSE seriesGone \cup InstanceFiles(c)
    /\ seriesEntries' = seriesEntries \ {c}

SonarrAcceptsSeries(c) ==
    /\ seriesPc = "batches"
    /\ c \in seriesRefs
    /\ \/ SonarrDeletesSeries(c)
       \/ seriesAction = "unmonitor" /\ UNCHANGED <<seriesGone, seriesEntries>>
    /\ seriesRefs' = seriesRefs \ {c}
    /\ seriesDone' = seriesDone \cup {c}
    /\ UNCHANGED <<seriesCall, seriesPc, seriesRows, seriesRemoved, seriesCandidates,
                   seriesExplained, seriesStray, seriesTodo, seriesCurrent, seriesAction,
                   seriesDeleted>>

SonarrRaisesOnSeries(c) ==
    /\ seriesPc = "batches"
    /\ c \in seriesRefs
    /\ SonarrDeletesSeries(c) \/ UNCHANGED <<seriesGone, seriesEntries>>
    /\ seriesRefs' = seriesRefs \ {c}
    /\ seriesExplained' = seriesExplained \cup {WholeSeries}
    /\ UNCHANGED <<seriesCall, seriesPc, seriesRows, seriesRemoved, seriesCandidates,
                   seriesStray, seriesTodo, seriesCurrent, seriesAction, seriesDone,
                   seriesDeleted>>

SeriesBatchesDone ==
    /\ seriesPc = "batches"
    /\ seriesRefs = {}
    /\ seriesPc' = IF seriesDone # {} THEN "seriesCommit"
                   ELSE IF ServerUsable THEN "seriesServer" ELSE "nextPass"
    /\ seriesExplained' = IF seriesDone = {} /\ ~seriesCall.settings.fallback
                          THEN seriesExplained \cup {WholeSeries} ELSE seriesExplained
    /\ IF seriesPc' = "nextPass" THEN PutDown
       ELSE UNCHANGED <<seriesCurrent, seriesAction, seriesRefs, seriesDone>>
    /\ UNCHANGED <<seriesCall, seriesGone, seriesRows, seriesRemoved, seriesCandidates,
                   seriesEntries, seriesStray, seriesTodo, seriesDeleted>>

\* Unmonitored: one folder goes from the disk, and what the server lists.
UnmonitoredFiles ==
    \E c \in seriesCall.layout.refs \cup {NoInstance}, S \in SUBSET SeriesFiles :
        /\ ServerUsable \/ S = {}
        /\ seriesGone' = seriesGone \cup InstanceFiles(c) \cup S

SeriesIsRemoved ==
    /\ seriesRemoved' = TRUE
    /\ seriesCandidates' = seriesCandidates \ {WholeSeries}
    /\ seriesDeleted' = seriesDeleted + 1

SeriesCommit ==
    /\ seriesPc = "seriesCommit"
    /\ IF seriesAction = "unmonitor" THEN UnmonitoredFiles ELSE UNCHANGED seriesGone
    /\ \/ SeriesIsRemoved
       \/ UNCHANGED <<seriesRemoved, seriesCandidates, seriesDeleted>>  \* it is rolled back
    /\ seriesPc' = "nextPass"
    /\ PutDown
    /\ UNCHANGED <<seriesCall, seriesRows, seriesExplained, seriesEntries, seriesStray,
                   seriesTodo>>

\* _delete_series_via_media_server, which swallows its errors.
SeriesViaMediaServer ==
    /\ seriesPc = "seriesServer"
    /\ \/ /\ \E S \in SUBSET SeriesFiles : seriesGone' = seriesGone \cup S
          /\ SeriesIsRemoved \/ UNCHANGED <<seriesRemoved, seriesCandidates, seriesDeleted>>
       \/ UNCHANGED <<seriesGone, seriesRemoved, seriesCandidates, seriesDeleted>>
    /\ seriesPc' = "nextPass"
    /\ PutDown
    /\ UNCHANGED <<seriesCall, seriesRows, seriesExplained, seriesEntries, seriesStray,
                   seriesTodo>>

-----------------------------------------------------------------------------
(* _delete_season_candidates, then _delete_episode_candidates              *)

\* What the query of the pass joins: rows that exist, of a series not removed.
PassStarts ==
    /\ seriesPc \in {"nextPass", "passDone"}
    /\ LET scope == IF seriesPc = "nextPass" THEN Seasons ELSE Episodes
       IN  seriesTodo' = IF seriesRemoved THEN {} ELSE OpenChosen \cap scope \cap seriesRows
    /\ seriesPc' = IF seriesPc = "nextPass" THEN "seasons" ELSE "episodes"
    /\ UNCHANGED <<seriesCall, seriesData, seriesCurrent, seriesAction, seriesRefs, seriesDone,
                   seriesDeleted>>

ScopeTakenUp(t) ==
    /\ seriesPc \in {"seasons", "episodes"}
    /\ seriesCurrent = NoInstance
    /\ t \in seriesTodo
    /\ TakeUp(t, seriesCall.layout.refs)
    /\ UNCHANGED <<seriesCall, seriesPc, seriesData, seriesTodo, seriesDeleted>>

PassEnds ==
    /\ seriesPc \in {"seasons", "episodes"}
    /\ seriesTodo = {}
    /\ seriesPc' = IF seriesPc = "seasons" THEN "passDone" ELSE "tally"
    /\ UNCHANGED <<seriesCall, seriesData, seriesWork>>

AtHand(t) ==
    /\ seriesPc \in {"seasons", "episodes"}
    /\ t \in Seasons \cup Episodes
    /\ t = seriesCurrent

SonarrFiles(c, t) == InstanceFiles(c) \cap FilesOf(t)

\* No client, an error, or no file there; an error may come after files went.
InstanceSkipped(c, t) ==
    /\ AtHand(t)
    /\ c \in seriesRefs /\ seriesDone = {}
    /\ \/ UNCHANGED seriesGone
       \/ /\ ClientFor(c) = c
          /\ \E S \in SUBSET SonarrFiles(c, t) : seriesGone' = seriesGone \cup S
    /\ seriesRefs' = seriesRefs \ {c}
    /\ UNCHANGED <<seriesCall, seriesPc, seriesRows, seriesRemoved, seriesCandidates,
                   seriesExplained, seriesEntries, seriesStray, seriesTodo, seriesCurrent,
                   seriesAction, seriesDone, seriesDeleted>>

\* The first instance that deletes ends the loop.  Sonarr lists an episode
\* without a file with the file id 0, which a season takes for a file.
InstanceDeletes(c, t) ==
    /\ AtHand(t)
    /\ c \in seriesRefs /\ seriesDone = {}
    /\ ClientFor(c) = c
    /\ t \in Seasons \/ SonarrFiles(c, t) \ seriesGone # {}
    /\ seriesGone' = seriesGone \cup SonarrFiles(c, t)
    /\ seriesDone' = {c}
    /\ UNCHANGED <<seriesCall, seriesPc, seriesRows, seriesRemoved, seriesCandidates,
                   seriesExplained, seriesEntries, seriesStray, seriesTodo, seriesCurrent,
                   seriesAction, seriesRefs, seriesDeleted>>

\* The main instance knows the id of a missing one as another series.
OtherSeriesDeletes(c, t) ==
    /\ AtHand(t)
    /\ c \in seriesRefs /\ seriesDone = {}
    /\ ClientFor(c) \notin {c, NoInstance}
    /\ seriesStray' = TRUE
    /\ seriesDone' = {c}
    /\ UNCHANGED <<seriesCall, seriesPc, seriesGone, seriesRows, seriesRemoved,
                   seriesCandidates, seriesExplained, seriesEntries, seriesTodo, seriesCurrent,
                   seriesAction, seriesRefs, seriesDeleted>>

-----------------------------------------------------------------------------
(* What follows for the candidate at hand                                  *)

\* delete_item on the media server: some of the files of the scope.
ServerDeletes(t) == \E S \in SUBSET FilesOf(t) : seriesGone' = seriesGone \cup S

\* An entry without any file left goes; a season's unless it was unmonitored,
\* an episode's only where the action says so.
RemovesEmpty(t) ==
    IF t \in Seasons THEN seriesAction # "unmonitor" ELSE seriesAction = "remove_if_empty"

\* Mutant: a season without files is enough.
NoFilesLeft_Scope(c) == SonarrFiles(c, seriesCurrent) \subseteq seriesGone

NoFilesLeft(c) == InstanceFiles(c) \subseteq seriesGone

ScopeDeleted(t) ==
    /\ AtHand(t)
    /\ seriesDone # {}
    /\ IF seriesCall.settings.main /\ (t \in Seasons => seriesCall.settings.fallback)
       THEN ServerDeletes(t) ELSE UNCHANGED seriesGone
    /\ \/ UNCHANGED seriesEntries
       \/ \E c \in seriesDone : /\ ClientFor(c) = c
                                /\ RemovesEmpty(t)
                                /\ NoFilesLeft(c)
                                /\ seriesEntries' = seriesEntries \ {c}
    /\ seriesPc' = IF t \in Seasons THEN "seasonCommit" ELSE "episodeCommit"
    /\ UNCHANGED <<seriesCall, seriesRows, seriesRemoved, seriesCandidates, seriesExplained,
                   seriesStray, seriesWork>>

ServerDeletesScope(t) ==
    /\ AtHand(t)
    /\ seriesRefs = {} /\ seriesDone = {}
    /\ ServerUsable
    /\ ServerDeletes(t)
    /\ seriesPc' = IF t \in Seasons THEN "seasonCommit" ELSE "episodeCommit"
    /\ UNCHANGED <<seriesCall, seriesRows, seriesRemoved, seriesCandidates, seriesExplained,
                   seriesEntries, seriesStray, seriesWork>>

ScopeFails(t) ==
    /\ AtHand(t)
    /\ seriesRefs = {} /\ seriesDone = {}
    /\ UNCHANGED seriesGone \/ (ServerUsable /\ ServerDeletes(t))
    /\ seriesExplained' = seriesExplained \cup {t}
    /\ seriesTodo' = seriesTodo \ {t}
    /\ PutDown
    /\ UNCHANGED <<seriesCall, seriesPc, seriesRows, seriesRemoved, seriesCandidates,
                   seriesEntries, seriesStray, seriesDeleted>>

\* Mutant: only the candidate at hand goes with a season.
RowsOfScope_Rows(t) == <<Within(t), {t}>>

\* Rows and candidates that go with a candidate: a season takes its episodes,
\* the last episode its season.
RowsOfScope(t) ==
    LET season == IF t \in Seasons THEN t ELSE EpisodeSeason[t]
        whole == t \in Seasons \/ seriesRows \cap EpisodesOf(season) \subseteq {t}
        all == Within(season)
    IN  IF whole THEN <<all, all>> ELSE <<{t}, {t}>>

\* Mutant: the pass goes on with the candidates it had.
ScopeCommit_TodoStays ==
    /\ seriesPc \in {"seasonCommit", "episodeCommit"}
    /\ LET gone == RowsOfScope(seriesCurrent)
       IN  /\ seriesRows' = seriesRows \ gone[1]
           /\ seriesCandidates' = seriesCandidates \ gone[2]
    /\ seriesRemoved' = (seriesRows' \cap Seasons = {})
    /\ seriesDeleted' = seriesDeleted + 1
    /\ PutDown
    /\ seriesPc' = IF seriesPc = "seasonCommit" THEN "seasons" ELSE "episodes"
    /\ UNCHANGED <<seriesCall, seriesGone, seriesExplained, seriesEntries, seriesStray, seriesTodo>>

ScopeCommit ==
    /\ seriesPc \in {"seasonCommit", "episodeCommit"}
    /\ LET gone == RowsOfScope(seriesCurrent)
       IN  /\ seriesRows' = seriesRows \ gone[1]
           /\ seriesCandidates' = seriesCandidates \ gone[2]
    /\ seriesRemoved' = (seriesRows' \cap Seasons = {})
    /\ seriesDeleted' = seriesDeleted + 1
    /\ seriesTodo' = seriesTodo \ {seriesCurrent}
    /\ PutDown
    /\ seriesPc' = IF seriesPc = "seasonCommit" THEN "seasons" ELSE "episodes"
    /\ UNCHANGED <<seriesCall, seriesGone, seriesExplained, seriesEntries, seriesStray>>

\* Nothing catches an error of this transaction: the call raises.
ScopeCommitRaises ==
    /\ seriesPc \in {"seasonCommit", "episodeCommit"}
    /\ seriesPc' = "raised"
    /\ UNCHANGED <<seriesCall, seriesData, seriesWork>>

\* Mutant: candidates are marked only when nothing was deleted.
SeriesTally_AllFailed ==
    /\ seriesPc = "tally"
    /\ seriesExplained' = IF seriesDeleted = 0
                          THEN seriesExplained \cup OpenChosen ELSE seriesExplained
    /\ seriesPc' = "done"
    /\ UNCHANGED <<seriesCall, seriesGone, seriesRows, seriesRemoved, seriesCandidates,
                   seriesEntries, seriesStray, seriesWork>>

SeriesTally ==
    /\ seriesPc = "tally"
    /\ seriesExplained' = IF Cardinality(SeriesChosen) > seriesDeleted
                          THEN seriesExplained \cup OpenChosen ELSE seriesExplained
    /\ seriesPc' = "done"
    /\ UNCHANGED <<seriesCall, seriesGone, seriesRows, seriesRemoved, seriesCandidates,
                   seriesEntries, seriesStray, seriesWork>>

\* The caller has its counts or an exception; the next call has another series.
SeriesReturn ==
    /\ seriesPc \in {"done", "raised"}
    /\ seriesCall' = NoSeriesCall
    /\ seriesPc' = "idle"
    /\ seriesGone' = {}
    /\ seriesRows' = Seasons \cup Episodes
    /\ seriesRemoved' = FALSE
    /\ seriesCandidates' = {}
    /\ seriesExplained' = {}
    /\ seriesEntries' = {}
    /\ seriesStray' = FALSE
    /\ seriesTodo' = {}
    /\ PutDown
    /\ seriesDeleted' = 0

SeriesProgress ==
    \/ WholeSeriesTakenUp
    \/ \E c \in Sonarrs : SonarrAcceptsSeries(c) \/ SonarrRaisesOnSeries(c)
    \/ SeriesBatchesDone
    \/ SeriesCommit
    \/ SeriesViaMediaServer
    \/ PassStarts
    \/ PassEnds
    \/ \E t \in Seasons \cup Episodes :
           \/ ScopeTakenUp(t)
           \/ \E c \in Sonarrs : \/ InstanceSkipped(c, t)
                                 \/ InstanceDeletes(c, t)
                                 \/ OtherSeriesDeletes(c, t)
           \/ ScopeDeleted(t)
           \/ ServerDeletesScope(t)
           \/ ScopeFails(t)
    \/ ScopeCommit
    \/ ScopeCommitRaises
    \/ SeriesTally
    \/ SeriesReturn

SeriesNext == SeriesBegin \/ SeriesProgress

SeriesSpec == SeriesInit /\ [][SeriesNext]_seriesVars

-----------------------------------------------------------------------------
(* Properties                                                              *)

SeriesTypeOK ==
    /\ seriesPc \in {"idle", "series", "batches", "seriesCommit", "seriesServer", "nextPass",
                     "seasons", "passDone", "episodes", "seasonCommit", "episodeCommit",
                     "tally", "done", "raised"}
    /\ SeriesChosen \subseteq Scopes
    /\ seriesGone \subseteq SeriesFiles
    /\ seriesRows \subseteq Seasons \cup Episodes
    /\ seriesRemoved \in BOOLEAN
    /\ seriesCandidates \subseteq Scopes
    /\ seriesExplained \subseteq SeriesChosen
    /\ seriesEntries \subseteq Sonarrs
    /\ seriesStray \in BOOLEAN
    /\ seriesTodo \subseteq OpenChosen \ {WholeSeries}
    /\ seriesCurrent \in Scopes \cup {NoInstance}
    /\ seriesAction \in ArrDeleteAction
    /\ seriesRefs \cup seriesDone \subseteq Sonarrs
    /\ seriesDeleted \in Nat

\* What no candidate of the call covers is not lost, whichever Sonarr instance
\* or server does the work and whatever fails: a file goes only if it holds a
\* covered episode, the row of an uncovered episode and of its season stays,
\* the series is not marked removed, and an instance that still has a file of
\* it keeps its entry (the loops of _delete_season_candidates and
\* _delete_episode_candidates, and their check for an empty series).
UncoveredKept ==
    /\ \A f \in seriesGone : f[2] \cap Covered # {}
    /\ \A e \in Episodes \ Covered : /\ {e, EpisodeSeason[e]} \subseteq seriesRows
                                     /\ ~seriesRemoved
    /\ WholeSeries \notin SeriesChosen =>
           \A f \in SeriesFiles \ seriesGone :
               f[1] \in seriesCall.layout.refs => f[1] \in seriesEntries

\* A candidate whose episode or season row is gone goes with it, also one of
\* another call: ReclaimCandidate.episode_id is SET NULL with its row, which
\* would leave an episode's candidate standing for the whole season.
CandidatesHaveRows == seriesCandidates \subseteq seriesRows \cup {WholeSeries}

SeriesCallAbstract == INSTANCE DeletionCall WITH
    Targets <- Scopes, running <- seriesPc # "idle", open <- OpenChosen,
    explained <- seriesExplained, deleted <- seriesDeleted, failing <- seriesPc = "raised"

\* The three passes together keep the promise of DeletionCall.
SeriesCallPromise == SeriesCallAbstract!Spec
=============================================================================
