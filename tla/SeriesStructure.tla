--------------------------- MODULE SeriesStructure ---------------------------
(***************************************************************************)
(* A series, its seasons and its episodes, and the scope a row of          *)
(* reclaim_candidates, protected_media or a request has: both season_id    *)
(* and episode_id NULL for the series, episode_id NULL for a season.       *)
(***************************************************************************)
EXTENDS Naturals, FiniteSets

CONSTANTS
    Seasons, Episodes,   \* what the media servers may list of the series
    EpisodeSeason,       \* the season of each episode
    WholeSeries          \* the scope of the whole series

ASSUME StructureAssumption ==
    /\ IsFiniteSet(Seasons) /\ IsFiniteSet(Episodes)
    /\ Seasons \cap Episodes = {}
    /\ WholeSeries \notin Seasons \cup Episodes
    /\ EpisodeSeason \in [Episodes -> Seasons]

Scopes == {WholeSeries} \cup Seasons \cup Episodes

\* The episodes of a scope.
EpisodesOf(t) ==
    IF t = WholeSeries THEN Episodes
    ELSE IF t \in Seasons THEN {e \in Episodes : EpisodeSeason[e] = t} ELSE {t}

\* The rows whose season_id, or episode_id, names t.
Within(t) == {t} \cup EpisodesOf(t)

\* A scope and the scopes it lies in.
Around(t) ==
    {WholeSeries, t} \cup IF t \in Episodes THEN {EpisodeSeason[t]} ELSE {}
=============================================================================
