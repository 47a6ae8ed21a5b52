---------------------------- MODULE DeletionCall ----------------------------
(***************************************************************************)
(* What one call of delete_specific_candidates promises its caller, the    *)
(* automatic deletion or a file operation job, whatever route it takes     *)
(* through Radarr, Sonarr, the media server and the disk: it removes some  *)
(* of the candidates it is given, counts no more than it removes, and      *)
(* gives every candidate it leaves behind an error to show.  MovieDeletion *)
(* and SeriesDeletion implement it.                                        *)
(***************************************************************************)
EXTENDS Naturals, FiniteSets

CONSTANT Targets   \* what a candidate can be for

VARIABLES
    running,    \* the call has not returned
    failing,    \* an error of the database is on its way to the caller
    open,       \* its candidates that still have a row
    explained,  \* candidates with last_delete_error set
    deleted     \* what it counts as deleted

vars == <<running, failing, open, explained, deleted>>

Init == ~running /\ ~failing /\ open = {} /\ explained = {} /\ deleted = 0

\* The caller passes candidates of one movie or series.
Call(S) ==
    /\ ~running
    /\ S # {}
    /\ running' = TRUE
    /\ open' = S
    /\ explained' = {}
    /\ deleted' = 0
    /\ UNCHANGED failing

\* A step of a route: rows go, errors are written, the count goes up.
Progress ==
    /\ running /\ ~failing
    /\ open' \in SUBSET open
    /\ explained' \in SUBSET Targets
    /\ explained \subseteq explained'
    /\ deleted' \in deleted .. (deleted + Cardinality(open \ open'))
    /\ UNCHANGED <<running, failing>>

\* An error no route catches ends the call.
Fail ==
    /\ running /\ ~failing
    /\ failing' = TRUE
    /\ UNCHANGED <<running, open, explained, deleted>>

\* Every candidate left has its error when the counts are returned.
Return ==
    /\ running
    /\ failing \/ open \subseteq explained
    /\ running' = FALSE
    /\ failing' = FALSE
    /\ open' = {}
    /\ explained' = {}
    /\ deleted' = 0

Next == (\E S \in SUBSET Targets : Call(S)) \/ Progress \/ Fail \/ Return

Spec == Init /\ [][Next]_vars
=============================================================================
