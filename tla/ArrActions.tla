----------------------------- MODULE ArrActions -----------------------------
(***************************************************************************)
(* What a deletion does to the entry Radarr or Sonarr keeps of the media:  *)
(* _get_arr_action and _merge_arr_action of backend/tasks/cleanup.py.      *)
(***************************************************************************)
EXTENDS Naturals, FiniteSets

ArrDeleteAction == {"delete", "unmonitor", "remove_if_empty"}

\* `rules': the arr_action of the matched rules that still exist; a candidate
\* of a delete request has none and gets the default of the settings.
GetArrAction(rules, default) ==
    IF rules = {} THEN default
    ELSE IF "unmonitor" \in rules THEN "unmonitor" ELSE "delete"

\* The candidates of one movie or series share an action.
MergedAction(actions) ==
    IF "unmonitor" \in actions THEN "unmonitor"
    ELSE IF "delete" \in actions THEN "delete" ELSE "remove_if_empty"
=============================================================================
