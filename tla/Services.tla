------------------------------- MODULE Services -------------------------------
(***************************************************************************)
(* The rows of a series, the moves, the service settings, the rules of a   *)
(* scan, the snapshots they read, and the sessions of operations: one of   *)
(* them in a behaviour.                                                    *)
(***************************************************************************)
EXTENDS SeriesCatalogue, CandidateMove, ServiceSettings, RuleScan,
        SeerrSnapshot, WatchSnapshot, PlaybackHistory, OperationSessions,
        FavoritesSnapshot

VARIABLE part

ServicesInit ==
    /\ part \in {"catalogue", "move", "settings", "rules", "requests", "watched", "played", "operations",
                "favorites"}
    /\ CatInit /\ MoveInit /\ SvcInit /\ RuleInit
    /\ SeerrInit /\ WatchInit /\ PbInit /\ OpsInit /\ FavInit

ServicesNext ==
    \/ /\ part = "catalogue" /\ CatNext
       /\ UNCHANGED <<part, moveVars, svcVars, ruleVars, seerrVars, watchVars, pbVars, opsVars, favVars>>
    \/ /\ part = "move" /\ MoveNext
       /\ UNCHANGED <<part, catVars, svcVars, ruleVars, seerrVars, watchVars, pbVars, opsVars, favVars>>
    \/ /\ part = "settings" /\ SvcNext
       /\ UNCHANGED <<part, catVars, moveVars, ruleVars, seerrVars, watchVars, pbVars, opsVars, favVars>>
    \/ /\ part = "rules" /\ RuleNext
       /\ UNCHANGED <<part, catVars, moveVars, svcVars, seerrVars, watchVars, pbVars, opsVars, favVars>>
    \/ /\ part = "requests" /\ SeerrNext
       /\ UNCHANGED <<part, catVars, moveVars, svcVars, ruleVars, watchVars, pbVars, opsVars, favVars>>
    \/ /\ part = "watched" /\ WatchNext
       /\ UNCHANGED <<part, catVars, moveVars, svcVars, ruleVars, seerrVars, pbVars, opsVars, favVars>>
    \/ /\ part = "played" /\ PbNext
       /\ UNCHANGED <<part, catVars, moveVars, svcVars, ruleVars, seerrVars, watchVars, opsVars, favVars>>
    \/ /\ part = "operations" /\ OpsNext
       /\ UNCHANGED <<part, catVars, moveVars, svcVars, ruleVars, seerrVars, watchVars, pbVars, favVars>>
    \/ /\ part = "favorites" /\ FavNext
       /\ UNCHANGED <<part, catVars, moveVars, svcVars, ruleVars, seerrVars, watchVars, pbVars, opsVars>>

ServicesVars ==
    <<part, catVars, moveVars, svcVars, ruleVars, seerrVars, watchVars, pbVars, opsVars, favVars>>
ServicesSpec == ServicesInit /\ [][ServicesNext]_ServicesVars

\* The variables of every part keep their types.
ServicesTypeOK ==
    /\ CatTypeOK /\ MoveTypeOK /\ SvcTypeOK /\ RuleTypeOK
    /\ SeerrTypeOK /\ WatchTypeOK /\ PbTypeOK /\ OpsTypeOK /\ FavTypeOK
==============================================================================
