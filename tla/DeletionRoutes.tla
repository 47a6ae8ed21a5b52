--------------------------- MODULE DeletionRoutes ---------------------------
(***************************************************************************)
(* The deletion of a movie's candidates, that of a series' candidates, and *)
(* the "Leaving soon" collections that are pruned before either, one of    *)
(* them in a behaviour.                                                    *)
(***************************************************************************)
EXTENDS MovieDeletion, SeriesDeletion, LeavingSoon

VARIABLE route

RoutesInit ==
    /\ route \in {"movie", "series", "soon"}
    /\ MovieInit
    /\ SeriesInit
    /\ SoonInit

RoutesNext ==
    \/ route = "movie" /\ MovieNext /\ UNCHANGED <<route, seriesVars, soonVars>>
    \/ route = "series" /\ SeriesNext /\ UNCHANGED <<route, movieVars, soonVars>>
    \/ route = "soon" /\ SoonNext /\ UNCHANGED <<route, movieVars, seriesVars>>

RoutesSpec == RoutesInit /\ [][RoutesNext]_<<route, movieVars, seriesVars, soonVars>>

\* The variables of all three keep their types.
RoutesTypeOK == MovieTypeOK /\ SeriesTypeOK /\ SoonTypeOK
=============================================================================
