-------------------------- MODULE MCDeletionRoutes --------------------------
(***************************************************************************)
(* A movie, a series and two media servers small enough to check the       *)
(* deletion routes on.                                                     *)
(***************************************************************************)
EXTENDS DeletionRoutes, TLC

CONSTANTS v1, v2, v3, r1, r2, s1, s2, e1, e2, e3, n1, n2, p, j, i1

-----------------------------------------------------------------------------
At(folder, item, main) == [folder |-> folder, item |-> item, main |-> main]

MCLayouts ==
    {(v1 :> At(r1, 1, TRUE)) @@ (v2 :> At(r2, 1, TRUE)) @@ (v3 :> At(Outside, 2, TRUE)),
     (v1 :> At(r1, 1, TRUE)) @@ (v2 :> At(r1, 1, TRUE)) @@ (v3 :> At(r2, 2, FALSE))}

MCMovieSettings ==
    {[main |-> "none", fallback |-> TRUE, move |-> FALSE, favorite |-> FALSE],
     [main |-> "plex", fallback |-> TRUE, move |-> FALSE, favorite |-> FALSE],
     [main |-> "jellyfin", fallback |-> TRUE, move |-> FALSE, favorite |-> FALSE],
     [main |-> "plex", fallback |-> FALSE, move |-> FALSE, favorite |-> FALSE],
     [main |-> "plex", fallback |-> TRUE, move |-> TRUE, favorite |-> FALSE],
     [main |-> "plex", fallback |-> TRUE, move |-> FALSE, favorite |-> TRUE]}

MCEpisodeSeason == (e1 :> s1) @@ (e2 :> s1) @@ (e3 :> s2)

MCSeriesLayouts ==
    {[refs |-> {n1, n2}, files |-> {<<n1, {e1}>>, <<n1, {e2}>>, <<n2, {e2}>>, <<n2, {e3}>>}],
     [refs |-> {n1}, files |-> {<<n1, {e1, e2}>>, <<n1, {e3}>>, <<n2, {e3}>>}]}

Choices(main, fallback, move, favorite) ==
    [main |-> main, fallback |-> fallback, move |-> move, favorite |-> favorite]

MCSeriesSettings ==
    {Choices(FALSE, TRUE, FALSE, FALSE), Choices(TRUE, TRUE, FALSE, FALSE),
     Choices(TRUE, FALSE, FALSE, FALSE), Choices(TRUE, TRUE, TRUE, FALSE),
     Choices(TRUE, TRUE, FALSE, TRUE)}
=============================================================================
