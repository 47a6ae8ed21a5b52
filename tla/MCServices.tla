----------------------------- MODULE MCServices ------------------------------
(***************************************************************************)
(* The names and the small worlds of the checks of Services.               *)
(***************************************************************************)
EXTENDS Services, TLC

CONSTANTS
    s1, s2, e1, e2, v1, v2, p, j, i1, i2, a, u1, u2, rk, rs, rm, rc, c1, c2,
    k1, k2, n1, n2, t1, o1, o2, x1,
    g1, g2, f1, f2, f3, w1

-----------------------------------------------------------------------------
MCEpisodeSeason == (e1 :> s1) @@ (e2 :> s1)
MCServerItem == (v1 :> 1) @@ (v2 :> 1)
MCTitleOf == (n1 :> t1) @@ (n2 :> t1)
MCAccountServer == (f1 :> g1) @@ (f2 :> g2) @@ (f3 :> g2)
MCStages == (o1 :> 3) @@ (o2 :> 1)

Cond(f, wanted) == [field |-> f, wanted |-> wanted]
AllOf(conditions) == [op |-> "and", parts |-> conditions]
AnyOf(conditions) == [op |-> "or", parts |-> conditions]
Root(op, groups) == [op |-> op, groups |-> groups]

MCSources == [f \in Fields |-> IF f = "rating" THEN "database" ELSE f]
MCOutcome == [r \in Rules |-> IF r = rc THEN "candidate" ELSE "protect"]
MCRoot ==
    (rk :> Root("or", {AllOf({Cond("sonarr", TRUE), Cond("rating", TRUE)}),
                       AllOf({Cond("seerr", TRUE), Cond("rating", TRUE)})}))
    @@ (rs :> Root("and", {AnyOf({Cond("playback", TRUE), Cond("rating", FALSE)})}))
    @@ (rm :> Root("and", {AllOf({Cond("sonarr", TRUE)}), AllOf({Cond("playback", TRUE)})}))
    @@ (rc :> Root("or", {AllOf({Cond("playback", FALSE)}),
                          AllOf({Cond("rating", TRUE), Cond("sonarr", FALSE)})}))

Profile(rating, sonarr, playback, seerr) ==
    [f \in Fields |-> CASE f = "rating" -> rating [] f = "sonarr" -> sonarr
                        [] f = "playback" -> playback [] OTHER -> seerr]
AllTold == Profile(TRUE, TRUE, TRUE, FALSE)
SonarrDown == Profile(TRUE, Unavailable, FALSE, FALSE)
PlaybackDown == Profile(TRUE, FALSE, Unavailable, TRUE)
Unrated == Profile(FALSE, Unavailable, Unavailable, FALSE)
MCWorlds ==
    {(i1 :> w[1]) @@ (i2 :> w[2]) : w \in {<<AllTold, PlaybackDown>>, <<SonarrDown, AllTold>>, <<Unrated, SonarrDown>>}}
==============================================================================
