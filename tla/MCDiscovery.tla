---------------------------- MODULE MCDiscovery ----------------------------
(* Model values and small sequences for the run of Discovery. *)
EXTENDS Discovery, TLC

CONSTANTS e1, e2, e3, s1, s2, E1, bad

MCFileVersions == {<<>>, <<e1>>, <<e2, e1, e2>>, <<e1, e2, e3>>, <<e1, bad>>}
MCAnswers == {<<>>, <<e1>>, <<e2, bad, e1>>}
MCRemoteEndpoints == {<<e1>>, <<e2>>, <<e1, e3>>}
MCSeeds == <<s1, s2>>

MCSources == <<"static", "dns-srv">>
MCTtl == "static" :> 0 @@ "dns-srv" :> 2
MCSpellings == e1 :> e1 @@ E1 :> e1 @@ e2 :> e2 @@ e3 :> e3 @@ bad :> bad
MCViews == {<<>>, <<e2, e3>>, <<E1, e1>>, <<bad, e2>>}
=============================================================================
