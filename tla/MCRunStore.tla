----------------------------- MODULE MCRunStore -----------------------------
(* Instance of RunStore: two runs of one session and one of a second session *)
(* of the same project.                                                       *)
EXTENDS RunStoreRefinement, TLC

CONSTANTS r1, r2, r3, s1, s2, p1

MCRuns == {r1, r2, r3}
MCSessions == {s1, s2}
MCProjects == {p1}
MCSessionOf == (r1 :> s1) @@ (r2 :> s1) @@ (r3 :> s2)
MCProjectOf == (s1 :> p1) @@ (s2 :> p1)
=============================================================================
