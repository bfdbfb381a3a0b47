--------------------------- MODULE MCRunExecution ---------------------------
(* Instance of RunExecution: one run of one session. *)
EXTENDS RunExecution, TLC

CONSTANTS r1, s1, p1

MCRuns == {r1}
MCSessions == {s1}
MCProjects == {p1}
MCSessionOf == r1 :> s1
MCProjectOf == s1 :> p1
=============================================================================
