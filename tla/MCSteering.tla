----------------------------- MODULE MCSteering -----------------------------
(* Instance of Steering: one run that two or three leases take in turn. *)
EXTENDS Steering, TLC

CONSTANTS r1, s1, p1

MCRuns == {r1}
MCSessions == {s1}
MCProjects == {p1}
MCSessionOf == r1 :> s1
MCProjectOf == s1 :> p1
=============================================================================
