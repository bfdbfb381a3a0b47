--------------------------- MODULE MCConversations ---------------------------
(* Instance of Conversations: one project, a conversation of two turns or a   *)
(* retried one, and a second one that is new or a branch of the first.        *)
EXTENDS Conversations

CONSTANTS r1, r2, r3, s1, s2, p1

MCRuns == {r1, r2, r3}
MCSessions == {s1, s2}
MCProjects == {p1}
MCSessionOf == (r1 :> s1) @@ (r2 :> s1) @@ (r3 :> s2)
MCProjectOf == (s1 :> p1) @@ (s2 :> p1)

\* The runs of the first conversation are told apart by what happens to them only.
TurnSymmetry == Permutations({r1, r2})

\* The conversation that a turn and its retry have to themselves.
OneRuns == {r1, r2}
OneSession == {s1}
OneSessionOf == (r1 :> s1) @@ (r2 :> s1)
OneProjectOf == (s1 :> p1)
=============================================================================
