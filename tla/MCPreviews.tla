----------------------------- MODULE MCPreviews -----------------------------
(***************************************************************************)
(* One build session with two turns, so that previews of successive turns  *)
(* share its container.                                                    *)
(***************************************************************************)
EXTENDS Previews, TLC

CONSTANTS r1, r2, s1, p1

MCRuns == {r1, r2}
MCSessions == {s1}
MCProjects == {p1}
MCSessionOf == (r1 :> s1) @@ (r2 :> s1)
MCProjectOf == s1 :> p1

\* Record objects that nothing refers to any more do not tell two states apart.
Referred(k) ==
    \/ byId[rec[k].row] = k \/ rec[k].begin \in {"attach", "relay"}
    \/ \E s \in Sessions : \E i \in DOMAIN retiring[s] : retiring[s][i].rec = k
    \/ \E c \in Requests : call[c].rec = k

\* Nor does what no step asks about again: how a run ended, leases that are gone,
\* attempts that are over, and for which of its reasons a container was left.
StoreView ==
    <<status, [s \in Sessions |-> session[s].run], Len(grants),
      {<<r, question[r], answer[r], parked[r], asked[r], lease[r].live>> :
          r \in {q \in Runs : Unfinished(q)}}>>
AttemptView ==
    {<<id, grants[id].run, attempt[id]>> :
        id \in {j \in DOMAIN grants : \/ attempt[j] = "parked"
                                      \/ attempt[j] # "gone" /\ Unfinished(grants[j].run)}}
View ==
    <<StoreView, AttemptView, container, row,
      {<<k, rec[k]>> : k \in {j \in DOMAIN rec : Referred(j)}}, Len(rec), byId,
      call, writes, expired, retiring, service, asks, crashes, overlapped,
      [s \in Sessions |-> left[s] = "none"]>>

\* Calls are alike, and so are the two turns before the first of them is admitted.
CallsAndTurns == Permutations(Requests) \cup Permutations(MCRuns)
=============================================================================
