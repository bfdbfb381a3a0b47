---------------------------- MODULE MCRunAdmission ----------------------------
(* Instance of RunAdmission: three requests under two keys against a plan of     *)
(* two runs, over a conversation of two turns and a second one, new or a branch. *)
EXTENDS RunAdmission

CONSTANTS r1, r2, r3, s1, s2, p1, k1, k2

MCRuns == {r1, r2, r3}
MCSessions == {s1, s2}
MCKeys == {k1, k2}
MCProjects == {p1}
MCSessionOf == (r1 :> s1) @@ (r2 :> s1) @@ (r3 :> s2)
MCProjectOf == (s1 :> p1) @@ (s2 :> p1)

RequestSymmetry == Permutations(Requests)

\* Attempts take their course here: leases that lapse and runs that do not complete
\* are what the runs of Conversations and of RunExecution are about.  No request is
\* between two calls meanwhile: an attempt touches nothing that those calls read
\* before the transaction, and a queued run makes the conversation as busy.  Only
\* the first conversation is archived, in a first month without a fault; only a new
\* conversation has the second key; and the month turns on a request that it finds.
AttemptsComplete ==
    /\ \A r \in Runs : status[r] \notin {"failed", "cancelled"} /\ (lease[r].id # 0 => lease[r].live)
                       /\ (status[r] = "completed" => final[r] # 0)
    /\ (\E r \in Runs : lease[r].live) =>
           \A q \in Requests : req[q].pc \in {"new", "answered", "dead"}
    /\ ~archived[s2] /\ (archived[s1] => period = 1 /\ MayFail)
    /\ period > 1 => strayed \/ \E q \in Requests : req[q].month = 1
    /\ \A q \in Requests : AskOf(q) # None /\ AskOf(q).key = k2 => AskOf(q).kind = "allocate"
=============================================================================
