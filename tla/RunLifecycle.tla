---------------------------- MODULE RunLifecycle ----------------------------
(***************************************************************************)
(* What the store promises of a run, whoever calls it and how often: it is *)
(* admitted once, one holder at a time may execute it, no two runs of a    *)
(* project are active together, and it ends once and for all, nobody       *)
(* holding it any more.  RunStore implements this: RunStoreRefinement has  *)
(* the mapping, RunStoreRefinementProofs the proof.                        *)
(***************************************************************************)
EXTENDS Naturals

CONSTANTS
    Run,           \* runs
    Project        \* the project of each run

VARIABLES
    phase,         \* absent, queued, active or ended
    holder,        \* the ticket of the run's holder; 0 when nobody holds it
    tickets        \* tickets given out so far

lifecycleVars == <<phase, holder, tickets>>

LifecycleInit ==
    /\ phase = [r \in Run |-> "absent"]
    /\ holder = [r \in Run |-> 0]
    /\ tickets = 0

Admit(r) ==
    /\ phase[r] = "absent"
    /\ phase' = [phase EXCEPT ![r] = "queued"]
    /\ UNCHANGED <<holder, tickets>>

\* Nobody holds the run and no other run of its project is active.
Take(r) ==
    /\ phase[r] \in {"queued", "active"}
    /\ holder[r] = 0
    /\ \A q \in Run \ {r} : Project[q] = Project[r] => phase[q] # "active"
    /\ phase' = [phase EXCEPT ![r] = "active"]
    /\ tickets' = tickets + 1
    /\ holder' = [holder EXCEPT ![r] = tickets + 1]

\* The holder lets go, or its time is up.
Drop(r) ==
    /\ phase[r] = "active"
    /\ holder[r] # 0
    /\ holder' = [holder EXCEPT ![r] = 0]
    /\ UNCHANGED <<phase, tickets>>

End(r) ==
    /\ phase[r] = "active"
    /\ phase' = [phase EXCEPT ![r] = "ended"]
    /\ holder' = [holder EXCEPT ![r] = 0]
    /\ UNCHANGED tickets

LifecycleNext == \E r \in Run : Admit(r) \/ Take(r) \/ Drop(r) \/ End(r)

LifecycleSpec == LifecycleInit /\ [][LifecycleNext]_lifecycleVars
=============================================================================
