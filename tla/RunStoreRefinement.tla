------------------------- MODULE RunStoreRefinement -------------------------
(* RunStore implements RunLifecycle: the mapping. *)
EXTENDS RunStore

\* Suspended counts as active: a run waiting for its user still blocks its project.
PhaseOf(st) ==
    IF st \in Active THEN "active" ELSE IF st \in Terminal THEN "ended" ELSE st

\* Only a live lease row makes a holder.
HolderOf(row) == IF row.live THEN row.id ELSE 0

Lifecycle ==
    INSTANCE RunLifecycle WITH
        Run <- Runs,
        Project <- [r \in Runs |-> ProjectOfRun(r)],
        phase <- [r \in Runs |-> PhaseOf(status[r])],
        holder <- [r \in Runs |-> HolderOf(lease[r])],
        tickets <- Len(grants)

\* Every transaction of the store is a step of the lifecycle or leaves it alone,
\* whichever stale, late or repeated call it serves.
RefinesLifecycle == Lifecycle!LifecycleSpec

\* Only a run that was claimed has lease ids, so only a claimed run can be ended.
GrantedRunsStarted ==
    \A id \in 1..Len(grants) : status[grants[id].run] \notin {"absent", "queued"}
=============================================================================
