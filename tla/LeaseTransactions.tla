-------------------------- MODULE LeaseTransactions --------------------------
(***************************************************************************)
(* beginRun, finishRun and releaseRunLease (packages/project-state,        *)
(* postgres.ts) for one run, statement by statement, as PostgreSQL runs    *)
(* them at its default isolation level, READ COMMITTED: a statement reads  *)
(* the rows committed before it started; a row another transaction wrote   *)
(* and has not committed is waited for, and then only that row is read     *)
(* again, the statement's subqueries on other tables are not; now() is     *)
(* the time the transaction began.  RunStore has each of these functions   *)
(* as one atomic action, and this module shows where that is more than     *)
(* the code gets.                                                          *)
(***************************************************************************)
EXTENDS Naturals, FiniteSets

CONSTANTS
    Clients,       \* database connections, one transaction at a time each
    MaxLeases,     \* bound: lease ids made up
    None

ASSUME NoneIsNoClient == None \notin Clients
ASSUME MaxLeasesIsNatural == MaxLeases \in Nat

VARIABLES
    ended,         \* runs.status is terminal (committed)
    row,           \* lease id of the committed run_leases row; 0 without a row
    live,          \* whether that row's expires_at is still to come
    issued,        \* lease ids made up so far
    granted,       \* history: lease ids a claim returned to its caller
    tx,            \* each client's transaction
    projectLock,   \* client holding the projects row
    leaseLock,     \* client whose write of the run_leases row is not committed
    runLock        \* client whose write of the runs row is not committed

txVars == <<ended, row, live, issued, granted, tx, projectLock, leaseLock, runLock>>

\* id: the lease presented or made up; past: the lease row that had expired at
\* now(); wrote, ends: the lease and status writes still to be committed; held: a
\* claim found its run.
Closed == [pc |-> "closed", id |-> 0, past |-> 0, wrote |-> FALSE, ends |-> FALSE, held |-> FALSE]

TxPhase == {"closed", "project", "claim", "insert", "claimRun", "delete", "look", "endRun",
            "commitClaim", "commitFinish"}

Locks == Clients \cup {None}

TxTypeOK ==
    /\ ended \in BOOLEAN
    /\ row \in 0..issued
    /\ issued \in 0..MaxLeases
    /\ live \in BOOLEAN
    /\ live => row # 0
    /\ granted \subseteq 1..issued
    /\ tx \in [Clients -> [pc: TxPhase, id: 0..MaxLeases, past: 0..MaxLeases,
                           wrote: BOOLEAN, ends: BOOLEAN, held: BOOLEAN]]
    /\ projectLock \in Locks
    /\ leaseLock \in Locks
    /\ runLock \in Locks
    /\ \A c \in Clients : tx[c].pc = "closed" => c \notin {projectLock, leaseLock, runLock}

TxInit ==
    /\ ended = FALSE
    /\ row = 0
    /\ live = FALSE
    /\ issued = 0
    /\ granted = {}
    /\ tx = [c \in Clients |-> Closed]
    /\ projectLock = None
    /\ leaseLock = None
    /\ runLock = None

At(c, phase) == tx[c].pc = phase
Goto(c, phase) == tx' = [tx EXCEPT ![c].pc = phase]
Begin(c, phase, id) ==
    tx' = [tx EXCEPT ![c] = [Closed EXCEPT !.pc = phase, !.id = id, !.past = IF live THEN 0 ELSE row]]

\* expires_at > now(), for the committed lease row.
LiveTo(c) == row \notin {0, tx[c].past}

Unlocked(lock, c) == IF lock = c THEN None ELSE lock

\* Commit or roll back: the locks go with the transaction.
Close(c) ==
    /\ tx' = [tx EXCEPT ![c] = Closed]
    /\ projectLock' = Unlocked(projectLock, c)
    /\ leaseLock' = Unlocked(leaseLock, c)
    /\ runLock' = Unlocked(runLock, c)

committed == <<ended, row, live, issued, granted>>
locks == <<projectLock, leaseLock, runLock>>

-----------------------------------------------------------------------------
(* beginRun *)

Claiming == {c \in Clients : tx[c].pc \in {"project", "claim", "insert"}}

BeginClaim(c) ==
    /\ issued + Cardinality(Claiming) < MaxLeases
    /\ At(c, "closed")
    /\ Begin(c, "project", 0)
    /\ UNCHANGED <<committed, locks>>

\* select ... for update of p: claims of one project take turns.
LockProject(c) ==
    /\ At(c, "project")
    /\ projectLock = None
    /\ projectLock' = c
    /\ Goto(c, "claim")
    /\ UNCHANGED <<committed, leaseLock, runLock>>

\* The claiming statement starts: its snapshot decides whether the run may be claimed.
StartClaim(c) ==
    /\ At(c, "claim")
    /\ IF ended THEN Close(c) ELSE Goto(c, "insert") /\ UNCHANGED locks
    /\ UNCHANGED committed

\* on conflict (run_id) do update ... where expires_at <= now().
MayReplace_AnyRow(c) == TRUE
MayReplace(c) == ~LiveTo(c)

InsertLease(c) ==
    /\ At(c, "insert")
    /\ leaseLock = None
    /\ \/ /\ MayReplace(c)
          /\ issued' = issued + 1
          /\ leaseLock' = c
          /\ tx' = [tx EXCEPT ![c] = [@ EXCEPT !.pc = "claimRun", !.id = issued + 1, !.wrote = TRUE]]
          /\ UNCHANGED <<ended, row, live, granted, projectLock, runLock>>
       \/ /\ ~MayReplace(c)
          /\ Close(c)
          /\ UNCHANGED committed

\* update runs ... where status <> terminal, read again once the row is free.
StillOpen_Assumed == TRUE
StillOpen == ~ended

ClaimRun(c) ==
    /\ At(c, "claimRun")
    /\ runLock = None
    /\ tx' = [tx EXCEPT ![c] = [@ EXCEPT !.pc = "commitClaim", !.held = StillOpen]]
    /\ runLock' = IF StillOpen THEN c ELSE None
    /\ UNCHANGED <<committed, projectLock, leaseLock>>

\* beginRun returns the lease if the update found the run, and commits either way.
CommitClaim(c) ==
    /\ At(c, "commitClaim")
    /\ row' = tx[c].id
    /\ live' = TRUE
    /\ granted' = IF tx[c].held THEN granted \cup {tx[c].id} ELSE granted
    /\ Close(c)
    /\ UNCHANGED <<ended, issued>>

-----------------------------------------------------------------------------
(* finishRun and releaseRunLease *)

\* The own lease is deleted first, the run is ended next.
FinishOrder_RunFirst == [begin |-> "look", delete |-> "commitFinish", end |-> "delete"]
FinishOrder == [begin |-> "delete", delete |-> "look", end |-> "commitFinish"]

BeginFinish(c) ==
    /\ At(c, "closed")
    /\ \E id \in granted : Begin(c, FinishOrder.begin, id)
    /\ UNCHANGED <<committed, locks>>

\* delete from run_leases where lease_id = the caller's.
DeleteLease(c) ==
    /\ At(c, "delete")
    /\ IF row = tx[c].id
       THEN /\ leaseLock = None
            /\ leaseLock' = c
            /\ tx' = [tx EXCEPT ![c] = [@ EXCEPT !.pc = FinishOrder.delete, !.wrote = TRUE]]
       ELSE Goto(c, FinishOrder.delete) /\ UNCHANGED leaseLock
    /\ UNCHANGED <<committed, projectLock, runLock>>

\* update runs ... and not exists (a live lease): the statement's snapshot.
SeesFree(c) == ~ended /\ ~(LiveTo(c) /\ ~tx[c].wrote)

StartEnd(c) ==
    /\ At(c, "look")
    /\ Goto(c, IF SeesFree(c) THEN "endRun" ELSE FinishOrder.end)
    /\ UNCHANGED <<committed, locks>>

\* Once the runs row is free its status is read again; the leases are not.
EndRun(c) ==
    /\ At(c, "endRun")
    /\ runLock = None
    /\ tx' = [tx EXCEPT ![c] = [@ EXCEPT !.pc = FinishOrder.end, !.ends = StillOpen]]
    /\ runLock' = IF StillOpen THEN c ELSE None
    /\ UNCHANGED <<committed, projectLock, leaseLock>>

CommitFinish(c) ==
    /\ At(c, "commitFinish")
    /\ row' = IF tx[c].wrote THEN 0 ELSE row
    /\ live' = (live /\ ~tx[c].wrote)
    /\ ended' = (ended \/ tx[c].ends)
    /\ Close(c)
    /\ UNCHANGED <<issued, granted>>

\* releaseRunLease: one statement, its own transaction.
Release(c) ==
    /\ At(c, "closed")
    /\ row \in granted
    /\ leaseLock = None
    /\ row' = 0
    /\ live' = FALSE
    /\ UNCHANGED <<ended, issued, granted, tx, locks>>

Expire ==
    /\ live
    /\ live' = FALSE
    /\ UNCHANGED <<ended, row, issued, granted, tx, locks>>

-----------------------------------------------------------------------------
(* Specification *)

TxStep(c) ==
    \/ LockProject(c) \/ StartClaim(c) \/ InsertLease(c) \/ ClaimRun(c) \/ CommitClaim(c)
    \/ DeleteLease(c) \/ StartEnd(c) \/ EndRun(c) \/ CommitFinish(c)

TxNext ==
    \/ Expire
    \/ \E c \in Clients : BeginClaim(c) \/ BeginFinish(c) \/ Release(c) \/ TxStep(c)

\* The server runs every open transaction on, and hands a freed lock to the waiters
\* in turn, so that none waits for ever while others come and go.
TxSpec == TxInit /\ [][TxNext]_txVars /\ \A c \in Clients : SF_txVars(TxStep(c))

-----------------------------------------------------------------------------
(* Properties *)

\* A live lease row is never replaced, however the statements of two claims
\* interleave: the conflict clause reads the row it waited for.
LiveRowKept ==
    [][TxTypeOK /\ (live => row' \in {row, 0})]_txVars

\* A claim that returns a lease holds an open run as it commits: it still has
\* the runs row locked since it read that the run had not ended.
GrantedClaimRuns ==
    [][\A c \in Clients : At(c, "commitClaim") /\ tx[c].held /\ ~(tx'[c].pc = "commitClaim") =>
          row' = tx[c].id /\ ~ended']_txVars

\* Both functions take the lease row before the runs row: no transaction waits for
\* ever.
TransactionsClose == \A c \in Clients : ~At(c, "closed") ~> At(c, "closed")
=============================================================================
