---------------------- MODULE LeaseTransactionsProofs ----------------------
(***************************************************************************)
(* Proofs about LeaseTransactions, for every set of clients and every      *)
(* number of leases: however the statements of claims, finishes and        *)
(* releases interleave, a live lease row is never replaced, and a claim    *)
(* that returns a lease commits with its run still open.                   *)
(***************************************************************************)
EXTENDS LeaseTransactions, FiniteSetTheorems, TLAPS

-----------------------------------------------------------------------------
(* The inductive invariant *)

\* A claim past the projects row, and one whose lease row waits for its commit.
InProject(c) == tx[c].pc \in {"claim", "insert", "claimRun", "commitClaim"}
HasInserted(c) == tx[c].pc \in {"claimRun", "commitClaim"}

\* The claim found its run open, or the finish ended it: the runs row waits for the
\* commit.
HasRun(c) == \/ tx[c].pc = "commitClaim" /\ tx[c].held
             \/ tx[c].pc = "commitFinish" /\ tx[c].ends

\* A row's lock is held by the one transaction that locked or wrote it.
LocksHeld ==
    \A c \in Clients :
        /\ projectLock = c <=> InProject(c)
        /\ leaseLock = c <=> tx[c].wrote
        /\ runLock = c <=> HasRun(c)

\* The steps at which a transaction may have written a lease row, and those at which
\* it may have found its run.
WritesPlaced ==
    \A c \in Clients :
        /\ HasInserted(c) => tx[c].wrote
        /\ tx[c].wrote => tx[c].pc \in {"claimRun", "commitClaim", "look", "endRun", "commitFinish"}
        /\ tx[c].held => tx[c].pc = "commitClaim"
        /\ tx[c].ends => tx[c].pc = "commitFinish"

\* Every id in a transaction was made up, and there is room for the claims to come.
IdsIssued ==
    /\ IsFiniteSet(Claiming)
    /\ issued + Cardinality(Claiming) <= MaxLeases
    /\ \A c \in Clients :
          /\ tx[c].id <= issued
          /\ tx[c].past <= issued
          /\ HasInserted(c) => tx[c].id # 0

\* The id of a lease row still to be committed is nobody's: no row has it and no
\* transaction saw it expire.
FreshIds ==
    \A c \in Clients : HasInserted(c) =>
        /\ row # tx[c].id
        /\ \A d \in Clients : tx[d].past # tx[c].id

\* A lease that had expired at a transaction's now() does not come back to life.
PastIsPast == \A c \in Clients : tx[c].past # 0 /\ row = tx[c].past => ~live

\* While a claim's lease row waits for its commit, the committed row is not live.
InsertsOverDead == \A c \in Clients : HasInserted(c) => ~live

\* While a claim has the runs row locked, the run is open.
HeldRunsOpen == \A c \in Clients : tx[c].pc = "commitClaim" /\ tx[c].held => ~ended

TxInv ==
    /\ TxTypeOK
    /\ LocksHeld
    /\ WritesPlaced
    /\ IdsIssued
    /\ FreshIds
    /\ PastIsPast
    /\ InsertsOverDead
    /\ HeldRunsOpen

-----------------------------------------------------------------------------
(* What a step does to the transactions *)

TxRow == [pc: TxPhase, id: 0..MaxLeases, past: 0..MaxLeases,
          wrote: BOOLEAN, ends: BOOLEAN, held: BOOLEAN]

\* Client c's transaction is now as given, and the others' are as they were.
Becomes(c, phase, id, past, wrote, ends, held) ==
    /\ tx' \in [Clients -> TxRow]
    /\ tx'[c].pc = phase
    /\ tx'[c].id = id
    /\ tx'[c].past = past
    /\ tx'[c].wrote = wrote
    /\ tx'[c].ends = ends
    /\ tx'[c].held = held
    /\ \A d \in Clients \ {c} : tx'[d] = tx[d]

\* Client c's transaction moves on to phase, with what it wrote, ends and holds.
Proceeds(c, phase, wrote, ends, held) ==
    Becomes(c, phase, tx[c].id, tx[c].past, wrote, ends, held)

\* Client c's transaction starts, and finds out which lease has expired by now.
Opens(c, phase, id) ==
    Becomes(c, phase, id, IF live THEN 0 ELSE row, FALSE, FALSE, FALSE)

\* Client c's transaction is over and its locks are free.
Quits(c) ==
    /\ Becomes(c, "closed", 0, 0, FALSE, FALSE, FALSE)
    /\ projectLock' = IF projectLock = c THEN None ELSE projectLock
    /\ leaseLock' = IF leaseLock = c THEN None ELSE leaseLock
    /\ runLock' = IF runLock = c THEN None ELSE runLock

LEMMA Becoming ==
  ASSUME TxTypeOK, NEW c \in Clients, NEW t \in TxRow, tx' = [tx EXCEPT ![c] = t]
  PROVE  Becomes(c, t.pc, t.id, t.past, t.wrote, t.ends, t.held)
BY DEF TxTypeOK, TxRow, Becomes

\* A transaction that goes to another phase keeps the rest.
LEMMA Going ==
  ASSUME TxTypeOK, NEW c \in Clients, NEW phase \in TxPhase, Goto(c, phase)
  PROVE  Proceeds(c, phase, tx[c].wrote, tx[c].ends, tx[c].held)
<1>1. tx[c] \in TxRow
  BY DEF TxTypeOK, TxRow
<1> DEFINE t == [tx[c] EXCEPT !.pc = phase]
<1>2. /\ t \in TxRow
      /\ t.pc = phase /\ t.id = tx[c].id /\ t.past = tx[c].past
      /\ t.wrote = tx[c].wrote /\ t.ends = tx[c].ends /\ t.held = tx[c].held
  BY <1>1 DEF TxRow
<1>3. tx' = [tx EXCEPT ![c] = t]
  BY DEF Goto
<1>4. QED
  <2> HIDE DEF t
  <2> QED
    BY <1>2, <1>3, Becoming DEF Proceeds

LEMMA Opening ==
  ASSUME TxTypeOK, NEW c \in Clients, NEW phase \in TxPhase, NEW id \in 0..issued,
         Begin(c, phase, id)
  PROVE  Opens(c, phase, id)
<1> DEFINE past == IF live THEN 0 ELSE row
<1> DEFINE t == [Closed EXCEPT !.pc = phase, !.id = id, !.past = past]
<1>0. id \in 0..MaxLeases /\ past \in 0..MaxLeases
  BY MaxLeasesIsNatural DEF TxTypeOK
<1>1. t \in TxRow
  <2> HIDE DEF past
  <2> QED
    BY <1>0 DEF TxRow, Closed
<1>2. /\ t.pc = phase /\ t.id = id /\ t.past = past
      /\ t.wrote = FALSE /\ t.ends = FALSE /\ t.held = FALSE
  BY DEF Closed
<1>3. tx' = [tx EXCEPT ![c] = t]
  BY DEF Begin
<1>4. QED
  <2> HIDE DEF t
  <2> QED
    BY <1>1, <1>2, <1>3, Becoming DEF Opens

LEMMA Quitting ==
  ASSUME TxTypeOK, NEW c \in Clients, Close(c)
  PROVE  Quits(c)
<1>1. /\ Closed \in TxRow
      /\ Closed.pc = "closed" /\ Closed.id = 0 /\ Closed.past = 0
      /\ Closed.wrote = FALSE /\ Closed.ends = FALSE /\ Closed.held = FALSE
  BY MaxLeasesIsNatural DEF TxRow, Closed, TxPhase
<1>2. Becomes(c, "closed", 0, 0, FALSE, FALSE, FALSE)
  BY <1>1, Becoming DEF Close
<1>3. QED
  BY <1>2 DEF Close, Quits, Unlocked

-----------------------------------------------------------------------------
(* What each statement does *)

ClaimBegins(c) ==
    /\ tx[c].pc = "closed"
    /\ issued + Cardinality(Claiming) < MaxLeases
    /\ Opens(c, "project", 0)
    /\ UNCHANGED <<ended, row, live, issued, granted, projectLock, leaseLock, runLock>>

ProjectLocks(c) ==
    /\ tx[c].pc = "project"
    /\ projectLock = None /\ projectLock' = c
    /\ Proceeds(c, "claim", tx[c].wrote, tx[c].ends, tx[c].held)
    /\ UNCHANGED <<ended, row, live, issued, granted, leaseLock, runLock>>

ClaimStarts(c) ==
    /\ tx[c].pc = "claim"
    /\ \/ ended /\ Quits(c)
       \/ /\ Proceeds(c, "insert", tx[c].wrote, tx[c].ends, tx[c].held)
          /\ UNCHANGED <<projectLock, leaseLock, runLock>>
    /\ UNCHANGED <<ended, row, live, issued, granted>>

LeaseWritten(c) ==
    /\ row \in {0, tx[c].past}
    /\ issued' = issued + 1
    /\ leaseLock' = c
    /\ Becomes(c, "claimRun", issued + 1, tx[c].past, TRUE, tx[c].ends, tx[c].held)
    /\ UNCHANGED <<ended, row, live, granted, projectLock, runLock>>

LeaseInserts(c) ==
    /\ tx[c].pc = "insert"
    /\ leaseLock = None
    /\ LeaseWritten(c) \/ (Quits(c) /\ UNCHANGED <<ended, row, live, issued, granted>>)

RunClaims(c) ==
    /\ tx[c].pc = "claimRun"
    /\ runLock = None
    /\ runLock' = IF ended THEN None ELSE c
    /\ Proceeds(c, "commitClaim", tx[c].wrote, tx[c].ends, ~ended)
    /\ UNCHANGED <<ended, row, live, issued, granted, projectLock, leaseLock>>

ClaimCommits(c) ==
    /\ tx[c].pc = "commitClaim"
    /\ row' = tx[c].id
    /\ live' = TRUE
    /\ granted' \subseteq granted \cup {tx[c].id}
    /\ Quits(c)
    /\ UNCHANGED <<ended, issued>>

FinishBegins(c) ==
    /\ tx[c].pc = "closed"
    /\ \E id \in granted : Opens(c, "delete", id)
    /\ UNCHANGED <<ended, row, live, issued, granted, projectLock, leaseLock, runLock>>

LeaseDeletes(c) ==
    /\ tx[c].pc = "delete"
    /\ \/ /\ row = tx[c].id /\ leaseLock = None /\ leaseLock' = c
          /\ Proceeds(c, "look", TRUE, tx[c].ends, tx[c].held)
       \/ /\ Proceeds(c, "look", tx[c].wrote, tx[c].ends, tx[c].held)
          /\ leaseLock' = leaseLock
    /\ UNCHANGED <<ended, row, live, issued, granted, projectLock, runLock>>

EndStarts(c) ==
    /\ tx[c].pc = "look"
    /\ \E phase \in {"endRun", "commitFinish"} :
          Proceeds(c, phase, tx[c].wrote, tx[c].ends, tx[c].held)
    /\ UNCHANGED <<ended, row, live, issued, granted, projectLock, leaseLock, runLock>>

RunEnds(c) ==
    /\ tx[c].pc = "endRun"
    /\ runLock = None
    /\ runLock' = IF ended THEN None ELSE c
    /\ Proceeds(c, "commitFinish", tx[c].wrote, ~ended, tx[c].held)
    /\ UNCHANGED <<ended, row, live, issued, granted, projectLock, leaseLock>>

FinishCommits(c) ==
    /\ tx[c].pc = "commitFinish"
    /\ row' = IF tx[c].wrote THEN 0 ELSE row
    /\ live' = (live /\ ~tx[c].wrote)
    /\ ended' = (ended \/ tx[c].ends)
    /\ Quits(c)
    /\ UNCHANGED <<issued, granted>>

LEMMA BeginClaimDoes ==
  ASSUME TxTypeOK, NEW c \in Clients, BeginClaim(c)
  PROVE  ClaimBegins(c)
<1>1. 0 \in 0..issued /\ "project" \in TxPhase
  BY MaxLeasesIsNatural DEF TxTypeOK, TxPhase
<1>2. QED
  BY <1>1, Opening DEF ClaimBegins, BeginClaim, At, committed, locks

LEMMA LockProjectDoes ==
  ASSUME TxTypeOK, NEW c \in Clients, LockProject(c)
  PROVE  ProjectLocks(c)
<1>1. "claim" \in TxPhase
  BY DEF TxPhase
<1>2. QED
  BY <1>1, Going DEF ProjectLocks, LockProject, At, committed

LEMMA StartClaimDoes ==
  ASSUME TxTypeOK, NEW c \in Clients, StartClaim(c)
  PROVE  ClaimStarts(c)
<1>1. "insert" \in TxPhase
  BY DEF TxPhase
<1>2. QED
  BY <1>1, Going, Quitting DEF ClaimStarts, StartClaim, At, committed, locks

LEMMA InsertLeaseDoes ==
  ASSUME TxTypeOK, IdsIssued, NEW c \in Clients, InsertLease(c)
  PROVE  LeaseInserts(c)
<1>1. CASE MayReplace(c) /\ issued' = issued + 1
  <2>1. tx[c] \in TxRow
    BY DEF TxTypeOK, TxRow
  <2>2. c \in Claiming
    BY DEF LeaseInserts, LeaseWritten, InsertLease, At, Claiming
  <2>3. Cardinality(Claiming) \in Nat \ {0}
    BY <2>2, FS_CardinalityType, FS_EmptySet DEF IdsIssued
  <2>4. issued + 1 \in 0..MaxLeases
    BY <2>3, MaxLeasesIsNatural DEF IdsIssued, TxTypeOK
  <2> DEFINE t == [tx[c] EXCEPT !.pc = "claimRun", !.id = issued + 1, !.wrote = TRUE]
  <2>5. /\ t \in TxRow
        /\ t.pc = "claimRun" /\ t.id = issued + 1 /\ t.past = tx[c].past
        /\ t.wrote = TRUE /\ t.ends = tx[c].ends /\ t.held = tx[c].held
    BY <2>1, <2>4 DEF TxRow, TxPhase
  <2>6. issued' # issued
    BY <1>1 DEF TxTypeOK
  <2>7. /\ tx' = [tx EXCEPT ![c] = t]
        /\ leaseLock' = c
        /\ UNCHANGED <<ended, row, live, granted, projectLock, runLock>>
    BY <1>1, <2>6 DEF LeaseInserts, LeaseWritten, InsertLease, committed
  <2>8. Becomes(c, "claimRun", issued + 1, tx[c].past, TRUE, tx[c].ends, tx[c].held)
    <3> HIDE DEF t
    <3> QED
      BY <2>5, <2>7, Becoming
  <2>9. QED
    BY <1>1, <2>7, <2>8 DEF LeaseInserts, LeaseWritten, InsertLease, At, MayReplace, LiveTo
<1>2. CASE ~(MayReplace(c) /\ issued' = issued + 1)
  BY <1>2, Quitting DEF LeaseInserts, LeaseWritten, InsertLease, At, committed
<1>3. QED
  BY <1>1, <1>2

LEMMA ClaimRunDoes ==
  ASSUME TxTypeOK, NEW c \in Clients, ClaimRun(c)
  PROVE  RunClaims(c)
<1>1. tx[c] \in TxRow /\ ended \in BOOLEAN
  BY DEF TxTypeOK, TxRow
<1> DEFINE t == [tx[c] EXCEPT !.pc = "commitClaim", !.held = ~ended]
<1>2. /\ t \in TxRow
      /\ t.pc = "commitClaim" /\ t.id = tx[c].id /\ t.past = tx[c].past
      /\ t.wrote = tx[c].wrote /\ t.ends = tx[c].ends /\ t.held = ~ended
  BY <1>1 DEF TxRow, TxPhase
<1>3. tx' = [tx EXCEPT ![c] = t]
  BY DEF RunClaims, ClaimRun, StillOpen
<1>4. Proceeds(c, "commitClaim", tx[c].wrote, tx[c].ends, ~ended)
  <2> HIDE DEF t
  <2> QED
    BY <1>2, <1>3, Becoming DEF Proceeds
<1>5. QED
  BY <1>4 DEF RunClaims, ClaimRun, At, StillOpen, committed

LEMMA CommitClaimDoes ==
  ASSUME TxTypeOK, NEW c \in Clients, CommitClaim(c)
  PROVE  ClaimCommits(c)
BY Quitting DEF ClaimCommits, CommitClaim, At

LEMMA BeginFinishDoes ==
  ASSUME TxTypeOK, NEW c \in Clients, BeginFinish(c)
  PROVE  FinishBegins(c)
<1>1. PICK id \in granted : Begin(c, "delete", id)
  BY DEF FinishBegins, BeginFinish, FinishOrder
<1>2. id \in 0..issued /\ "delete" \in TxPhase
  BY MaxLeasesIsNatural DEF TxTypeOK, TxPhase
<1>3. QED
  BY <1>1, <1>2, Opening DEF FinishBegins, BeginFinish, At, committed, locks

LEMMA DeleteLeaseDoes ==
  ASSUME TxTypeOK, NEW c \in Clients, DeleteLease(c)
  PROVE  LeaseDeletes(c)
<1>1. CASE row = tx[c].id
  <2>1. tx[c] \in TxRow
    BY DEF TxTypeOK, TxRow
  <2> DEFINE t == [tx[c] EXCEPT !.pc = "look", !.wrote = TRUE]
  <2>2. /\ t \in TxRow
        /\ t.pc = "look" /\ t.id = tx[c].id /\ t.past = tx[c].past
        /\ t.wrote = TRUE /\ t.ends = tx[c].ends /\ t.held = tx[c].held
    BY <2>1 DEF TxRow, TxPhase
  <2>3. tx' = [tx EXCEPT ![c] = t]
    BY <1>1 DEF LeaseDeletes, DeleteLease, FinishOrder
  <2>4. Proceeds(c, "look", TRUE, tx[c].ends, tx[c].held)
    <3> HIDE DEF t
    <3> QED
      BY <2>2, <2>3, Becoming DEF Proceeds
  <2>5. QED
    BY <1>1, <2>4 DEF LeaseDeletes, DeleteLease, At, committed
<1>2. CASE row # tx[c].id
  <2>1. Goto(c, "look") /\ "look" \in TxPhase
    BY <1>2 DEF LeaseDeletes, DeleteLease, FinishOrder, TxPhase
  <2>2. QED
    BY <1>2, <2>1, Going DEF LeaseDeletes, DeleteLease, At, committed
<1>3. QED
  BY <1>1, <1>2

LEMMA StartEndDoes ==
  ASSUME TxTypeOK, NEW c \in Clients, StartEnd(c)
  PROVE  EndStarts(c)
<1>1. \E phase \in {"endRun", "commitFinish"} : Goto(c, phase)
  BY DEF EndStarts, StartEnd, FinishOrder
<1>2. {"endRun", "commitFinish"} \subseteq TxPhase
  BY DEF TxPhase
<1>3. QED
  BY <1>1, <1>2, Going DEF EndStarts, StartEnd, At, committed, locks

LEMMA EndRunDoes ==
  ASSUME TxTypeOK, NEW c \in Clients, EndRun(c)
  PROVE  RunEnds(c)
<1>1. tx[c] \in TxRow /\ ended \in BOOLEAN
  BY DEF TxTypeOK, TxRow
<1> DEFINE t == [tx[c] EXCEPT !.pc = "commitFinish", !.ends = ~ended]
<1>2. /\ t \in TxRow
      /\ t.pc = "commitFinish" /\ t.id = tx[c].id /\ t.past = tx[c].past
      /\ t.wrote = tx[c].wrote /\ t.ends = ~ended /\ t.held = tx[c].held
  BY <1>1 DEF TxRow, TxPhase
<1>3. tx' = [tx EXCEPT ![c] = t]
  BY DEF RunEnds, EndRun, StillOpen, FinishOrder
<1>4. Proceeds(c, "commitFinish", tx[c].wrote, ~ended, tx[c].held)
  <2> HIDE DEF t
  <2> QED
    BY <1>2, <1>3, Becoming DEF Proceeds
<1>5. QED
  BY <1>4 DEF RunEnds, EndRun, At, StillOpen, committed

LEMMA CommitFinishDoes ==
  ASSUME TxTypeOK, NEW c \in Clients, CommitFinish(c)
  PROVE  FinishCommits(c)
BY Quitting DEF FinishCommits, CommitFinish, At

\* The steps, by what they do.
LEMMA StepCases ==
  ASSUME NEW CONSTANT P, TxTypeOK, IdsIssued, [TxNext]_txVars,
         UNCHANGED txVars => P,
         Expire => P,
         \A c \in Clients : Release(c) => P,
         \A c \in Clients : ClaimBegins(c) => P,
         \A c \in Clients : ProjectLocks(c) => P,
         \A c \in Clients : ClaimStarts(c) => P,
         \A c \in Clients : LeaseInserts(c) => P,
         \A c \in Clients : RunClaims(c) => P,
         \A c \in Clients : ClaimCommits(c) => P,
         \A c \in Clients : FinishBegins(c) => P,
         \A c \in Clients : LeaseDeletes(c) => P,
         \A c \in Clients : EndStarts(c) => P,
         \A c \in Clients : RunEnds(c) => P,
         \A c \in Clients : FinishCommits(c) => P
  PROVE  P
<1>1. ASSUME NEW c \in Clients, BeginClaim(c) PROVE P
  BY <1>1, BeginClaimDoes
<1>2. ASSUME NEW c \in Clients, LockProject(c) PROVE P
  BY <1>2, LockProjectDoes
<1>3. ASSUME NEW c \in Clients, StartClaim(c) PROVE P
  BY <1>3, StartClaimDoes
<1>4. ASSUME NEW c \in Clients, InsertLease(c) PROVE P
  BY <1>4, InsertLeaseDoes
<1>5. ASSUME NEW c \in Clients, ClaimRun(c) PROVE P
  BY <1>5, ClaimRunDoes
<1>6. ASSUME NEW c \in Clients, CommitClaim(c) PROVE P
  BY <1>6, CommitClaimDoes
<1>7. ASSUME NEW c \in Clients, BeginFinish(c) PROVE P
  BY <1>7, BeginFinishDoes
<1>8. ASSUME NEW c \in Clients, DeleteLease(c) PROVE P
  BY <1>8, DeleteLeaseDoes
<1>9. ASSUME NEW c \in Clients, StartEnd(c) PROVE P
  BY <1>9, StartEndDoes
<1>10. ASSUME NEW c \in Clients, EndRun(c) PROVE P
  BY <1>10, EndRunDoes
<1>11. ASSUME NEW c \in Clients, CommitFinish(c) PROVE P
  BY <1>11, CommitFinishDoes
<1>12. QED
  BY <1>1, <1>2, <1>3, <1>4, <1>5, <1>6, <1>7, <1>8, <1>9, <1>10, <1>11 DEF TxNext, TxStep

-----------------------------------------------------------------------------
(* The invariant is inductive *)

LEMMA TxTypeOKStep ==
  ASSUME TxInv, [TxNext]_txVars
  PROVE  TxTypeOK'
<1>1. ASSUME NEW c \in Clients, ClaimBegins(c) PROVE TxTypeOK'
  BY <1>1, NoneIsNoClient, MaxLeasesIsNatural
  DEF ClaimBegins, Becomes, Opens, TxRow, TxInv, TxTypeOK, IdsIssued, LocksHeld, InProject,
      HasRun, HasInserted, WritesPlaced, Locks, At
<1>2. ASSUME NEW c \in Clients, ProjectLocks(c) PROVE TxTypeOK'
  BY <1>2, NoneIsNoClient, MaxLeasesIsNatural
  DEF ProjectLocks, Becomes, Proceeds, TxRow, TxInv, TxTypeOK, IdsIssued, LocksHeld,
      InProject, HasRun, HasInserted, WritesPlaced, Locks, At
<1>3. ASSUME NEW c \in Clients, ClaimStarts(c) PROVE TxTypeOK'
  BY <1>3, NoneIsNoClient, MaxLeasesIsNatural
  DEF ClaimStarts, Becomes, Proceeds, Quits, TxRow, TxInv, TxTypeOK, IdsIssued, LocksHeld,
      InProject, HasRun, HasInserted, WritesPlaced, Locks, At
<1>4. ASSUME NEW c \in Clients, LeaseInserts(c) PROVE TxTypeOK'
  <2>1. CASE Quits(c) /\ UNCHANGED <<ended, row, live, issued, granted>>
    BY <2>1, NoneIsNoClient DEF Quits, Becomes, TxRow, TxInv, TxTypeOK, LocksHeld, Locks
  <2>2. CASE LeaseWritten(c)
    <3>1. tx' \in [Clients -> TxRow] /\ tx'[c].id = issued + 1 /\ tx'[c].pc = "claimRun"
      BY <2>2 DEF LeaseWritten, Becomes
    <3>2. issued' \in 0..MaxLeases
      BY <2>2, <3>1 DEF LeaseWritten, TxRow
    <3>3. issued \in Nat /\ row \in 0..issued /\ granted \subseteq 1..issued
      BY DEF TxInv, TxTypeOK
    <3>4. row' \in 0..issued' /\ granted' \subseteq 1..issued'
      BY <2>2, <3>3 DEF LeaseWritten
    <3>5. \A d \in Clients : tx'[d].pc = "closed" => d \notin {projectLock', leaseLock', runLock'}
      BY <2>2, <3>1 DEF LeaseWritten, Becomes, TxInv, TxTypeOK
    <3>6. /\ ended' \in BOOLEAN /\ live' \in BOOLEAN /\ (live' => row' # 0)
          /\ projectLock' \in Locks /\ leaseLock' \in Locks /\ runLock' \in Locks
      BY <2>2 DEF LeaseWritten, TxInv, TxTypeOK, Locks
    <3>7. QED
      BY <3>1, <3>2, <3>4, <3>5, <3>6 DEF TxRow, TxTypeOK
  <2>3. QED
    BY <1>4, <2>1, <2>2 DEF LeaseInserts
<1>5. ASSUME NEW c \in Clients, RunClaims(c) PROVE TxTypeOK'
  BY <1>5, NoneIsNoClient, MaxLeasesIsNatural
  DEF RunClaims, Becomes, Proceeds, TxRow, TxInv, TxTypeOK, IdsIssued, LocksHeld, InProject,
      HasRun, HasInserted, WritesPlaced, Locks, At
<1>6. ASSUME NEW c \in Clients, ClaimCommits(c) PROVE TxTypeOK'
  BY <1>6, NoneIsNoClient, MaxLeasesIsNatural
  DEF ClaimCommits, Becomes, Quits, TxRow, TxInv, TxTypeOK, IdsIssued, LocksHeld, InProject,
      HasRun, HasInserted, WritesPlaced, Locks, At
<1>7. ASSUME NEW c \in Clients, FinishBegins(c) PROVE TxTypeOK'
  BY <1>7, NoneIsNoClient, MaxLeasesIsNatural
  DEF FinishBegins, Becomes, Opens, TxRow, TxInv, TxTypeOK, IdsIssued, LocksHeld, InProject,
      HasRun, HasInserted, WritesPlaced, Locks, At
<1>8. ASSUME NEW c \in Clients, LeaseDeletes(c) PROVE TxTypeOK'
  BY <1>8, NoneIsNoClient, MaxLeasesIsNatural
  DEF LeaseDeletes, Becomes, Proceeds, TxRow, TxInv, TxTypeOK, IdsIssued, LocksHeld,
      InProject, HasRun, HasInserted, WritesPlaced, Locks, At
<1>9. ASSUME NEW c \in Clients, EndStarts(c) PROVE TxTypeOK'
  BY <1>9, NoneIsNoClient, MaxLeasesIsNatural
  DEF EndStarts, Becomes, Proceeds, TxRow, TxInv, TxTypeOK, IdsIssued, LocksHeld, InProject,
      HasRun, HasInserted, WritesPlaced, Locks, At
<1>10. ASSUME NEW c \in Clients, RunEnds(c) PROVE TxTypeOK'
  BY <1>10, NoneIsNoClient, MaxLeasesIsNatural
  DEF RunEnds, Becomes, Proceeds, TxRow, TxInv, TxTypeOK, IdsIssued, LocksHeld, InProject,
      HasRun, HasInserted, WritesPlaced, Locks, At
<1>11. ASSUME NEW c \in Clients, FinishCommits(c) PROVE TxTypeOK'
  BY <1>11, NoneIsNoClient, MaxLeasesIsNatural
  DEF FinishCommits, Becomes, Quits, TxRow, TxInv, TxTypeOK, IdsIssued, LocksHeld, InProject,
      HasRun, HasInserted, WritesPlaced, Locks, At
<1>12. ASSUME NEW c \in Clients, Release(c) PROVE TxTypeOK'
  <2>1. /\ row' = 0 /\ live' = FALSE
        /\ UNCHANGED <<ended, issued, granted, tx, projectLock, leaseLock, runLock>>
    BY <1>12 DEF Release, locks
  <2>2. row' \in 0..issued'
    BY <2>1 DEF TxInv, TxTypeOK
  <2>3. QED
    BY <2>1, <2>2, MaxLeasesIsNatural DEF TxInv, TxTypeOK, TxRow
<1>13. CASE Expire
  BY <1>13
  DEF Expire, locks, TxRow, TxInv, TxTypeOK, IdsIssued, LocksHeld, InProject, HasRun,
      HasInserted, WritesPlaced, Locks, At
<1>14. CASE UNCHANGED txVars
  BY <1>14
  DEF txVars, Becomes, TxRow, TxInv, TxTypeOK, IdsIssued, LocksHeld, InProject, HasRun,
      HasInserted, WritesPlaced, Locks, At
<1>15. QED
  BY <1>1, <1>2, <1>3, <1>4, <1>5, <1>6, <1>7, <1>8, <1>9, <1>10, <1>11, <1>12, <1>13, <1>14, StepCases
  DEF TxInv

LEMMA LocksHeldStep ==
  ASSUME TxInv, [TxNext]_txVars
  PROVE  LocksHeld'
<1>1. ASSUME NEW c \in Clients, ClaimBegins(c) PROVE LocksHeld'
  BY <1>1, NoneIsNoClient, MaxLeasesIsNatural
  DEF ClaimBegins, Becomes, Opens, TxRow, TxInv, TxTypeOK, LocksHeld, InProject, HasRun,
      WritesPlaced, HasInserted
<1>2. ASSUME NEW c \in Clients, ProjectLocks(c) PROVE LocksHeld'
  BY <1>2, NoneIsNoClient, MaxLeasesIsNatural
  DEF ProjectLocks, Becomes, Proceeds, TxRow, TxInv, TxTypeOK, LocksHeld, InProject, HasRun,
      WritesPlaced, HasInserted
<1>3. ASSUME NEW c \in Clients, ClaimStarts(c) PROVE LocksHeld'
  BY <1>3, NoneIsNoClient, MaxLeasesIsNatural
  DEF ClaimStarts, Becomes, Proceeds, Quits, TxRow, TxInv, TxTypeOK, LocksHeld, InProject,
      HasRun, WritesPlaced, HasInserted
<1>4. ASSUME NEW c \in Clients, LeaseInserts(c) PROVE LocksHeld'
  BY <1>4, NoneIsNoClient, MaxLeasesIsNatural
  DEF LeaseInserts, LeaseWritten, Becomes, Quits, TxRow, TxInv, TxTypeOK, LocksHeld,
      InProject, HasRun, WritesPlaced, HasInserted
<1>5. ASSUME NEW c \in Clients, RunClaims(c) PROVE LocksHeld'
  BY <1>5, NoneIsNoClient, MaxLeasesIsNatural
  DEF RunClaims, Becomes, Proceeds, TxRow, TxInv, TxTypeOK, LocksHeld, InProject, HasRun,
      WritesPlaced, HasInserted
<1>6. ASSUME NEW c \in Clients, ClaimCommits(c) PROVE LocksHeld'
  BY <1>6, NoneIsNoClient, MaxLeasesIsNatural
  DEF ClaimCommits, Becomes, Quits, TxRow, TxInv, TxTypeOK, LocksHeld, InProject, HasRun,
      WritesPlaced, HasInserted
<1>7. ASSUME NEW c \in Clients, FinishBegins(c) PROVE LocksHeld'
  BY <1>7, NoneIsNoClient, MaxLeasesIsNatural
  DEF FinishBegins, Becomes, Opens, TxRow, TxInv, TxTypeOK, LocksHeld, InProject, HasRun,
      WritesPlaced, HasInserted
<1>8. ASSUME NEW c \in Clients, LeaseDeletes(c) PROVE LocksHeld'
  BY <1>8, NoneIsNoClient, MaxLeasesIsNatural
  DEF LeaseDeletes, Becomes, Proceeds, TxRow, TxInv, TxTypeOK, LocksHeld, InProject, HasRun,
      WritesPlaced, HasInserted
<1>9. ASSUME NEW c \in Clients, EndStarts(c) PROVE LocksHeld'
  <2>1. PICK phase \in {"endRun", "commitFinish"} :
           Proceeds(c, phase, tx[c].wrote, tx[c].ends, tx[c].held)
    BY <1>9 DEF EndStarts
  <2>2. QED
    BY <1>9, <2>1
    DEF EndStarts, Becomes, Proceeds, TxRow, TxInv, TxTypeOK, LocksHeld, InProject, HasRun,
        WritesPlaced, HasInserted
<1>10. ASSUME NEW c \in Clients, RunEnds(c) PROVE LocksHeld'
  BY <1>10, NoneIsNoClient, MaxLeasesIsNatural
  DEF RunEnds, Becomes, Proceeds, TxRow, TxInv, TxTypeOK, LocksHeld, InProject, HasRun,
      WritesPlaced, HasInserted
<1>11. ASSUME NEW c \in Clients, FinishCommits(c) PROVE LocksHeld'
  BY <1>11, NoneIsNoClient, MaxLeasesIsNatural
  DEF FinishCommits, Becomes, Quits, TxRow, TxInv, TxTypeOK, LocksHeld, InProject, HasRun,
      WritesPlaced, HasInserted
<1>12. ASSUME NEW c \in Clients, Release(c) PROVE LocksHeld'
  BY <1>12, NoneIsNoClient
  DEF Release, locks, TxRow, TxInv, TxTypeOK, LocksHeld, InProject, HasRun, WritesPlaced,
      HasInserted
<1>13. CASE Expire
  BY <1>13
  DEF Expire, locks, TxRow, TxInv, TxTypeOK, LocksHeld, InProject, HasRun, WritesPlaced,
      HasInserted
<1>14. CASE UNCHANGED txVars
  BY <1>14
  DEF txVars, Becomes, TxRow, TxInv, TxTypeOK, LocksHeld, InProject, HasRun, WritesPlaced,
      HasInserted
<1>15. QED
  BY <1>1, <1>2, <1>3, <1>4, <1>5, <1>6, <1>7, <1>8, <1>9, <1>10, <1>11, <1>12, <1>13, <1>14, StepCases
  DEF TxInv

LEMMA WritesPlacedStep ==
  ASSUME TxInv, [TxNext]_txVars
  PROVE  WritesPlaced'
<1>1. ASSUME NEW c \in Clients, ClaimBegins(c) PROVE WritesPlaced'
  BY <1>1, NoneIsNoClient, MaxLeasesIsNatural
  DEF ClaimBegins, Becomes, Opens, TxRow, TxInv, TxTypeOK, WritesPlaced, HasInserted,
      LocksHeld, InProject, HasRun
<1>2. ASSUME NEW c \in Clients, ProjectLocks(c) PROVE WritesPlaced'
  BY <1>2, NoneIsNoClient, MaxLeasesIsNatural
  DEF ProjectLocks, Becomes, Proceeds, TxRow, TxInv, TxTypeOK, WritesPlaced, HasInserted,
      LocksHeld, InProject, HasRun
<1>3. ASSUME NEW c \in Clients, ClaimStarts(c) PROVE WritesPlaced'
  BY <1>3, NoneIsNoClient, MaxLeasesIsNatural
  DEF ClaimStarts, Becomes, Proceeds, Quits, TxRow, TxInv, TxTypeOK, WritesPlaced,
      HasInserted, LocksHeld, InProject, HasRun
<1>4. ASSUME NEW c \in Clients, LeaseInserts(c) PROVE WritesPlaced'
  BY <1>4, NoneIsNoClient, MaxLeasesIsNatural
  DEF LeaseInserts, LeaseWritten, Becomes, Quits, TxRow, TxInv, TxTypeOK, WritesPlaced,
      HasInserted, LocksHeld, InProject, HasRun
<1>5. ASSUME NEW c \in Clients, RunClaims(c) PROVE WritesPlaced'
  BY <1>5, NoneIsNoClient, MaxLeasesIsNatural
  DEF RunClaims, Becomes, Proceeds, TxRow, TxInv, TxTypeOK, WritesPlaced, HasInserted,
      LocksHeld, InProject, HasRun
<1>6. ASSUME NEW c \in Clients, ClaimCommits(c) PROVE WritesPlaced'
  BY <1>6, NoneIsNoClient, MaxLeasesIsNatural
  DEF ClaimCommits, Becomes, Quits, TxRow, TxInv, TxTypeOK, WritesPlaced, HasInserted,
      LocksHeld, InProject, HasRun
<1>7. ASSUME NEW c \in Clients, FinishBegins(c) PROVE WritesPlaced'
  BY <1>7, NoneIsNoClient, MaxLeasesIsNatural
  DEF FinishBegins, Becomes, Opens, TxRow, TxInv, TxTypeOK, WritesPlaced, HasInserted,
      LocksHeld, InProject, HasRun
<1>8. ASSUME NEW c \in Clients, LeaseDeletes(c) PROVE WritesPlaced'
  BY <1>8, NoneIsNoClient, MaxLeasesIsNatural
  DEF LeaseDeletes, Becomes, Proceeds, TxRow, TxInv, TxTypeOK, WritesPlaced, HasInserted,
      LocksHeld, InProject, HasRun
<1>9. ASSUME NEW c \in Clients, EndStarts(c) PROVE WritesPlaced'
  BY <1>9, NoneIsNoClient, MaxLeasesIsNatural
  DEF EndStarts, Becomes, Proceeds, TxRow, TxInv, TxTypeOK, WritesPlaced, HasInserted,
      LocksHeld, InProject, HasRun
<1>10. ASSUME NEW c \in Clients, RunEnds(c) PROVE WritesPlaced'
  BY <1>10, NoneIsNoClient, MaxLeasesIsNatural
  DEF RunEnds, Becomes, Proceeds, TxRow, TxInv, TxTypeOK, WritesPlaced, HasInserted,
      LocksHeld, InProject, HasRun
<1>11. ASSUME NEW c \in Clients, FinishCommits(c) PROVE WritesPlaced'
  BY <1>11, NoneIsNoClient, MaxLeasesIsNatural
  DEF FinishCommits, Becomes, Quits, TxRow, TxInv, TxTypeOK, WritesPlaced, HasInserted,
      LocksHeld, InProject, HasRun
<1>12. ASSUME NEW c \in Clients, Release(c) PROVE WritesPlaced'
  BY <1>12, NoneIsNoClient
  DEF Release, locks, TxRow, TxInv, TxTypeOK, WritesPlaced, HasInserted, LocksHeld,
      InProject, HasRun
<1>13. CASE Expire
  BY <1>13
  DEF Expire, locks, TxRow, TxInv, TxTypeOK, WritesPlaced, HasInserted, LocksHeld, InProject,
      HasRun
<1>14. CASE UNCHANGED txVars
  BY <1>14
  DEF txVars, Becomes, TxRow, TxInv, TxTypeOK, WritesPlaced, HasInserted, LocksHeld,
      InProject, HasRun
<1>15. QED
  BY <1>1, <1>2, <1>3, <1>4, <1>5, <1>6, <1>7, <1>8, <1>9, <1>10, <1>11, <1>12, <1>13, <1>14, StepCases
  DEF TxInv

LEMMA FreshIdsStep ==
  ASSUME TxInv, [TxNext]_txVars
  PROVE  FreshIds'
<1>1. ASSUME NEW c \in Clients, ClaimBegins(c) PROVE FreshIds'
  BY <1>1, NoneIsNoClient, MaxLeasesIsNatural
  DEF ClaimBegins, Becomes, Opens, TxRow, TxInv, TxTypeOK, FreshIds, HasInserted, IdsIssued,
      LocksHeld, InProject, WritesPlaced
<1>2. ASSUME NEW c \in Clients, ProjectLocks(c) PROVE FreshIds'
  BY <1>2, NoneIsNoClient, MaxLeasesIsNatural
  DEF ProjectLocks, Becomes, Proceeds, TxRow, TxInv, TxTypeOK, FreshIds, HasInserted,
      IdsIssued, LocksHeld, InProject, WritesPlaced
<1>3. ASSUME NEW c \in Clients, ClaimStarts(c) PROVE FreshIds'
  BY <1>3, NoneIsNoClient, MaxLeasesIsNatural
  DEF ClaimStarts, Becomes, Proceeds, Quits, TxRow, TxInv, TxTypeOK, FreshIds, HasInserted,
      IdsIssued, LocksHeld, InProject, WritesPlaced
<1>4. ASSUME NEW c \in Clients, LeaseInserts(c) PROVE FreshIds'
  BY <1>4, NoneIsNoClient, MaxLeasesIsNatural
  DEF LeaseInserts, LeaseWritten, Becomes, Quits, TxRow, TxInv, TxTypeOK, FreshIds,
      HasInserted, IdsIssued, LocksHeld, InProject, WritesPlaced
<1>5. ASSUME NEW c \in Clients, RunClaims(c) PROVE FreshIds'
  BY <1>5, NoneIsNoClient, MaxLeasesIsNatural
  DEF RunClaims, Becomes, Proceeds, TxRow, TxInv, TxTypeOK, FreshIds, HasInserted, IdsIssued,
      LocksHeld, InProject, WritesPlaced
<1>6. ASSUME NEW c \in Clients, ClaimCommits(c) PROVE FreshIds'
  BY <1>6, NoneIsNoClient, MaxLeasesIsNatural
  DEF ClaimCommits, Becomes, Quits, TxRow, TxInv, TxTypeOK, FreshIds, HasInserted, IdsIssued,
      LocksHeld, InProject, WritesPlaced
<1>7. ASSUME NEW c \in Clients, FinishBegins(c) PROVE FreshIds'
  BY <1>7, NoneIsNoClient, MaxLeasesIsNatural
  DEF FinishBegins, Becomes, Opens, TxRow, TxInv, TxTypeOK, FreshIds, HasInserted, IdsIssued,
      LocksHeld, InProject, WritesPlaced
<1>8. ASSUME NEW c \in Clients, LeaseDeletes(c) PROVE FreshIds'
  BY <1>8, NoneIsNoClient, MaxLeasesIsNatural
  DEF LeaseDeletes, Becomes, Proceeds, TxRow, TxInv, TxTypeOK, FreshIds, HasInserted,
      IdsIssued, LocksHeld, InProject, WritesPlaced
<1>9. ASSUME NEW c \in Clients, EndStarts(c) PROVE FreshIds'
  BY <1>9, NoneIsNoClient, MaxLeasesIsNatural
  DEF EndStarts, Becomes, Proceeds, TxRow, TxInv, TxTypeOK, FreshIds, HasInserted, IdsIssued,
      LocksHeld, InProject, WritesPlaced
<1>10. ASSUME NEW c \in Clients, RunEnds(c) PROVE FreshIds'
  BY <1>10, NoneIsNoClient, MaxLeasesIsNatural
  DEF RunEnds, Becomes, Proceeds, TxRow, TxInv, TxTypeOK, FreshIds, HasInserted, IdsIssued,
      LocksHeld, InProject, WritesPlaced
<1>11. ASSUME NEW c \in Clients, FinishCommits(c) PROVE FreshIds'
  BY <1>11, NoneIsNoClient, MaxLeasesIsNatural
  DEF FinishCommits, Becomes, Quits, TxRow, TxInv, TxTypeOK, FreshIds, HasInserted,
      IdsIssued, LocksHeld, InProject, WritesPlaced
<1>12. ASSUME NEW c \in Clients, Release(c) PROVE FreshIds'
  BY <1>12, NoneIsNoClient
  DEF Release, locks, TxRow, TxInv, TxTypeOK, FreshIds, HasInserted, IdsIssued, LocksHeld,
      InProject, WritesPlaced
<1>13. CASE Expire
  BY <1>13
  DEF Expire, locks, TxRow, TxInv, TxTypeOK, FreshIds, HasInserted, IdsIssued, LocksHeld,
      InProject, WritesPlaced
<1>14. CASE UNCHANGED txVars
  BY <1>14
  DEF txVars, Becomes, TxRow, TxInv, TxTypeOK, FreshIds, HasInserted, IdsIssued, LocksHeld,
      InProject, WritesPlaced
<1>15. QED
  BY <1>1, <1>2, <1>3, <1>4, <1>5, <1>6, <1>7, <1>8, <1>9, <1>10, <1>11, <1>12, <1>13, <1>14, StepCases
  DEF TxInv

LEMMA PastIsPastStep ==
  ASSUME TxInv, [TxNext]_txVars
  PROVE  PastIsPast'
<1>1. ASSUME NEW c \in Clients, ClaimBegins(c) PROVE PastIsPast'
  BY <1>1, NoneIsNoClient, MaxLeasesIsNatural
  DEF ClaimBegins, Becomes, Opens, TxRow, TxInv, TxTypeOK, PastIsPast, FreshIds, HasInserted,
      IdsIssued
<1>2. ASSUME NEW c \in Clients, ProjectLocks(c) PROVE PastIsPast'
  BY <1>2, NoneIsNoClient, MaxLeasesIsNatural
  DEF ProjectLocks, Becomes, Proceeds, TxRow, TxInv, TxTypeOK, PastIsPast, FreshIds,
      HasInserted, IdsIssued
<1>3. ASSUME NEW c \in Clients, ClaimStarts(c) PROVE PastIsPast'
  BY <1>3, NoneIsNoClient, MaxLeasesIsNatural
  DEF ClaimStarts, Becomes, Proceeds, Quits, TxRow, TxInv, TxTypeOK, PastIsPast, FreshIds,
      HasInserted, IdsIssued
<1>4. ASSUME NEW c \in Clients, LeaseInserts(c) PROVE PastIsPast'
  BY <1>4, NoneIsNoClient, MaxLeasesIsNatural
  DEF LeaseInserts, LeaseWritten, Becomes, Quits, TxRow, TxInv, TxTypeOK, PastIsPast,
      FreshIds, HasInserted, IdsIssued
<1>5. ASSUME NEW c \in Clients, RunClaims(c) PROVE PastIsPast'
  BY <1>5, NoneIsNoClient, MaxLeasesIsNatural
  DEF RunClaims, Becomes, Proceeds, TxRow, TxInv, TxTypeOK, PastIsPast, FreshIds,
      HasInserted, IdsIssued
<1>6. ASSUME NEW c \in Clients, ClaimCommits(c) PROVE PastIsPast'
  BY <1>6, NoneIsNoClient, MaxLeasesIsNatural
  DEF ClaimCommits, Becomes, Quits, TxRow, TxInv, TxTypeOK, PastIsPast, FreshIds,
      HasInserted, IdsIssued
<1>7. ASSUME NEW c \in Clients, FinishBegins(c) PROVE PastIsPast'
  BY <1>7, NoneIsNoClient, MaxLeasesIsNatural
  DEF FinishBegins, Becomes, Opens, TxRow, TxInv, TxTypeOK, PastIsPast, FreshIds,
      HasInserted, IdsIssued
<1>8. ASSUME NEW c \in Clients, LeaseDeletes(c) PROVE PastIsPast'
  BY <1>8, NoneIsNoClient, MaxLeasesIsNatural
  DEF LeaseDeletes, Becomes, Proceeds, TxRow, TxInv, TxTypeOK, PastIsPast, FreshIds,
      HasInserted, IdsIssued
<1>9. ASSUME NEW c \in Clients, EndStarts(c) PROVE PastIsPast'
  BY <1>9, NoneIsNoClient, MaxLeasesIsNatural
  DEF EndStarts, Becomes, Proceeds, TxRow, TxInv, TxTypeOK, PastIsPast, FreshIds,
      HasInserted, IdsIssued
<1>10. ASSUME NEW c \in Clients, RunEnds(c) PROVE PastIsPast'
  BY <1>10, NoneIsNoClient, MaxLeasesIsNatural
  DEF RunEnds, Becomes, Proceeds, TxRow, TxInv, TxTypeOK, PastIsPast, FreshIds, HasInserted,
      IdsIssued
<1>11. ASSUME NEW c \in Clients, FinishCommits(c) PROVE PastIsPast'
  BY <1>11, NoneIsNoClient, MaxLeasesIsNatural
  DEF FinishCommits, Becomes, Quits, TxRow, TxInv, TxTypeOK, PastIsPast, FreshIds,
      HasInserted, IdsIssued
<1>12. ASSUME NEW c \in Clients, Release(c) PROVE PastIsPast'
  BY <1>12, NoneIsNoClient
  DEF Release, locks, TxRow, TxInv, TxTypeOK, PastIsPast, FreshIds, HasInserted, IdsIssued
<1>13. CASE Expire
  BY <1>13
  DEF Expire, locks, TxRow, TxInv, TxTypeOK, PastIsPast, FreshIds, HasInserted, IdsIssued
<1>14. CASE UNCHANGED txVars
  BY <1>14
  DEF txVars, Becomes, TxRow, TxInv, TxTypeOK, PastIsPast, FreshIds, HasInserted, IdsIssued
<1>15. QED
  BY <1>1, <1>2, <1>3, <1>4, <1>5, <1>6, <1>7, <1>8, <1>9, <1>10, <1>11, <1>12, <1>13, <1>14, StepCases
  DEF TxInv

LEMMA InsertsOverDeadStep ==
  ASSUME TxInv, [TxNext]_txVars
  PROVE  InsertsOverDead'
<1>1. ASSUME NEW c \in Clients, ClaimBegins(c) PROVE InsertsOverDead'
  BY <1>1, NoneIsNoClient, MaxLeasesIsNatural
  DEF ClaimBegins, Becomes, Opens, TxRow, TxInv, TxTypeOK, InsertsOverDead, HasInserted,
      PastIsPast, LocksHeld, WritesPlaced, InProject
<1>2. ASSUME NEW c \in Clients, ProjectLocks(c) PROVE InsertsOverDead'
  BY <1>2, NoneIsNoClient, MaxLeasesIsNatural
  DEF ProjectLocks, Becomes, Proceeds, TxRow, TxInv, TxTypeOK, InsertsOverDead, HasInserted,
      PastIsPast, LocksHeld, WritesPlaced, InProject
<1>3. ASSUME NEW c \in Clients, ClaimStarts(c) PROVE InsertsOverDead'
  BY <1>3, NoneIsNoClient, MaxLeasesIsNatural
  DEF ClaimStarts, Becomes, Proceeds, Quits, TxRow, TxInv, TxTypeOK, InsertsOverDead,
      HasInserted, PastIsPast, LocksHeld, WritesPlaced, InProject
<1>4. ASSUME NEW c \in Clients, LeaseInserts(c) PROVE InsertsOverDead'
  BY <1>4, NoneIsNoClient, MaxLeasesIsNatural
  DEF LeaseInserts, LeaseWritten, Becomes, Quits, TxRow, TxInv, TxTypeOK, InsertsOverDead,
      HasInserted, PastIsPast, LocksHeld, WritesPlaced, InProject
<1>5. ASSUME NEW c \in Clients, RunClaims(c) PROVE InsertsOverDead'
  BY <1>5, NoneIsNoClient, MaxLeasesIsNatural
  DEF RunClaims, Becomes, Proceeds, TxRow, TxInv, TxTypeOK, InsertsOverDead, HasInserted,
      PastIsPast, LocksHeld, WritesPlaced, InProject
<1>6. ASSUME NEW c \in Clients, ClaimCommits(c) PROVE InsertsOverDead'
  BY <1>6, NoneIsNoClient, MaxLeasesIsNatural
  DEF ClaimCommits, Becomes, Quits, TxRow, TxInv, TxTypeOK, InsertsOverDead, HasInserted,
      PastIsPast, LocksHeld, WritesPlaced, InProject
<1>7. ASSUME NEW c \in Clients, FinishBegins(c) PROVE InsertsOverDead'
  BY <1>7, NoneIsNoClient, MaxLeasesIsNatural
  DEF FinishBegins, Becomes, Opens, TxRow, TxInv, TxTypeOK, InsertsOverDead, HasInserted,
      PastIsPast, LocksHeld, WritesPlaced, InProject
<1>8. ASSUME NEW c \in Clients, LeaseDeletes(c) PROVE InsertsOverDead'
  BY <1>8, NoneIsNoClient, MaxLeasesIsNatural
  DEF LeaseDeletes, Becomes, Proceeds, TxRow, TxInv, TxTypeOK, InsertsOverDead, HasInserted,
      PastIsPast, LocksHeld, WritesPlaced, InProject
<1>9. ASSUME NEW c \in Clients, EndStarts(c) PROVE InsertsOverDead'
  BY <1>9, NoneIsNoClient, MaxLeasesIsNatural
  DEF EndStarts, Becomes, Proceeds, TxRow, TxInv, TxTypeOK, InsertsOverDead, HasInserted,
      PastIsPast, LocksHeld, WritesPlaced, InProject
<1>10. ASSUME NEW c \in Clients, RunEnds(c) PROVE InsertsOverDead'
  BY <1>10, NoneIsNoClient, MaxLeasesIsNatural
  DEF RunEnds, Becomes, Proceeds, TxRow, TxInv, TxTypeOK, InsertsOverDead, HasInserted,
      PastIsPast, LocksHeld, WritesPlaced, InProject
<1>11. ASSUME NEW c \in Clients, FinishCommits(c) PROVE InsertsOverDead'
  BY <1>11, NoneIsNoClient, MaxLeasesIsNatural
  DEF FinishCommits, Becomes, Quits, TxRow, TxInv, TxTypeOK, InsertsOverDead, HasInserted,
      PastIsPast, LocksHeld, WritesPlaced, InProject
<1>12. ASSUME NEW c \in Clients, Release(c) PROVE InsertsOverDead'
  BY <1>12, NoneIsNoClient
  DEF Release, locks, TxRow, TxInv, TxTypeOK, InsertsOverDead, HasInserted, PastIsPast,
      LocksHeld, WritesPlaced, InProject
<1>13. CASE Expire
  BY <1>13
  DEF Expire, locks, TxRow, TxInv, TxTypeOK, InsertsOverDead, HasInserted, PastIsPast,
      LocksHeld, WritesPlaced, InProject
<1>14. CASE UNCHANGED txVars
  BY <1>14
  DEF txVars, Becomes, TxRow, TxInv, TxTypeOK, InsertsOverDead, HasInserted, PastIsPast,
      LocksHeld, WritesPlaced, InProject
<1>15. QED
  BY <1>1, <1>2, <1>3, <1>4, <1>5, <1>6, <1>7, <1>8, <1>9, <1>10, <1>11, <1>12, <1>13, <1>14, StepCases
  DEF TxInv

LEMMA HeldRunsOpenStep ==
  ASSUME TxInv, [TxNext]_txVars
  PROVE  HeldRunsOpen'
<1>1. ASSUME NEW c \in Clients, ClaimBegins(c) PROVE HeldRunsOpen'
  BY <1>1, NoneIsNoClient, MaxLeasesIsNatural
  DEF ClaimBegins, Becomes, Opens, TxRow, TxInv, TxTypeOK, HeldRunsOpen, LocksHeld, HasRun
<1>2. ASSUME NEW c \in Clients, ProjectLocks(c) PROVE HeldRunsOpen'
  BY <1>2, NoneIsNoClient, MaxLeasesIsNatural
  DEF ProjectLocks, Becomes, Proceeds, TxRow, TxInv, TxTypeOK, HeldRunsOpen, LocksHeld, HasRun
<1>3. ASSUME NEW c \in Clients, ClaimStarts(c) PROVE HeldRunsOpen'
  BY <1>3, NoneIsNoClient, MaxLeasesIsNatural
  DEF ClaimStarts, Becomes, Proceeds, Quits, TxRow, TxInv, TxTypeOK, HeldRunsOpen, LocksHeld,
      HasRun
<1>4. ASSUME NEW c \in Clients, LeaseInserts(c) PROVE HeldRunsOpen'
  BY <1>4, NoneIsNoClient, MaxLeasesIsNatural
  DEF LeaseInserts, LeaseWritten, Becomes, Quits, TxRow, TxInv, TxTypeOK, HeldRunsOpen,
      LocksHeld, HasRun
<1>5. ASSUME NEW c \in Clients, RunClaims(c) PROVE HeldRunsOpen'
  BY <1>5, NoneIsNoClient, MaxLeasesIsNatural
  DEF RunClaims, Becomes, Proceeds, TxRow, TxInv, TxTypeOK, HeldRunsOpen, LocksHeld, HasRun
<1>6. ASSUME NEW c \in Clients, ClaimCommits(c) PROVE HeldRunsOpen'
  BY <1>6, NoneIsNoClient, MaxLeasesIsNatural
  DEF ClaimCommits, Becomes, Quits, TxRow, TxInv, TxTypeOK, HeldRunsOpen, LocksHeld, HasRun
<1>7. ASSUME NEW c \in Clients, FinishBegins(c) PROVE HeldRunsOpen'
  BY <1>7, NoneIsNoClient, MaxLeasesIsNatural
  DEF FinishBegins, Becomes, Opens, TxRow, TxInv, TxTypeOK, HeldRunsOpen, LocksHeld, HasRun
<1>8. ASSUME NEW c \in Clients, LeaseDeletes(c) PROVE HeldRunsOpen'
  BY <1>8, NoneIsNoClient, MaxLeasesIsNatural
  DEF LeaseDeletes, Becomes, Proceeds, TxRow, TxInv, TxTypeOK, HeldRunsOpen, LocksHeld, HasRun
<1>9. ASSUME NEW c \in Clients, EndStarts(c) PROVE HeldRunsOpen'
  BY <1>9, NoneIsNoClient, MaxLeasesIsNatural
  DEF EndStarts, Becomes, Proceeds, TxRow, TxInv, TxTypeOK, HeldRunsOpen, LocksHeld, HasRun
<1>10. ASSUME NEW c \in Clients, RunEnds(c) PROVE HeldRunsOpen'
  BY <1>10, NoneIsNoClient, MaxLeasesIsNatural
  DEF RunEnds, Becomes, Proceeds, TxRow, TxInv, TxTypeOK, HeldRunsOpen, LocksHeld, HasRun
<1>11. ASSUME NEW c \in Clients, FinishCommits(c) PROVE HeldRunsOpen'
  BY <1>11, NoneIsNoClient, MaxLeasesIsNatural
  DEF FinishCommits, Becomes, Quits, TxRow, TxInv, TxTypeOK, HeldRunsOpen, LocksHeld, HasRun
<1>12. ASSUME NEW c \in Clients, Release(c) PROVE HeldRunsOpen'
  BY <1>12, NoneIsNoClient
  DEF Release, locks, TxRow, TxInv, TxTypeOK, HeldRunsOpen, LocksHeld, HasRun
<1>13. CASE Expire
  BY <1>13 DEF Expire, locks, TxRow, TxInv, TxTypeOK, HeldRunsOpen, LocksHeld, HasRun
<1>14. CASE UNCHANGED txVars
  BY <1>14 DEF txVars, Becomes, TxRow, TxInv, TxTypeOK, HeldRunsOpen, LocksHeld, HasRun
<1>15. QED
  BY <1>1, <1>2, <1>3, <1>4, <1>5, <1>6, <1>7, <1>8, <1>9, <1>10, <1>11, <1>12, <1>13, <1>14, StepCases
  DEF TxInv

\* The claims still to make up an id: one more, one less or the same.
LEMMA ClaimingChanges ==
  ASSUME TxTypeOK, IdsIssued, NEW c \in Clients,
         \A d \in Clients \ {c} : tx'[d].pc = tx[d].pc
  PROVE  /\ IsFiniteSet(Claiming')
         /\ tx[c].pc = "closed" /\ tx'[c].pc = "project" =>
               Cardinality(Claiming') = Cardinality(Claiming) + 1
         /\ tx[c].pc \in {"claim", "insert"} /\ tx'[c].pc \notin {"project", "claim", "insert"} =>
               Cardinality(Claiming') + 1 = Cardinality(Claiming)
         /\ (tx[c].pc \in {"project", "claim", "insert"} <=> tx'[c].pc \in {"project", "claim", "insert"}) =>
               Claiming' = Claiming
<1>0. IsFiniteSet(Claiming) /\ Cardinality(Claiming) \in Nat
  BY FS_CardinalityType DEF IdsIssued
<1>1. CASE tx[c].pc \notin {"project", "claim", "insert"} /\ tx'[c].pc \in {"project", "claim", "insert"}
  <2>1. Claiming' = Claiming \cup {c} /\ c \notin Claiming
    BY <1>1 DEF Claiming
  <2>2. QED
    BY <1>0, <1>1, <2>1, FS_AddElement
<1>2. CASE tx[c].pc \in {"project", "claim", "insert"} /\ tx'[c].pc \notin {"project", "claim", "insert"}
  <2>1. Claiming' = Claiming \ {c} /\ c \in Claiming
    BY <1>2 DEF Claiming
  <2>2. IsFiniteSet(Claiming') /\ Cardinality(Claiming') = Cardinality(Claiming) - 1
    BY <1>0, <2>1, FS_RemoveElement
  <2>3. QED
    BY <1>0, <1>2, <2>2
<1>3. CASE tx[c].pc \in {"project", "claim", "insert"} <=> tx'[c].pc \in {"project", "claim", "insert"}
  <2>1. Claiming' = Claiming
    BY <1>3 DEF Claiming
  <2>2. QED
    BY <1>0, <1>3, <2>1
<1>4. QED
  BY <1>1, <1>2, <1>3

LEMMA IdsIssuedStep ==
  ASSUME TxInv, [TxNext]_txVars
  PROVE  IdsIssued'
<1>0. TxTypeOK /\ IdsIssued /\ issued \in Nat /\ Cardinality(Claiming) \in Nat
  BY FS_CardinalityType DEF TxInv, TxTypeOK, IdsIssued
<1>1. ASSUME NEW c \in Clients, ClaimBegins(c) PROVE IdsIssued'
  <2>1. \A d \in Clients \ {c} : tx'[d] = tx[d]
    BY <1>1 DEF ClaimBegins, Becomes, Proceeds, Opens, Quits
  <2>2. IsFiniteSet(Claiming') /\ issued' + Cardinality(Claiming') <= MaxLeases
    BY <1>0, <1>1, <2>1, ClaimingChanges, MaxLeasesIsNatural
    DEF ClaimBegins, Becomes, Proceeds, Opens, Quits, IdsIssued
  <2>3. QED
    BY <1>0, <1>1, <2>1, <2>2
    DEF ClaimBegins, Becomes, Proceeds, Opens, Quits, IdsIssued, HasInserted, TxRow,
        TxTypeOK
<1>2. ASSUME NEW c \in Clients, ProjectLocks(c) PROVE IdsIssued'
  <2>1. \A d \in Clients \ {c} : tx'[d] = tx[d]
    BY <1>2 DEF ProjectLocks, Becomes, Proceeds, Opens, Quits
  <2>2. IsFiniteSet(Claiming') /\ issued' + Cardinality(Claiming') <= MaxLeases
    BY <1>0, <1>2, <2>1, ClaimingChanges, MaxLeasesIsNatural
    DEF ProjectLocks, Becomes, Proceeds, Opens, Quits, IdsIssued
  <2>3. QED
    BY <1>0, <1>2, <2>1, <2>2
    DEF ProjectLocks, Becomes, Proceeds, Opens, Quits, IdsIssued, HasInserted, TxRow,
        TxTypeOK
<1>3. ASSUME NEW c \in Clients, ClaimStarts(c) PROVE IdsIssued'
  <2>1. \A d \in Clients \ {c} : tx'[d] = tx[d]
    BY <1>3 DEF ClaimStarts, Becomes, Proceeds, Opens, Quits
  <2>2. IsFiniteSet(Claiming') /\ issued' + Cardinality(Claiming') <= MaxLeases
    <3>1. CASE Quits(c)
      <4>1. tx[c].pc = "claim" /\ tx'[c].pc = "closed" /\ issued' = issued
        BY <1>3, <3>1 DEF ClaimStarts, Quits, Becomes
      <4>2. IsFiniteSet(Claiming') /\ Cardinality(Claiming') + 1 = Cardinality(Claiming)
        BY <1>0, <2>1, <4>1, ClaimingChanges
      <4>3. Cardinality(Claiming') \in Nat
        BY <4>2, FS_CardinalityType
      <4>4. QED
        BY <1>0, <4>1, <4>2, <4>3, MaxLeasesIsNatural DEF IdsIssued
    <3>2. CASE tx'[c].pc = "insert"
      <4>1. tx[c].pc = "claim" /\ issued' = issued
        BY <1>3 DEF ClaimStarts
      <4>2. Claiming' = Claiming
        BY <1>0, <2>1, <3>2, <4>1, ClaimingChanges
      <4>3. QED
        BY <1>0, <4>1, <4>2 DEF IdsIssued
    <3>3. QED
      BY <1>3, <3>1, <3>2 DEF ClaimStarts, Proceeds, Becomes
  <2>3. QED
    BY <1>0, <1>3, <2>1, <2>2
    DEF ClaimStarts, Becomes, Proceeds, Opens, Quits, IdsIssued, HasInserted, TxRow,
        TxTypeOK
<1>4. ASSUME NEW c \in Clients, LeaseInserts(c) PROVE IdsIssued'
  <2>1. \A d \in Clients \ {c} : tx'[d] = tx[d]
    BY <1>4 DEF LeaseInserts, LeaseWritten, Becomes, Proceeds, Opens, Quits
  <2>2. IsFiniteSet(Claiming') /\ issued' + Cardinality(Claiming') <= MaxLeases
    <3>1. /\ tx[c].pc = "insert"
          /\ tx'[c].pc \in {"closed", "claimRun"}
          /\ issued' \in {issued, issued + 1}
      BY <1>4 DEF LeaseInserts, LeaseWritten, Quits, Becomes
    <3>2. IsFiniteSet(Claiming') /\ Cardinality(Claiming') + 1 = Cardinality(Claiming)
      BY <1>0, <2>1, <3>1, ClaimingChanges
    <3>3. Cardinality(Claiming') \in Nat
      BY <3>2, FS_CardinalityType
    <3>4. QED
      BY <1>0, <3>1, <3>2, <3>3, MaxLeasesIsNatural DEF IdsIssued
  <2>3. QED
    BY <1>0, <1>4, <2>1, <2>2
    DEF LeaseInserts, LeaseWritten, Becomes, Proceeds, Opens, Quits, IdsIssued, HasInserted,
        TxRow, TxTypeOK
<1>5. ASSUME NEW c \in Clients, RunClaims(c) PROVE IdsIssued'
  <2>1. \A d \in Clients \ {c} : tx'[d] = tx[d]
    BY <1>5 DEF RunClaims, Becomes, Proceeds, Opens, Quits
  <2>2. IsFiniteSet(Claiming') /\ issued' + Cardinality(Claiming') <= MaxLeases
    BY <1>0, <1>5, <2>1, ClaimingChanges, MaxLeasesIsNatural
    DEF RunClaims, Becomes, Proceeds, Opens, Quits, IdsIssued
  <2>3. QED
    BY <1>0, <1>5, <2>1, <2>2
    DEF RunClaims, Becomes, Proceeds, Opens, Quits, IdsIssued, HasInserted, TxRow, TxTypeOK
<1>6. ASSUME NEW c \in Clients, ClaimCommits(c) PROVE IdsIssued'
  <2>1. \A d \in Clients \ {c} : tx'[d] = tx[d]
    BY <1>6 DEF ClaimCommits, Becomes, Proceeds, Opens, Quits
  <2>2. IsFiniteSet(Claiming') /\ issued' + Cardinality(Claiming') <= MaxLeases
    BY <1>0, <1>6, <2>1, ClaimingChanges, MaxLeasesIsNatural
    DEF ClaimCommits, Becomes, Proceeds, Opens, Quits, IdsIssued
  <2>3. QED
    BY <1>0, <1>6, <2>1, <2>2
    DEF ClaimCommits, Becomes, Proceeds, Opens, Quits, IdsIssued, HasInserted, TxRow,
        TxTypeOK
<1>7. ASSUME NEW c \in Clients, FinishBegins(c) PROVE IdsIssued'
  <2>1. \A d \in Clients \ {c} : tx'[d] = tx[d]
    BY <1>7 DEF FinishBegins, Becomes, Proceeds, Opens, Quits
  <2>2. IsFiniteSet(Claiming') /\ issued' + Cardinality(Claiming') <= MaxLeases
    BY <1>0, <1>7, <2>1, ClaimingChanges, MaxLeasesIsNatural
    DEF FinishBegins, Becomes, Proceeds, Opens, Quits, IdsIssued
  <2>3. QED
    BY <1>0, <1>7, <2>1, <2>2
    DEF FinishBegins, Becomes, Proceeds, Opens, Quits, IdsIssued, HasInserted, TxRow,
        TxTypeOK
<1>8. ASSUME NEW c \in Clients, LeaseDeletes(c) PROVE IdsIssued'
  <2>1. \A d \in Clients \ {c} : tx'[d] = tx[d]
    BY <1>8 DEF LeaseDeletes, Becomes, Proceeds, Opens, Quits
  <2>2. IsFiniteSet(Claiming') /\ issued' + Cardinality(Claiming') <= MaxLeases
    BY <1>0, <1>8, <2>1, ClaimingChanges, MaxLeasesIsNatural
    DEF LeaseDeletes, Becomes, Proceeds, Opens, Quits, IdsIssued
  <2>3. QED
    BY <1>0, <1>8, <2>1, <2>2
    DEF LeaseDeletes, Becomes, Proceeds, Opens, Quits, IdsIssued, HasInserted, TxRow,
        TxTypeOK
<1>9. ASSUME NEW c \in Clients, EndStarts(c) PROVE IdsIssued'
  <2>1. \A d \in Clients \ {c} : tx'[d] = tx[d]
    BY <1>9 DEF EndStarts, Becomes, Proceeds, Opens, Quits
  <2>2. IsFiniteSet(Claiming') /\ issued' + Cardinality(Claiming') <= MaxLeases
    BY <1>0, <1>9, <2>1, ClaimingChanges, MaxLeasesIsNatural
    DEF EndStarts, Becomes, Proceeds, Opens, Quits, IdsIssued
  <2>3. QED
    BY <1>0, <1>9, <2>1, <2>2
    DEF EndStarts, Becomes, Proceeds, Opens, Quits, IdsIssued, HasInserted, TxRow, TxTypeOK
<1>10. ASSUME NEW c \in Clients, RunEnds(c) PROVE IdsIssued'
  <2>1. \A d \in Clients \ {c} : tx'[d] = tx[d]
    BY <1>10 DEF RunEnds, Becomes, Proceeds, Opens, Quits
  <2>2. IsFiniteSet(Claiming') /\ issued' + Cardinality(Claiming') <= MaxLeases
    BY <1>0, <1>10, <2>1, ClaimingChanges, MaxLeasesIsNatural
    DEF RunEnds, Becomes, Proceeds, Opens, Quits, IdsIssued
  <2>3. QED
    BY <1>0, <1>10, <2>1, <2>2
    DEF RunEnds, Becomes, Proceeds, Opens, Quits, IdsIssued, HasInserted, TxRow, TxTypeOK
<1>11. ASSUME NEW c \in Clients, FinishCommits(c) PROVE IdsIssued'
  <2>1. \A d \in Clients \ {c} : tx'[d] = tx[d]
    BY <1>11 DEF FinishCommits, Becomes, Proceeds, Opens, Quits
  <2>2. IsFiniteSet(Claiming') /\ issued' + Cardinality(Claiming') <= MaxLeases
    BY <1>0, <1>11, <2>1, ClaimingChanges, MaxLeasesIsNatural
    DEF FinishCommits, Becomes, Proceeds, Opens, Quits, IdsIssued
  <2>3. QED
    BY <1>0, <1>11, <2>1, <2>2
    DEF FinishCommits, Becomes, Proceeds, Opens, Quits, IdsIssued, HasInserted, TxRow,
        TxTypeOK
<1>12. ASSUME NEW c \in Clients, Release(c) PROVE IdsIssued'
  BY <1>0, <1>12 DEF Release, locks, IdsIssued, HasInserted, Claiming
<1>13. CASE Expire
  BY <1>0, <1>13 DEF Expire, locks, IdsIssued, HasInserted, Claiming
<1>14. CASE UNCHANGED txVars
  BY <1>0, <1>14 DEF txVars, IdsIssued, HasInserted, Claiming
<1>15. QED
  BY <1>0, <1>1, <1>2, <1>3, <1>4, <1>5, <1>6, <1>7, <1>8, <1>9, <1>10, <1>11, <1>12, <1>13, <1>14, StepCases

LEMMA TxInvStep == TxInv /\ [TxNext]_txVars => TxInv'
BY TxTypeOKStep, LocksHeldStep, WritesPlacedStep, IdsIssuedStep, FreshIdsStep, PastIsPastStep,
   InsertsOverDeadStep, HeldRunsOpenStep
DEF TxInv

LEMMA TxInvInit == TxInit => TxInv
<1> SUFFICES ASSUME TxInit PROVE TxInv
  OBVIOUS
<1>1. TxTypeOK
  <2>1. Closed \in TxRow /\ Closed.pc = "closed"
    BY MaxLeasesIsNatural DEF TxRow, Closed, TxPhase
  <2>2. tx \in [Clients -> TxRow]
    BY <2>1 DEF TxInit
  <2>3. \A c \in Clients : c \notin {projectLock, leaseLock, runLock}
    BY NoneIsNoClient DEF TxInit
  <2>4. /\ row \in 0..issued
        /\ issued \in 0..MaxLeases
        /\ granted \subseteq 1..issued
    BY MaxLeasesIsNatural DEF TxInit
  <2>5. /\ ended \in BOOLEAN /\ live \in BOOLEAN /\ (live => row # 0)
        /\ projectLock \in Locks /\ leaseLock \in Locks /\ runLock \in Locks
    BY DEF TxInit, Locks
  <2>6. QED
    BY <2>2, <2>3, <2>4, <2>5 DEF TxTypeOK, TxRow
<1>2. LocksHeld /\ WritesPlaced /\ FreshIds /\ PastIsPast /\ InsertsOverDead /\ HeldRunsOpen
  BY NoneIsNoClient
  DEF TxInit, Closed, LocksHeld, WritesPlaced, FreshIds, PastIsPast, InsertsOverDead,
      HeldRunsOpen, InProject, HasInserted, HasRun
<1>3. IdsIssued
  <2>1. Claiming = {}
    BY DEF TxInit, Claiming, Closed
  <2>2. QED
    BY <2>1, FS_EmptySet, MaxLeasesIsNatural DEF TxInit, IdsIssued, Closed, HasInserted
<1>4. QED
  BY <1>1, <1>2, <1>3 DEF TxInv

-----------------------------------------------------------------------------
(* Theorems *)

\* The locks are held by those who wrote, the ids are made up once, and what waits
\* for a commit overwrites nothing alive.
THEOREM LocksAndRowsAgree == TxSpec => []TxInv
BY TxInvInit, TxInvStep, PTL DEF TxSpec

\* LiveRowKept: beginRun's insert on conflict never replaces a lease row that is
\* still live, whichever statements of other claims, finishes and releases come
\* between its own.
THEOREM LiveRowsAreKept == TxSpec => LiveRowKept
<1>1. ASSUME TxInv, [TxNext]_txVars PROVE TxTypeOK /\ (live => row' \in {row, 0})
  <2>1. ASSUME UNCHANGED row PROVE TxTypeOK /\ (live => row' \in {row, 0})
    BY <1>1, <2>1 DEF TxInv
  <2>2. ASSUME NEW c \in Clients, ClaimCommits(c) PROVE TxTypeOK /\ (live => row' \in {row, 0})
    BY <1>1, <2>2 DEF ClaimCommits, TxInv, InsertsOverDead, HasInserted
  <2>3. ASSUME NEW c \in Clients, FinishCommits(c) PROVE TxTypeOK /\ (live => row' \in {row, 0})
    BY <1>1, <2>3 DEF FinishCommits, TxInv
  <2>4. ASSUME NEW c \in Clients, Release(c) PROVE TxTypeOK /\ (live => row' \in {row, 0})
    BY <1>1, <2>4 DEF Release, TxInv
  <2>5. QED
    BY <1>1, <2>1, <2>2, <2>3, <2>4, StepCases
    DEF TxInv, Expire, txVars, ClaimBegins, ProjectLocks, ClaimStarts, LeaseInserts,
        LeaseWritten,
        RunClaims, FinishBegins, LeaseDeletes, EndStarts, RunEnds
<1>2. QED
  BY <1>1, LocksAndRowsAgree, PTL DEF TxSpec, LiveRowKept

\* GrantedClaimRuns: when a claim whose update found the run commits, beginRun
\* returns its lease with the row in place and the run not ended.
THEOREM GrantedClaimsRun == TxSpec => GrantedClaimRuns
<1> DEFINE Good == \A c \in Clients :
                      At(c, "commitClaim") /\ tx[c].held /\ ~(tx'[c].pc = "commitClaim") =>
                         row' = tx[c].id /\ ~ended'
<1>1. ASSUME TxInv, [TxNext]_txVars PROVE Good
  <2> SUFFICES ASSUME NEW c \in Clients, At(c, "commitClaim"), tx[c].held,
                      ~(tx'[c].pc = "commitClaim")
               PROVE  row' = tx[c].id /\ ~ended'
    OBVIOUS
  <2>1. ClaimCommits(c)
    <3>1. ASSUME NEW d \in Clients, d # c, tx'[c] = tx[c] PROVE FALSE
      BY <3>1 DEF At
    <3>2. ASSUME tx' = tx PROVE FALSE
      BY <3>2 DEF At
    <3>3. QED
      BY <1>1, <3>1, <3>2, StepCases
      DEF TxInv, At, Expire, Release, txVars, locks, ClaimBegins, ProjectLocks, ClaimStarts,
          LeaseInserts, LeaseWritten, RunClaims, ClaimCommits, FinishBegins, LeaseDeletes,
          EndStarts, RunEnds, FinishCommits, Becomes, Proceeds, Opens, Quits
  <2>2. QED
    BY <1>1, <2>1 DEF ClaimCommits, TxInv, HeldRunsOpen
<1>2. QED
  BY <1>1, LocksAndRowsAgree, PTL DEF TxSpec, GrantedClaimRuns
=============================================================================
