------------------------- MODULE RunExecutionProofs -------------------------
(***************************************************************************)
(* Proofs about RunExecution, for every set of runs, sessions, projects,   *)
(* workers and questions and every value of the bounds: the workers use    *)
(* the store as RunStore says, a project has one driver, a running run can *)
(* be recovered, the ledger agrees with how a run ended, and no edit is    *)
(* lost, over crashes, lost leases, parking and failed snapshots.          *)
(***************************************************************************)
EXTENDS RunExecution, RunStoreProofs, SequenceTheorems

-----------------------------------------------------------------------------
(* The inductive invariant *)

\* An attempt holds its lease from the claim until it ends the run or parks it.
Holding == Phase \ {"idle", "listed", "parkDrop", "lostNote"}

ParkPhase == {"park", "parkSave", "parkPublish", "parkRelease"}

\* Here an attempt knows its run's question.
Conversing == {"claimed", "prepare", "prepareStart", "restore", "start", "driving", "asking"} \cup ParkPhase

Attempt == [pc: Phase, run: Runs \cup {None}, id: Nat, call: Calls \cup {None}, looked: BOOLEAN,
            lost: BOOLEAN, retained: BOOLEAN, sandbox: BOOLEAN, outcome: Outcome \cup {None},
            snap: (SUBSET Tokens) \cup {None}]

WorkSets == SUBSET Tokens

Typed ==
    /\ Len(grants) <= MaxLeases
    /\ att \in [Workers -> Attempt]
    /\ outcomes \in [Runs -> Seq(Outcome)]
    /\ container \in [Sessions -> 0..MaxLeases]
    /\ volume \in [Sessions -> [present: BOOLEAN, work: WorkSets]]
    /\ newest \in [Projects -> WorkSets]
    /\ head \in [Sessions -> [isolated: BOOLEAN, work: WorkSets]]
    /\ saved \in [Projects -> WorkSets]
    /\ edits \in [Sessions -> WorkSets]
    /\ faults \in 0..MaxFaults

\* What an attempt knows of its run's lease row, status and question, and of the ids issued.
LeaseFits(a, w, row, st, q, ids) ==
    /\ a.pc = "idle" <=> a.run = None
    /\ a.pc \in {"idle", "listed"} => a.id = 0
    /\ a.pc \notin {"idle", "listed"} =>
          a.id \in 1..Len(ids) /\ ids[a.id] = [run |-> a.run, holder |-> w]
    /\ a.pc \in Holding => row = [id |-> a.id, live |-> TRUE] /\ st \in Active
    /\ a.pc \in Conversing => a.call = q
    /\ a.pc = "driving" => a.call = None
    /\ a.pc \in ParkPhase \cup {"asking"} => a.call # None
    /\ a.pc = "listed" => st # "absent" /\ (row.live \/ st \in Terminal \/ a.call = q)

LeasesFit ==
    \A w \in Workers :
        LeaseFits(att[w], w, lease[att[w].run], status[att[w].run], question[att[w].run], grants)

\* Nobody has listed a run that is being parked.
ParkedUnlisted ==
    \A v, w \in Workers :
        att[v].pc \in ParkPhase /\ att[w].pc = "listed" => att[w].run # att[v].run

RunningIsLeased == \A r \in Runs : status[r] = "running" => lease[r].id # 0

\* No outcome is on the ledger yet.
Undecided == {"prepare", "prepareStart", "restore", "prepareDrop", "start", "driving", "asking", "record",
              "lostDrop", "lostFinish"} \cup ParkPhase

\* The attempt knows the outcome its run will end with.
Decided == {"recover", "recoverStart", "recoverSave", "recoverPublish", "save", "publish", "drop",
            "remove", "note", "finish"}

Settled == Decided \cup {"recoverClean", "recoverRemove"}

AllAre(os, o) == \A i \in 1..Len(os) : os[i] = o

\* What an attempt knows of the outcomes on its run's ledger, and of its status.
OutcomeFits(a, os, st) ==
    /\ a.pc \in Undecided => os = <<>>
    /\ a.pc \in Decided \cup {"prepareDrop", "record"} => a.outcome # None
    /\ a.pc \in Settled /\ a.outcome # None => AllAre(os, a.outcome)
    /\ a.pc = "lostNote" => st = "failed"

OneOutcome ==
    \A r \in Runs : \A i, j \in 1..Len(outcomes[r]) : outcomes[r][i] = outcomes[r][j]

OutcomesFit ==
    /\ OneOutcome
    /\ OutcomesAgree
    /\ \A w \in Workers : OutcomeFits(att[w], outcomes[att[w].run], status[att[w].run])

\* A snapshot the attempt has taken still holds all of the volume.
Snapped == {"recoverPublish", "recoverClean", "recoverRemove", "publish", "drop", "remove"}

\* What an attempt knows of the work on its session's volume and in its project's
\* checkpoints.
WorkFits(a, work, kept) ==
    /\ a.pc \in {"prepareStart", "restore"} /\ ~a.retained => work = {}
    /\ a.pc \in Snapped /\ a.snap # None => work \subseteq kept
    /\ a.pc \in {"recoverPublish", "publish"} => a.snap # None
    /\ a.snap # None => a.pc \in Snapped \cup {"parkPublish", "parkRelease", "parkDrop", "note", "finish"}

VolumesFit ==
    \A s \in Sessions :
        /\ ~volume[s].present => volume[s].work = {}
        /\ container[s] # 0 => volume[s].present

WorkInv ==
    /\ VolumesFit
    /\ NoWorkLost
    /\ \A w \in Workers :
          WorkFits(att[w], volume[SessionAt(w)].work, saved[ProjectOf[SessionAt(w)]])

ExecInv ==
    /\ IInv
    /\ Typed
    /\ LeasesFit
    /\ ParkedUnlisted
    /\ RunningIsLeased
    /\ OutcomesFit
    /\ WorkInv

-----------------------------------------------------------------------------
(* What an attempt that holds its lease may do next *)

SameCase(a, b) == b.run = a.run /\ b.id = a.id /\ b.call = a.call
SameWork(a, b) == b.outcome = a.outcome /\ b.snap = a.snap /\ b.retained = a.retained

GoesOn(a, b) ==
    /\ SameWork(a, b)
    /\ \/ a.pc \in Holding /\ b.pc = a.pc
       \/ a.pc = "recover" /\ b.pc \in {"recoverStart", "finish"}
       \/ a.pc = "recoverStart" /\ b.pc = "recoverSave"
       \/ a.pc = "recoverPublish" /\ b.pc = "recoverClean"
       \/ a.pc = "recoverClean" /\ b.pc = "recoverRemove"
       \/ a.pc = "recoverRemove" /\ a.outcome # None /\ b.pc = "finish"
       \/ a.pc = "prepareStart" /\ b.pc = "restore"
       \/ a.pc = "restore" /\ b.pc = "start"
       \/ a.pc = "prepareDrop" /\ b.pc = "record"
       \/ a.pc = "start" /\ b.pc = IF a.call = None THEN "driving" ELSE "asking"
       \/ a.pc \in {"start", "driving", "asking"} /\ b.pc = "lostDrop"
       \/ a.pc = "parkSave" /\ b.pc = "parkPublish"
       \/ a.pc = "parkPublish" /\ b.pc = "parkRelease"
       \/ a.pc = "record" /\ b.pc \in {"save", "finish"}
       \/ a.pc \in {"save", "publish"} /\ b.pc = "drop"
       \/ a.pc = "drop" /\ b.pc \in {"note", "remove"}
       \/ a.pc = "remove" /\ b.pc = "note"
       \/ a.pc = "note" /\ b.pc = "finish"
       \/ a.pc = "lostDrop" /\ b.pc = "lostFinish"

\* The recorded outcome of a run whose end was not reached, or a run to execute.
Learns(a, b) ==
    /\ a.pc = "claimed"
    /\ b.snap = a.snap
    /\ \/ outcomes[a.run] = <<>> /\ b.pc = "prepare"
       \/ /\ outcomes[a.run] # <<>> /\ b.pc = "recover"
          /\ b.outcome # None /\ b.outcome = outcomes[a.run][1]

Looks(a, b) ==
    /\ a.pc = "prepare" /\ b.pc = "prepareStart"
    /\ b.snap = a.snap
    /\ b.retained = volume[SessionOf[a.run]].present

Decides(a, b) ==
    /\ a.pc \in {"prepare", "prepareStart", "restore", "start", "driving", "asking", "lostDrop"}
    /\ b.pc \in {"record", "save", "prepareDrop"}
    /\ b.outcome # None
    /\ b.snap = a.snap

\* A recovery that cannot save or publish ends without ending the run.
Aborts(a, b) ==
    /\ a.pc \in {"recoverSave", "recoverPublish"} /\ b.pc = "recoverClean"
    /\ b.outcome = None
    /\ b.snap = a.snap

\* The volume's work is in the checkpoint store.
Snaps(a, b) ==
    /\ \/ a.pc = "recoverSave" /\ b.pc = "recoverPublish"
       \/ a.pc = "parkSave" /\ b.pc = "parkPublish"
       \/ a.pc = "save" /\ b.pc = "publish"
    /\ b.outcome = a.outcome
    /\ b.snap # None
    /\ volume[SessionOf[a.run]].work \subseteq saved'[ProjectOfRun(a.run)]

Unpublished(a, b) ==
    /\ a.pc = "publish" /\ b.pc = "drop"
    /\ b.outcome = a.outcome
    /\ b.snap = None

StopsWaiting(a, b) ==
    /\ a.pc = "asking" /\ b.pc = "park"
    /\ NotListed(a.run)
    /\ SameWork(a, b)

HolderMove(a, b) ==
    /\ SameCase(a, b)
    /\ \/ GoesOn(a, b)
       \/ Learns(a, b)
       \/ Looks(a, b)
       \/ Decides(a, b)
       \/ Aborts(a, b)
       \/ Snaps(a, b)
       \/ Unpublished(a, b)
       \/ StopsWaiting(a, b)

Turns(w, b) == b \in Attempt /\ att' = [att EXCEPT ![w] = b]

\* The attempt of w goes on to another step, or is over.
AttemptMoves(w) == (\E b \in Attempt : Turns(w, b) /\ HolderMove(att[w], b)) \/ Ends(w)

-----------------------------------------------------------------------------
(* The actions that leave the store's rows alone make only such moves *)

LEMMA GotoDoes ==
  ASSUME Typed, NEW w \in Workers, NEW p \in Phase, Goto(w, p)
  PROVE  \E b \in Attempt : /\ Turns(w, b)
                            /\ b.pc = p
                            /\ SameCase(att[w], b)
                            /\ SameWork(att[w], b)
<1> DEFINE b == [att[w] EXCEPT !.pc = p]
<1>1. att' = [att EXCEPT ![w] = b]
  BY DEF Goto
<1>2. /\ b \in Attempt /\ b.pc = p
      /\ SameCase(att[w], b) /\ SameWork(att[w], b)
  BY DEF Typed, Attempt, SameCase, SameWork
<1>3. QED
  BY <1>1, <1>2 DEF Turns

LEMMA GoesOnMoves ==
  ASSUME Typed, NEW w \in Workers, NEW p \in Phase, Goto(w, p),
         \A b \in Attempt : b.pc = p /\ SameCase(att[w], b) /\ SameWork(att[w], b) => GoesOn(att[w], b)
  PROVE  AttemptMoves(w)
BY GotoDoes DEF AttemptMoves, HolderMove

LEMMA RunOfAttempt ==
  ASSUME Typed, LeasesFit, NEW w \in Workers, att[w].pc # "idle"
  PROVE  /\ att[w] \in Attempt
         /\ att[w].run \in Runs
         /\ SessionOf[att[w].run] \in Sessions
         /\ ProjectOfRun(att[w].run) \in Projects
<1>1. att[w] \in Attempt /\ att[w].run # None
  BY DEF Typed, LeasesFit, LeaseFits
<1>2. att[w].run \in Runs
  BY <1>1 DEF Attempt
<1>3. QED
  BY <1>1, <1>2, SessionOfType, ProjectOfType DEF ProjectOfRun

LEMMA ReadLedgerMoves ==
  ASSUME Typed, LeasesFit, NEW w \in Workers, ReadLedger(w)
  PROVE  AttemptMoves(w)
<1> DEFINE a == att[w]
           o == RecordedOutcome(a.run)
           p == IF o = None THEN "prepare" ELSE "recover"
           b == [a EXCEPT !.outcome = o, !.pc = p]
<1>1. a.pc = "claimed" /\ att' = [att EXCEPT ![w] = b]
  BY DEF ReadLedger, At, Becomes
<1>2. a \in Attempt /\ a.run \in Runs
  BY <1>1, RunOfAttempt
<1>3. outcomes[a.run] \in Seq(Outcome)
  BY <1>2 DEF Typed
<1>4. \/ outcomes[a.run] = <<>> /\ o = None
      \/ outcomes[a.run] # <<>> /\ o = outcomes[a.run][1] /\ o \in Outcome /\ o # None
  BY <1>3, NoneIsNoOutcome, HeadTailProperties DEF RecordedOutcome
<1>5. o \in Outcome \cup {None} /\ p \in Phase
  BY <1>4 DEF Phase
<1> HIDE DEF o, p
<1>6. b \in Attempt /\ b.pc = p /\ b.outcome = o /\ b.snap = a.snap /\ SameCase(a, b)
  BY <1>2, <1>5 DEF Attempt, SameCase
<1> HIDE DEF a, b
<1>7. Learns(a, b)
  BY <1>1, <1>4, <1>6 DEF Learns, p
<1>8. QED
  BY <1>1, <1>6, <1>7 DEF AttemptMoves, HolderMove, Turns, a

LEMMA RecoverStopMoves ==
  ASSUME Typed, NEW w \in Workers, RecoverStop(w)
  PROVE  AttemptMoves(w)
BY GoesOnMoves DEF RecoverStop, At, GoesOn, Phase, AttemptMoves

LEMMA RecoverStartMoves ==
  ASSUME Typed, NEW w \in Workers, RecoverStart(w)
  PROVE  AttemptMoves(w)
BY GoesOnMoves DEF RecoverStart, At, GoesOn, Phase

\* A failed snapshot, and one that is taken.
LEMMA SnapshotFailsMoves ==
  ASSUME Typed, NEW w \in Workers, NEW p \in Phase, SnapshotFails(w, p),
         \/ att[w].pc = "recoverSave" /\ p = "recoverClean"
         \/ att[w].pc = "parkSave" /\ p = "parkPublish"
         \/ att[w].pc = "save" /\ p = "drop"
  PROVE  AttemptMoves(w)
<1> DEFINE a == att[w]
           o == IF a.pc = "recoverSave" THEN None ELSE a.outcome
           b == [a EXCEPT !.pc = p, !.outcome = o]
<1>1. att' = [att EXCEPT ![w] = b] /\ a \in Attempt
  BY DEF SnapshotFails, Becomes, At, Typed
<1>2. o \in Outcome \cup {None}
  BY <1>1 DEF Attempt
<1> HIDE DEF o
<1>3. /\ b \in Attempt /\ b.pc = p /\ b.outcome = o /\ SameCase(a, b)
      /\ b.snap = a.snap /\ b.retained = a.retained
  BY <1>1, <1>2 DEF Attempt, SameCase
<1> HIDE DEF b
<1>4. Aborts(a, b) \/ GoesOn(a, b)
  BY <1>3 DEF Aborts, GoesOn, SameWork, o
<1>5. QED
  BY <1>1, <1>3, <1>4 DEF AttemptMoves, HolderMove, Turns

LEMMA SnapshotTakenMoves ==
  ASSUME Typed, LeasesFit, NEW w \in Workers, NEW p \in Phase, SnapshotTaken(w, p),
         \/ att[w].pc = "recoverSave" /\ p = "recoverPublish"
         \/ att[w].pc = "parkSave" /\ p = "parkPublish"
         \/ att[w].pc = "save" /\ p = "publish"
  PROVE  AttemptMoves(w)
<1> DEFINE a == att[w]
           n == volume[SessionAt(w)].work
           b == [a EXCEPT !.pc = p, !.snap = n]
<1>1. /\ att' = [att EXCEPT ![w] = b]
      /\ saved' = [saved EXCEPT ![ProjectOf[SessionAt(w)]] = @ \cup n]
  BY DEF SnapshotTaken, Snapshot, Becomes
<1>2. a \in Attempt /\ SessionAt(w) = SessionOf[a.run] /\ SessionAt(w) \in Sessions
      /\ ProjectOf[SessionAt(w)] = ProjectOfRun(a.run) /\ ProjectOfRun(a.run) \in Projects
  BY RunOfAttempt DEF SessionAt, ProjectOfRun
<1>3. n \in SUBSET Tokens
  BY <1>2 DEF Typed, WorkSets
<1>4. n \subseteq saved'[ProjectOfRun(a.run)]
  BY <1>1, <1>2 DEF Typed
<1>5. n = volume[SessionOf[a.run]].work
  BY <1>2
<1> HIDE DEF n
<1>6. b \in Attempt /\ b.pc = p /\ b.outcome = a.outcome /\ b.snap # None /\ SameCase(a, b)
  BY <1>2, <1>3, NoneIsNoSnapshot DEF Attempt, SameCase
<1> HIDE DEF b
<1>7. Snaps(a, b)
  BY <1>4, <1>5, <1>6 DEF Snaps
<1>8. QED
  BY <1>1, <1>6, <1>7 DEF AttemptMoves, HolderMove, Turns

LEMMA SaveMoves ==
  ASSUME Typed, LeasesFit, NEW w \in Workers, RecoverSave(w) \/ ParkSave(w) \/ Save(w)
  PROVE  AttemptMoves(w)
<1>1. CASE RecoverSave(w)
  BY <1>1, SnapshotTakenMoves, SnapshotFailsMoves DEF RecoverSave, At, Phase
<1>2. CASE ParkSave(w)
  BY <1>2, SnapshotTakenMoves, SnapshotFailsMoves DEF ParkSave, At, Phase
<1>3. CASE Save(w)
  BY <1>3, SnapshotTakenMoves, SnapshotFailsMoves DEF Save, At, Phase
<1>4. QED
  BY <1>1, <1>2, <1>3

LEMMA RecoverPublishMoves ==
  ASSUME Typed, NEW w \in Workers, RecoverPublish(w)
  PROVE  AttemptMoves(w)
<1>1. CASE MayPublish(w)
  BY <1>1, GoesOnMoves DEF RecoverPublish, At, GoesOn, Phase
<1>2. CASE ~MayPublish(w)
  <2> DEFINE a == att[w]
             b == [a EXCEPT !.pc = "recoverClean", !.outcome = None]
  <2>1. att' = [att EXCEPT ![w] = b] /\ a \in Attempt /\ a.pc = "recoverPublish"
    BY <1>2 DEF RecoverPublish, Becomes, At, Typed
  <2>2. /\ b \in Attempt /\ b.pc = "recoverClean" /\ b.outcome = None /\ SameCase(a, b)
        /\ b.snap = a.snap
    BY <2>1 DEF Attempt, SameCase, Phase
  <2> HIDE DEF b
  <2>3. Aborts(a, b)
    BY <2>1, <2>2 DEF Aborts
  <2>4. QED
    BY <2>1, <2>2, <2>3 DEF AttemptMoves, HolderMove, Turns
<1>3. QED
  BY <1>1, <1>2

LEMMA RecoverCleanMoves ==
  ASSUME Typed, NEW w \in Workers, RecoverClean(w)
  PROVE  AttemptMoves(w)
BY GoesOnMoves DEF RecoverClean, At, GoesOn, Phase, AttemptMoves

LEMMA RecoverRemoveMoves ==
  ASSUME Typed, NEW w \in Workers, RecoverRemove(w)
  PROVE  AttemptMoves(w)
BY GoesOnMoves DEF RecoverRemove, At, GoesOn, Phase, AttemptMoves

LEMMA PrepareStopMoves ==
  ASSUME Typed, LeasesFit, NEW w \in Workers, PrepareStop(w)
  PROVE  AttemptMoves(w)
<1> DEFINE a == att[w]
           here == volume[SessionAt(w)].present
           b == [a EXCEPT !.pc = "prepareStart", !.retained = here]
<1>1. att' = [att EXCEPT ![w] = b] /\ a.pc = "prepare"
  BY DEF PrepareStop, At, Becomes
<1>2. a \in Attempt /\ SessionAt(w) \in Sessions
  BY <1>1, RunOfAttempt DEF SessionAt
<1>3. here \in BOOLEAN /\ here = volume[SessionOf[a.run]].present
  BY <1>2 DEF Typed, SessionAt
<1> HIDE DEF here
<1>4. /\ b \in Attempt /\ b.pc = "prepareStart" /\ b.retained = here /\ SameCase(a, b)
      /\ b.snap = a.snap
  BY <1>2, <1>3 DEF Attempt, SameCase, Phase
<1> HIDE DEF b
<1>5. Looks(a, b)
  BY <1>1, <1>3, <1>4 DEF Looks
<1>6. QED
  BY <1>1, <1>4, <1>5 DEF AttemptMoves, HolderMove, Turns

LEMMA PrepareStartMoves ==
  ASSUME Typed, NEW w \in Workers, PrepareStart(w)
  PROVE  AttemptMoves(w)
<1> DEFINE a == att[w]
           b == [a EXCEPT !.pc = "restore", !.sandbox = TRUE]
<1>1. att' = [att EXCEPT ![w] = b] /\ a \in Attempt /\ a.pc = "prepareStart"
  BY DEF PrepareStart, Becomes, At, Typed
<1>2. b \in Attempt /\ b.pc = "restore" /\ SameCase(a, b) /\ SameWork(a, b)
  BY <1>1 DEF Attempt, SameCase, SameWork, Phase
<1> HIDE DEF b
<1>3. GoesOn(a, b)
  BY <1>1, <1>2 DEF GoesOn
<1>4. QED
  BY <1>1, <1>2, <1>3 DEF AttemptMoves, HolderMove, Turns

LEMMA RestoreMoves ==
  ASSUME Typed, NEW w \in Workers, Restore(w)
  PROVE  AttemptMoves(w)
BY GoesOnMoves DEF Restore, At, GoesOn, Phase

LEMMA PrepareDropMoves ==
  ASSUME Typed, NEW w \in Workers, PrepareDrop(w)
  PROVE  AttemptMoves(w)
<1> DEFINE a == att[w]
           b == [a EXCEPT !.pc = "record", !.sandbox = FALSE]
<1>1. att' = [att EXCEPT ![w] = b] /\ a \in Attempt /\ a.pc = "prepareDrop"
  BY DEF PrepareDrop, Becomes, At, Typed
<1>2. b \in Attempt /\ b.pc = "record" /\ SameCase(a, b) /\ SameWork(a, b)
  BY <1>1 DEF Attempt, SameCase, SameWork, Phase
<1> HIDE DEF b
<1>3. GoesOn(a, b)
  BY <1>1, <1>2 DEF GoesOn
<1>4. QED
  BY <1>1, <1>2, <1>3 DEF AttemptMoves, HolderMove, Turns

\* The attempt learns how its run ends.
LEMMA DecidesMoves ==
  ASSUME Typed, NEW w \in Workers, NEW p \in {"record", "save", "prepareDrop"}, NEW o \in Outcome,
         Becomes(w, [att[w] EXCEPT !.pc = p, !.outcome = o]),
         att[w].pc \in {"prepare", "prepareStart", "restore", "start", "driving", "asking", "lostDrop"}
  PROVE  AttemptMoves(w)
<1> DEFINE a == att[w]
           b == [a EXCEPT !.pc = p, !.outcome = o]
<1>1. att' = [att EXCEPT ![w] = b] /\ a \in Attempt /\ p \in Phase /\ o # None
  BY NoneIsNoOutcome DEF Becomes, Typed, Phase
<1>2. b \in Attempt /\ b.pc = p /\ b.outcome = o /\ SameCase(a, b) /\ b.snap = a.snap
  BY <1>1 DEF Attempt, SameCase
<1> HIDE DEF b
<1>3. Decides(a, b)
  BY <1>1, <1>2 DEF Decides
<1>4. QED
  BY <1>1, <1>2, <1>3 DEF AttemptMoves, HolderMove, Turns

LEMMA PrepareFailsMoves ==
  ASSUME Typed, NEW w \in Workers, PrepareFails(w)
  PROVE  AttemptMoves(w)
<1> DEFINE p == IF att[w].sandbox THEN "prepareDrop" ELSE "record"
<1>1. p \in {"record", "save", "prepareDrop"} /\ "failed" \in Outcome
  BY DEF Outcome
<1>2. /\ Becomes(w, [att[w] EXCEPT !.pc = p, !.outcome = "failed"])
      /\ att[w].pc \in {"prepare", "prepareStart", "restore"}
  BY DEF PrepareFails, At
<1> HIDE DEF p
<1>3. QED
  BY <1>1, <1>2, DecidesMoves

LEMMA StartDriveMoves ==
  ASSUME Typed, NEW w \in Workers, StartDrive(w)
  PROVE  AttemptMoves(w)
<1>0. att[w].pc = "start" /\ "cancelled" \in Outcome
  BY DEF StartDrive, At, Outcome
<1>1. CASE ~att[w].lost /\ cancelled[att[w].run]
  BY <1>0, <1>1, DecidesMoves DEF StartDrive
<1>2. CASE att[w].lost \/ ~cancelled[att[w].run]
  <2> DEFINE p == IF att[w].lost THEN "lostDrop" ELSE IF att[w].call = None THEN "driving" ELSE "asking"
  <2>1. Goto(w, p)
    BY <1>2 DEF StartDrive, Becomes, Goto
  <2>2. p \in Phase
    BY DEF Phase
  <2>3. QED
    BY <1>0, <2>1, <2>2, GoesOnMoves DEF GoesOn
<1>3. QED
  BY <1>1, <1>2

LEMMA AgentEndsMoves ==
  ASSUME Typed, NEW w \in Workers, AgentEnds(w)
  PROVE  AttemptMoves(w)
<1>1. PICK o \in Outcome : Becomes(w, [att[w] EXCEPT !.pc = IF o = "succeeded" THEN "save" ELSE "record",
                                                     !.outcome = o])
  BY DEF AgentEnds
<1>2. att[w].pc = "driving"
  BY DEF AgentEnds, At
<1>3. QED
  BY <1>1, <1>2, DecidesMoves

LEMMA StopMoves ==
  ASSUME Typed, NEW w \in Workers, UserStop(w) \/ Shutdown(w)
  PROVE  AttemptMoves(w)
<1>1. /\ Becomes(w, [att[w] EXCEPT !.pc = "record", !.outcome = "cancelled"])
      /\ att[w].pc \in {"driving", "asking"} /\ "cancelled" \in Outcome
  BY DEF UserStop, Shutdown, At, Outcome
<1>2. QED
  BY <1>1, DecidesMoves

LEMMA LostDrainFailsMoves ==
  ASSUME Typed, NEW w \in Workers, LostDrainFails(w)
  PROVE  AttemptMoves(w)
<1>1. /\ Becomes(w, [att[w] EXCEPT !.pc = "record", !.outcome = "failed"])
      /\ att[w].pc = "lostDrop" /\ "failed" \in Outcome
  BY DEF LostDrainFails, At, Outcome
<1>2. QED
  BY <1>1, DecidesMoves

LEMMA LookInVainMoves ==
  ASSUME Typed, NEW w \in Workers, LookInVain(w)
  PROVE  AttemptMoves(w)
<1> DEFINE a == att[w]
           b == [a EXCEPT !.looked = TRUE]
<1>1. att' = [att EXCEPT ![w] = b] /\ a \in Attempt /\ a.pc = "asking"
  BY DEF LookInVain, At, Typed
<1>2. b \in Attempt /\ b.pc = a.pc /\ SameCase(a, b) /\ SameWork(a, b)
  BY <1>1 DEF Attempt, SameCase, SameWork
<1> HIDE DEF b
<1>3. GoesOn(a, b)
  BY <1>1, <1>2 DEF GoesOn, Holding, Phase
<1>4. QED
  BY <1>1, <1>2, <1>3 DEF AttemptMoves, HolderMove, Turns

LEMMA WaitTimesOutMoves ==
  ASSUME Typed, NEW w \in Workers, WaitTimesOut(w)
  PROVE  AttemptMoves(w)
<1>1. Goto(w, "park") /\ att[w].pc = "asking" /\ NotListed(att[w].run) /\ "park" \in Phase
  BY DEF WaitTimesOut, At, Phase
<1>2. QED
  BY <1>1, GotoDoes DEF AttemptMoves, HolderMove, StopsWaiting

LEMMA KeeperLosesMoves ==
  ASSUME Typed, NEW w \in Workers, KeeperLoses(w)
  PROVE  AttemptMoves(w)
<1> DEFINE a == att[w]
           p == IF a.pc \in {"driving", "asking"} THEN "lostDrop" ELSE a.pc
           b == [a EXCEPT !.lost = TRUE, !.pc = p]
<1>1. att' = [att EXCEPT ![w] = b] /\ a \in Attempt /\ a.pc \in Working \cup {"driving", "asking"}
  BY DEF KeeperLoses, Becomes, At, Typed
<1>2. p \in Phase
  BY <1>1 DEF Phase, Working
<1>3. a.pc \in Holding
  BY <1>1 DEF Holding, Phase, Working
<1>4. p = a.pc \/ (a.pc \in {"start", "driving", "asking"} /\ p = "lostDrop")
  OBVIOUS
<1> HIDE DEF p
<1>5. b \in Attempt /\ b.pc = p /\ SameCase(a, b) /\ SameWork(a, b)
  BY <1>1, <1>2 DEF Attempt, SameCase, SameWork
<1> HIDE DEF b
<1>6. GoesOn(a, b)
  BY <1>3, <1>4, <1>5 DEF GoesOn
<1>7. QED
  BY <1>1, <1>5, <1>6 DEF AttemptMoves, HolderMove, Turns

LEMMA ParkPublishMoves ==
  ASSUME Typed, NEW w \in Workers, ParkPublish(w)
  PROVE  AttemptMoves(w)
BY GoesOnMoves DEF ParkPublish, At, GoesOn, Phase, AttemptMoves

LEMMA RecordMoves ==
  ASSUME Typed, NEW w \in Workers, Record(w)
  PROVE  AttemptMoves(w)
<1> DEFINE p == IF att[w].sandbox THEN "save" ELSE "finish"
<1>1. Goto(w, p) /\ att[w].pc = "record" /\ p \in Phase /\ p \in {"save", "finish"}
  BY DEF Record, At, Phase
<1> HIDE DEF p
<1>2. QED
  BY <1>1, GoesOnMoves DEF GoesOn

LEMMA SettlePublishMoves ==
  ASSUME Typed, NEW w \in Workers, SettlePublish(w)
  PROVE  AttemptMoves(w)
<1>1. CASE MayPublish(w)
  BY <1>1, GoesOnMoves DEF SettlePublish, At, GoesOn, Phase
<1>2. CASE ~MayPublish(w)
  <2> DEFINE a == att[w]
             b == [a EXCEPT !.pc = "drop", !.snap = None]
  <2>1. att' = [att EXCEPT ![w] = b] /\ a \in Attempt /\ a.pc = "publish"
    BY <1>2 DEF SettlePublish, Becomes, At, Typed
  <2>2. b \in Attempt /\ b.pc = "drop" /\ b.snap = None /\ b.outcome = a.outcome /\ SameCase(a, b)
    BY <2>1 DEF Attempt, SameCase, Phase
  <2> HIDE DEF b
  <2>3. Unpublished(a, b)
    BY <2>1, <2>2 DEF Unpublished
  <2>4. QED
    BY <2>1, <2>2, <2>3 DEF AttemptMoves, HolderMove, Turns
<1>3. QED
  BY <1>1, <1>2

LEMMA DropMoves ==
  ASSUME Typed, NEW w \in Workers, Drop(w)
  PROVE  AttemptMoves(w)
<1>1. PICK p \in {"note", "remove"} : Goto(w, p)
  BY DEF Drop
<1>2. att[w].pc = "drop" /\ p \in Phase
  BY DEF Drop, At, Phase
<1>3. QED
  BY <1>1, <1>2, GoesOnMoves DEF GoesOn

LEMMA RemoveMoves ==
  ASSUME Typed, NEW w \in Workers, Remove(w)
  PROVE  AttemptMoves(w)
BY GoesOnMoves DEF Remove, At, GoesOn, Phase

LEMMA NoteMoves ==
  ASSUME Typed, NEW w \in Workers, Note(w)
  PROVE  AttemptMoves(w)
BY GoesOnMoves DEF Note, At, GoesOn, Phase

LEMMA LostDropMoves ==
  ASSUME Typed, NEW w \in Workers, LostDrop(w)
  PROVE  AttemptMoves(w)
BY GoesOnMoves DEF LostDrop, At, GoesOn, Phase

-----------------------------------------------------------------------------
(* A step is one of these *)

\* Workers that are done with their run, without a word to the store.
LEMMA EndsMoves ==
  ASSUME NEW w \in Workers, NotTaken(w) \/ Crash(w) \/ ParkDrop(w) \/ LostNote(w)
  PROVE  AttemptMoves(w)
BY DEF NotTaken, Crash, ParkDrop, LostNote, AttemptMoves

\* What an attempt does without the store's rows.
OwnStep(w) ==
    \/ NotTaken(w) \/ ReadLedger(w)
    \/ Recovery(w) \/ Preparation(w)
    \/ StartDrive(w) \/ AgentEnds(w) \/ UserStop(w) \/ LookInVain(w) \/ WaitTimesOut(w)
    \/ ParkSave(w) \/ ParkPublish(w) \/ ParkDrop(w)
    \/ Record(w) \/ Save(w) \/ SettlePublish(w) \/ Drop(w) \/ Remove(w) \/ Note(w)
    \/ LostDrop(w) \/ LostNote(w)
    \/ KeeperLoses(w)
    \/ WorkerFault(w)

LEMMA ExecCases ==
  ASSUME NEW CONSTANT P, [ExecNext]_execVars,
         UNCHANGED execVars => P,
         Users => P,
         \A r \in Runs : Lapse(r) => P,
         \A w \in Workers, r \in Runs : Poll(w, r) => P,
         \A w \in Workers : Claim(w) => P,
         \A w \in Workers : OwnStep(w) => P,
         \A w \in Workers : Edit(w) => P,
         \A w \in Workers : Resume(w) => P,
         \A w \in Workers, c \in Calls : Ask(w, c) => P,
         \A w \in Workers : Park(w) => P,
         \A w \in Workers : ParkRelease(w) => P,
         \A w \in Workers : Finish(w) => P,
         \A w \in Workers : LostFinish(w) => P
  PROVE  P
BY DEF ExecNext, WorkerStep, OwnStep, Driving, Parking, Settling

LEMMA OwnStepMoves ==
  ASSUME Typed, LeasesFit, NEW w \in Workers, OwnStep(w)
  PROVE  AttemptMoves(w)
BY EndsMoves, ReadLedgerMoves, RecoverStopMoves, RecoverStartMoves, SaveMoves, RecoverPublishMoves,
   RecoverCleanMoves, RecoverRemoveMoves, PrepareStopMoves, PrepareStartMoves, RestoreMoves,
   PrepareFailsMoves, PrepareDropMoves, StartDriveMoves, AgentEndsMoves, StopMoves, LookInVainMoves,
   WaitTimesOutMoves, ParkPublishMoves, RecordMoves, SettlePublishMoves, DropMoves, RemoveMoves,
   NoteMoves, LostDropMoves, KeeperLosesMoves, LostDrainFailsMoves
DEF OwnStep, Recovery, Preparation, WorkerFault

LEMMA OwnStepLeavesStore ==
  ASSUME NEW w \in Workers, OwnStep(w)
  PROVE  UNCHANGED vars
<1>1. CASE Recovery(w)
  BY <1>1 DEF Recovery, RecoverStop, RecoverStart, RecoverSave, RecoverPublish, RecoverClean,
              RecoverRemove, SnapshotTaken, SnapshotFails, RecordOutcome, LocalStep, storeVars
<1>2. CASE Preparation(w)
  BY <1>2 DEF Preparation, PrepareStop, PrepareStart, Restore, PrepareFails, PrepareDrop, storeVars
<1>3. CASE NotTaken(w) \/ ReadLedger(w) \/ StartDrive(w) \/ AgentEnds(w) \/ UserStop(w) \/ LookInVain(w)
           \/ WaitTimesOut(w)
  BY <1>3 DEF NotTaken, ReadLedger, StartDrive, AgentEnds, UserStop, LookInVain, WaitTimesOut, LocalStep
<1>4. CASE ParkSave(w) \/ ParkPublish(w) \/ ParkDrop(w)
  BY <1>4 DEF ParkSave, ParkPublish, ParkDrop, SnapshotTaken, SnapshotFails, storeVars
<1>5. CASE Record(w) \/ Save(w) \/ SettlePublish(w) \/ Drop(w) \/ Remove(w) \/ Note(w)
  BY <1>5 DEF Record, Save, SettlePublish, Drop, Remove, Note, SnapshotTaken, SnapshotFails,
              RecordOutcome, storeVars
<1>6. CASE LostDrop(w) \/ LostNote(w) \/ KeeperLoses(w) \/ WorkerFault(w)
  BY <1>6 DEF LostDrop, LostNote, KeeperLoses, WorkerFault, Shutdown, LostDrainFails, Crash,
              RecordOutcome, LocalStep, storeVars
<1>7. QED
  BY <1>1, <1>2, <1>3, <1>4, <1>5, <1>6 DEF OwnStep

\* Each step of the workers is one of the store's, or none of its business.
LEMMA ExecStepIsStoreStep ==
  ASSUME Typed, LeasesFit, OutcomesFit, [ExecNext]_execVars
  PROVE  [Next]_vars
<1>1. ASSUME UNCHANGED vars PROVE [Next]_vars
  BY <1>1
<1>2. ASSUME Users PROVE [Next]_vars
  BY <1>2 DEF Users, Next
<1>3. ASSUME NEW r \in Runs, Lapse(r) PROVE [Next]_vars
  BY <1>3 DEF Lapse, Next, RunWrite
<1>4. ASSUME NEW w \in Workers, NEW r \in Runs, Poll(w, r) PROVE [Next]_vars
  BY <1>1, <1>4 DEF Poll, LocalStep
<1>5. ASSUME NEW w \in Workers, Claim(w) PROVE [Next]_vars
  <2>1. att[w].run \in Runs
    BY <1>5, RunOfAttempt DEF Claim, At
  <2>2. QED
    BY <1>5, <2>1 DEF Claim, Next, RunWrite
<1>6. ASSUME NEW w \in Workers, Resume(w) PROVE [Next]_vars
  <2>1. att[w].run \in Runs /\ att[w].call \in Calls
    <3>1. att[w].call # None /\ att[w].call \in Calls \cup {None} /\ att[w].pc # "idle"
      BY <1>6 DEF Resume, At, Typed, Attempt, LeasesFit, LeaseFits
    <3>2. QED
      BY <3>1, RunOfAttempt
  <2>2. QED
    BY <1>6, <2>1 DEF Resume, Next, RunWrite
<1>7. ASSUME NEW w \in Workers, NEW c \in Calls, Ask(w, c) PROVE [Next]_vars
  <2>1. att[w].run \in Runs
    BY <1>7, RunOfAttempt DEF Ask, At
  <2>2. QED
    BY <1>7, <2>1 DEF Ask, Next, RunWrite
<1>8. ASSUME NEW w \in Workers, Park(w) PROVE [Next]_vars
  <2>1. att[w].run \in Runs
    BY <1>8, RunOfAttempt DEF Park, At
  <2>2. QED
    BY <1>8, <2>1 DEF Park, Next, RunWrite
<1>9. ASSUME NEW w \in Workers, ParkRelease(w) PROVE [Next]_vars
  <2>1. att[w].id \in 1..Len(grants)
    BY <1>9 DEF ParkRelease, At, LeasesFit, LeaseFits
  <2>2. QED
    BY <1>9, <2>1 DEF ParkRelease, Next, LeaseCall
<1>10. ASSUME NEW w \in Workers, Finish(w) PROVE [Next]_vars
  <2>1. att[w].id \in 1..Len(grants) /\ att[w].outcome \in Outcome
    <3>1. att[w].pc = "finish" /\ att[w] \in Attempt /\ att[w].id \in 1..Len(grants)
      BY <1>10 DEF Finish, At, LeasesFit, LeaseFits, Typed
    <3>2. att[w].outcome # None
      BY <3>1 DEF OutcomesFit, OutcomeFits, Decided
    <3>3. QED
      BY <3>1, <3>2 DEF Attempt
  <2>2. QED
    BY <1>10, <2>1 DEF Finish, Next, LeaseCall
<1>11. ASSUME NEW w \in Workers, LostFinish(w) PROVE [Next]_vars
  <2>1. att[w].id \in 1..Len(grants) /\ "failed" \in Outcome
    BY <1>11 DEF LostFinish, At, LeasesFit, LeaseFits, Outcome
  <2>2. QED
    BY <1>11, <2>1 DEF LostFinish, Next, LeaseCall
<1>12. QED
  BY <1>1, <1>2, <1>3, <1>4, <1>5, <1>6, <1>7, <1>8, <1>9, <1>10, <1>11, ExecCases, OwnStepLeavesStore
  DEF execVars, storeVars, Edit

\* The store's invariant is kept by the workers.
LEMMA ExecStepIInv ==
  ASSUME IInv, Typed, LeasesFit, OutcomesFit, [ExecNext]_execVars
  PROVE  IInv'
<1>1. [Next]_vars
  BY ExecStepIsStoreStep
<1>2. QED
  BY <1>1, StepType, StepLeaseRows, StepSessionRows, StepLatestTurn, StepOneActive, StepNoLiveLease,
     StepQuestion, StepSessionTells DEF IInv

-----------------------------------------------------------------------------
(* Leases: who holds one, and what the others may know of its run *)

\* What the store has of the run of an attempt that holds its lease.
LEMMA HoldersRow ==
  ASSUME Typed, LeasesFit, NEW w \in Workers, att[w].pc \in Holding
  PROVE  /\ att[w].run \in Runs
         /\ lease[att[w].run] = [id |-> att[w].id, live |-> TRUE]
         /\ status[att[w].run] \in Active
         /\ att[w].id \in 1..Len(grants)
         /\ grants[att[w].id] = [run |-> att[w].run, holder |-> w]
<1>1. att[w].pc \notin {"idle", "listed"}
  BY DEF Holding
<1>2. QED
  BY <1>1, RunOfAttempt DEF LeasesFit, LeaseFits

\* Of the attempts that hold a live lease no two are on runs of one project.
LEMMA Alone ==
  ASSUME IInv, Typed, LeasesFit, NEW v \in Workers, NEW w \in Workers,
         att[v].pc \in Holding, att[w].pc \in Holding,
         ProjectOfRun(att[v].run) = ProjectOfRun(att[w].run)
  PROVE  v = w
<1>1. /\ att[v].run \in Runs /\ lease[att[v].run] = [id |-> att[v].id, live |-> TRUE]
      /\ status[att[v].run] \in Active /\ grants[att[v].id] = [run |-> att[v].run, holder |-> v]
  BY HoldersRow
<1>2. /\ att[w].run \in Runs /\ lease[att[w].run] = [id |-> att[w].id, live |-> TRUE]
      /\ status[att[w].run] \in Active /\ grants[att[w].id] = [run |-> att[w].run, holder |-> w]
  BY HoldersRow
<1>3. att[v].run = att[w].run
  BY <1>1, <1>2 DEF IInv, OneActivePerProject
<1>4. att[v].id = att[w].id
  BY <1>1, <1>2, <1>3
<1>5. grants[att[v].id].holder = v /\ grants[att[w].id].holder = w
  BY <1>1, <1>2
<1>6. QED
  BY <1>4, <1>5

LEMMA AloneOnRun ==
  ASSUME IInv, Typed, LeasesFit, NEW v \in Workers, NEW w \in Workers, v # w,
         att[w].pc \in Holding, att[v].run = att[w].run
  PROVE  att[v].pc \notin Holding
BY Alone

\* An attempt of no run knows nothing.
LEMMA IdleFits ==
  ASSUME NEW a, NEW w, NEW row, NEW st, NEW q, NEW ids,
         a.pc = "idle", a.run = None, a.id = 0
  PROVE  LeaseFits(a, w, row, st, q, ids)
BY DEF LeaseFits, Holding, Conversing, ParkPhase

\* One that holds no lease depends on the row only while it has the run listed.
LEMMA BystanderFits ==
  ASSUME NEW a, NEW w, NEW row, NEW st, NEW q, NEW ids, LeaseFits(a, w, row, st, q, ids),
         NEW row2, NEW st2, NEW q2, a.pc \notin Holding, a.pc \in Phase,
         a.pc = "listed" => st2 # "absent" /\ (row2.live \/ st2 \in Terminal \/ a.call = q2)
  PROVE  LeaseFits(a, w, row2, st2, q2, ids)
BY DEF LeaseFits, Holding, Conversing, ParkPhase, Phase

\* Issuing an id takes none back.
LEMMA IdsGrow ==
  ASSUME NEW ids \in Seq(Grant), NEW g \in Grant, NEW a, NEW w, NEW row, NEW st, NEW q,
         LeaseFits(a, w, row, st, q, ids)
  PROVE  LeaseFits(a, w, row, st, q, Append(ids, g))
<1>1. /\ Len(Append(ids, g)) = Len(ids) + 1 /\ Len(ids) \in Nat
      /\ \A i \in 1..Len(ids) : Append(ids, g)[i] = ids[i]
  OBVIOUS
<1> DEFINE more == Append(ids, g)
<1>2. a.id \in 1..Len(ids) => a.id \in 1..Len(more) /\ more[a.id] = ids[a.id]
  BY <1>1
<1> HIDE DEF more
<1>3. LeaseFits(a, w, row, st, q, more)
  BY <1>2 DEF LeaseFits
<1>4. QED
  BY <1>3 DEF more

\* The moves of a holder keep what it knows of the store.
LEMMA MoveFits ==
  ASSUME NEW a \in Attempt, NEW b \in Attempt, NEW w, NEW row, NEW st, NEW q, NEW ids,
         LeaseFits(a, w, row, st, q, ids), HolderMove(a, b)
  PROVE  LeaseFits(b, w, row, st, q, ids)
<1>1. a.pc \in Holding /\ b.pc \in Holding
  BY DEF HolderMove, GoesOn, Learns, Looks, Decides, Aborts, Snaps, Unpublished, StopsWaiting, Holding,
         Phase, ParkPhase
<1>2. b.pc \in Conversing => a.pc \in Conversing
  BY DEF HolderMove, GoesOn, Learns, Looks, Decides, Aborts, Snaps, Unpublished, StopsWaiting,
         Conversing, ParkPhase
<1>3. b.pc = "driving" => a.pc = "driving" \/ a.call = None
  BY DEF HolderMove, GoesOn, Learns, Looks, Decides, Aborts, Snaps, Unpublished, StopsWaiting
<1>4. b.pc \in ParkPhase \cup {"asking"} => a.pc \in ParkPhase \cup {"asking"} \/ a.call # None
  BY DEF HolderMove, GoesOn, Learns, Looks, Decides, Aborts, Snaps, Unpublished, StopsWaiting, ParkPhase
<1>5. SameCase(a, b)
  BY DEF HolderMove
<1>6. a.pc \notin {"idle", "listed"} /\ b.pc \notin {"idle", "listed"}
  BY <1>1 DEF Holding
<1>7. a.run # None /\ b.run # None
  BY <1>5, <1>6 DEF LeaseFits, SameCase
<1>8. QED
  BY <1>1, <1>2, <1>3, <1>4, <1>5, <1>6, <1>7 DEF LeaseFits, SameCase

\* A step changes one attempt and the row of one run: the rest is as it was.
LEMMA LeasesFitKept ==
  ASSUME Typed, LeasesFit, NEW w \in Workers, NEW b \in Attempt, Turns(w, b), NEW r \in Runs,
         \A q \in Runs \ {r} : status'[q] = status[q] /\ lease'[q] = lease[q] /\ question'[q] = question[q],
         UNCHANGED grants,
         \A v \in Workers \ {w} : att[v].run = r =>
            LeaseFits(att[v], v, lease'[r], status'[r], question'[r], grants),
         LeaseFits(b, w, lease'[b.run], status'[b.run], question'[b.run], grants)
  PROVE  LeasesFit'
<1> SUFFICES ASSUME NEW v \in Workers
             PROVE  LeaseFits(att'[v], v, lease'[att'[v].run], status'[att'[v].run],
                              question'[att'[v].run], grants')
  BY DEF LeasesFit
<1>1. CASE v = w
  BY <1>1 DEF Turns, Typed
<1>2. CASE v # w
  <2>1. att'[v] = att[v] /\ att[v] \in Attempt
    BY <1>2 DEF Turns, Typed
  <2>2. CASE att[v].run = r
    BY <1>2, <2>1, <2>2
  <2>3. CASE att[v].run = None
    <3>1. att[v].pc = "idle" /\ att[v].id = 0
      BY <2>3 DEF LeasesFit, LeaseFits
    <3>2. QED
      BY <2>1, <2>3, <3>1, IdleFits
  <2>4. CASE att[v].run \in Runs \ {r}
    BY <2>1, <2>4 DEF LeasesFit
  <2>5. QED
    BY <2>1, <2>2, <2>3, <2>4 DEF Attempt
<1>3. QED
  BY <1>1, <1>2

\* The same for a step of the users or of time, which moves no attempt.
LEMMA LeasesFitWithoutMove ==
  ASSUME Typed, LeasesFit, UNCHANGED att, NEW r \in Runs,
         \A q \in Runs \ {r} : status'[q] = status[q] /\ lease'[q] = lease[q] /\ question'[q] = question[q],
         UNCHANGED grants,
         \A v \in Workers : att[v].run = r =>
            LeaseFits(att[v], v, lease'[r], status'[r], question'[r], grants)
  PROVE  LeasesFit'
<1> SUFFICES ASSUME NEW v \in Workers
             PROVE  LeaseFits(att[v], v, lease'[att[v].run], status'[att[v].run],
                              question'[att[v].run], grants)
  BY DEF LeasesFit
<1>1. att[v] \in Attempt
  BY DEF Typed
<1>2. CASE att[v].run = r
  BY <1>2
<1>3. CASE att[v].run = None
  <2>1. att[v].pc = "idle" /\ att[v].id = 0
    BY <1>3 DEF LeasesFit, LeaseFits
  <2>2. QED
    BY <1>1, <1>3, <2>1, IdleFits
<1>4. CASE att[v].run \in Runs \ {r}
  BY <1>4 DEF LeasesFit
<1>5. QED
  BY <1>1, <1>2, <1>3, <1>4 DEF Attempt

-----------------------------------------------------------------------------
(* What the steps that use the store do to the attempt *)

LEMMA PollDoes ==
  ASSUME IInv, NEW w \in Workers, NEW r \in Runs, Poll(w, r)
  PROVE  \E b \in Attempt : /\ Turns(w, b)
                            /\ b.pc = "listed" /\ b.run = r /\ b.id = 0 /\ b.call = question[r]
                            /\ b.outcome = None /\ b.snap = None
<1> DEFINE b == [Idle EXCEPT !.pc = "listed", !.run = r, !.call = question[r]]
<1>1. att' = [att EXCEPT ![w] = b]
  BY DEF Poll, Becomes
<1>2. question[r] \in Calls \cup {None}
  BY DEF IInv, TypeOK
<1>3. /\ b \in Attempt
      /\ b.pc = "listed" /\ b.run = r /\ b.id = 0 /\ b.call = question[r]
      /\ b.outcome = None /\ b.snap = None
  BY <1>2 DEF Attempt, Idle, Phase
<1>4. QED
  BY <1>1, <1>3 DEF Turns

LEMMA ClaimDoes ==
  ASSUME IInv, Typed, NEW w \in Workers, Claim(w)
  PROVE  \E b \in Attempt : /\ Turns(w, b)
                            /\ b.pc = "claimed" /\ b.run = att[w].run /\ b.id = Len(grants) + 1
                            /\ b.call = att[w].call /\ SameWork(att[w], b)
<1> DEFINE n == Len(grants) + 1
           b == [att[w] EXCEPT !.pc = "claimed", !.id = n]
<1>1. att' = [att EXCEPT ![w] = b] /\ att[w] \in Attempt
  BY DEF Claim, Becomes, Typed
<1>2. n \in Nat
  <2>1. grants \in Seq(Grant)
    BY DEF IInv, TypeOK
  <2>2. QED
    BY <2>1
<1> HIDE DEF n
<1>3. /\ b \in Attempt
      /\ b.pc = "claimed" /\ b.run = att[w].run /\ b.id = n
      /\ b.call = att[w].call /\ SameWork(att[w], b)
  BY <1>1, <1>2 DEF Attempt, Phase, SameWork
<1>4. QED
  BY <1>1, <1>3 DEF Turns, n

\* The drive goes on with the answer, or asks a question.
LEMMA ResumeDoes ==
  ASSUME Typed, NEW w \in Workers, Resume(w)
  PROVE  \E b \in Attempt : /\ Turns(w, b)
                            /\ b.pc = "driving" /\ b.run = att[w].run /\ b.id = att[w].id /\ b.call = None
                            /\ SameWork(att[w], b)
<1> DEFINE b == [att[w] EXCEPT !.pc = "driving", !.call = None]
<1>1. att' = [att EXCEPT ![w] = b] /\ att[w] \in Attempt
  BY DEF Resume, Becomes, Typed
<1>2. /\ b \in Attempt
      /\ b.pc = "driving" /\ b.run = att[w].run /\ b.id = att[w].id /\ b.call = None
      /\ SameWork(att[w], b)
  BY <1>1 DEF Attempt, Phase, SameWork
<1>3. QED
  BY <1>1, <1>2 DEF Turns

LEMMA AskDoes ==
  ASSUME Typed, NEW w \in Workers, NEW c \in Calls, Ask(w, c)
  PROVE  \E b \in Attempt : /\ Turns(w, b)
                            /\ b.pc = "asking" /\ b.run = att[w].run /\ b.id = att[w].id /\ b.call = c
                            /\ SameWork(att[w], b)
<1> DEFINE b == [att[w] EXCEPT !.pc = "asking", !.call = c, !.looked = FALSE]
<1>1. att' = [att EXCEPT ![w] = b] /\ att[w] \in Attempt
  BY DEF Ask, Becomes, Typed
<1>2. /\ b \in Attempt
      /\ b.pc = "asking" /\ b.run = att[w].run /\ b.id = att[w].id /\ b.call = c
      /\ SameWork(att[w], b)
  BY <1>1 DEF Attempt, Phase, SameWork
<1>3. QED
  BY <1>1, <1>2 DEF Turns

LEMMA EndsDoes ==
  ASSUME NEW w \in Workers, Ends(w)
  PROVE  Turns(w, Idle)
BY DEF Ends, Turns, Attempt, Idle, Phase

-----------------------------------------------------------------------------
(* LeasesFit is kept *)

LEMMA AttemptMovesFit ==
  ASSUME Typed, LeasesFit, NEW w \in Workers, AttemptMoves(w), UNCHANGED vars
  PROVE  LeasesFit'
<1>1. CASE Ends(w)
  <2>1. Turns(w, Idle) /\ Idle \in Attempt
    BY <1>1, EndsDoes DEF Turns
  <2>2. \A row, st, q : LeaseFits(Idle, w, row, st, q, grants)
    BY IdleFits DEF Idle
  <2>3. ASSUME NEW v \in Workers
        PROVE  LeaseFits(att'[v], v, lease[att'[v].run], status[att'[v].run], question[att'[v].run], grants)
    BY <2>1, <2>2 DEF LeasesFit, Turns, Typed
  <2>4. QED
    BY <2>3 DEF LeasesFit, vars
<1>2. CASE \E b \in Attempt : Turns(w, b) /\ HolderMove(att[w], b)
  <2>1. PICK b \in Attempt : Turns(w, b) /\ HolderMove(att[w], b)
    BY <1>2
  <2>2. att[w] \in Attempt /\ b.run = att[w].run
    BY <2>1 DEF Typed, HolderMove, SameCase
  <2>3. LeaseFits(b, w, lease[b.run], status[b.run], question[b.run], grants)
    BY <2>1, <2>2, MoveFits DEF LeasesFit
  <2>4. ASSUME NEW v \in Workers
        PROVE  LeaseFits(att'[v], v, lease[att'[v].run], status[att'[v].run], question[att'[v].run], grants)
    BY <2>1, <2>3 DEF LeasesFit, Turns, Typed
  <2>5. QED
    BY <2>4 DEF LeasesFit, vars
<1>3. QED
  BY <1>1, <1>2 DEF AttemptMoves

\* The same worker's other attempts are no concern; the others on its run hold nothing.
LEMMA OthersFit ==
  ASSUME IInv, Typed, LeasesFit, NEW w \in Workers, att[w].pc \in Holding,
         NEW v \in Workers \ {w}, att[v].run = att[w].run,
         NEW row, NEW st, NEW q,
         att[v].pc = "listed" => st # "absent" /\ (row.live \/ st \in Terminal)
  PROVE  LeaseFits(att[v], v, row, st, q, grants)
<1>1. att[v].pc \notin Holding
  BY AloneOnRun
<1>2. /\ att[v] \in Attempt
      /\ LeaseFits(att[v], v, lease[att[v].run], status[att[v].run], question[att[v].run], grants)
  BY DEF Typed, LeasesFit
<1>3. QED
  BY <1>1, <1>2, BystanderFits DEF Attempt

LEMMA UsersFit ==
  ASSUME IInv, Typed, LeasesFit, Users
  PROVE  LeasesFit'
<1>1. UNCHANGED att
  BY DEF Users
<1>2. ASSUME NEW r \in Runs, UserRequest(r) PROVE LeasesFit'
  <2>1. UNCHANGED <<status, lease, question, grants>>
    BY <1>2 DEF UserRequest, RequestRunCancellation, AnswerRunQuestion
  <2>2. QED
    BY <1>1, <2>1 DEF LeasesFit
<1>3. ASSUME NEW r \in Runs, Admission(r) PROVE LeasesFit'
  <2>1. /\ status[r] = "absent" /\ status' = [status EXCEPT ![r] = "queued"]
        /\ UNCHANGED <<lease, question, grants>>
    BY <1>3 DEF Admission, AllocateBuildSession, AppendConversationTurn
  <2>2. \A q \in Runs \ {r} : status'[q] = status[q]
    BY <2>1 DEF IInv, TypeOK
  <2>3. ASSUME NEW v \in Workers, att[v].run = r
        PROVE  LeaseFits(att[v], v, lease[r], status'[r], question[r], grants)
    <3>1. LeaseFits(att[v], v, lease[r], status[r], question[r], grants)
      BY <2>3 DEF LeasesFit
    <3>2. att[v].pc \notin Holding /\ att[v].pc # "listed"
      BY <2>1, <3>1 DEF LeaseFits, Active
    <3>3. QED
      BY <3>1, <3>2, BystanderFits DEF Typed, Attempt
  <2>4. QED
    BY <1>1, <2>1, <2>2, <2>3, LeasesFitWithoutMove
<1>4. QED
  BY <1>2, <1>3 DEF Users

LEMMA LapseFits ==
  ASSUME IInv, Typed, LeasesFit, NEW r \in Runs, Lapse(r)
  PROVE  LeasesFit'
<1>1. /\ UNCHANGED <<att, status, question, grants>>
      /\ lease' = [lease EXCEPT ![r].live = FALSE]
      /\ NotListed(r) /\ \A v \in Workers : att[v].pc = "idle" \/ att[v].id # lease[r].id
  BY DEF Lapse, LeaseLapses, At
<1>2. \A q \in Runs \ {r} : lease'[q] = lease[q]
  BY <1>1 DEF IInv, TypeOK
<1>3. ASSUME NEW v \in Workers, att[v].run = r
      PROVE  LeaseFits(att[v], v, lease'[r], status[r], question[r], grants)
  <2>1. LeaseFits(att[v], v, lease[r], status[r], question[r], grants)
    BY <1>3 DEF LeasesFit
  <2>2. att[v].pc \notin Holding /\ att[v].pc # "listed"
    BY <1>1, <1>3, <2>1 DEF LeaseFits, NotListed, Holding
  <2>3. QED
    BY <2>1, <2>2, BystanderFits DEF Typed, Attempt
<1>4. QED
  BY <1>1, <1>2, <1>3, LeasesFitWithoutMove

LEMMA PollFits ==
  ASSUME IInv, Typed, LeasesFit, NEW w \in Workers, NEW r \in Runs, Poll(w, r)
  PROVE  LeasesFit'
<1>1. PICK b \in Attempt : /\ Turns(w, b)
                           /\ b.pc = "listed" /\ b.run = r /\ b.id = 0 /\ b.call = question[r]
  BY PollDoes
<1>2. UNCHANGED <<status, lease, question, grants>> /\ status[r] # "absent"
  BY DEF Poll, LocalStep, vars, Runnable, Unfinished
<1>3. LeaseFits(b, w, lease[r], status[r], question[r], grants)
  BY <1>1, <1>2, NoneIsNoValue DEF LeaseFits, Holding, Conversing, ParkPhase
<1>4. QED
  BY <1>1, <1>2, <1>3 DEF LeasesFit, Turns, Typed

LEMMA ClaimFits ==
  ASSUME IInv, Typed, LeasesFit, NEW w \in Workers, Claim(w)
  PROVE  LeasesFit'
<1> PICK b \in Attempt : /\ Turns(w, b)
                         /\ b.pc = "claimed" /\ b.run = att[w].run /\ b.id = Len(grants) + 1
                         /\ b.call = att[w].call
  BY ClaimDoes
<1>1. att[w].pc = "listed" /\ BeginRun(att[w].run, w) /\ att[w].run \in Runs
  BY RunOfAttempt DEF Claim, At
<1> PICK r \in Runs : r = att[w].run
  BY <1>1
<1>2. /\ Claimable(r)
      /\ \A q \in Runs : q # r => status'[q] = status[q] /\ lease'[q] = lease[q]
      /\ status'[r] \in Active
      /\ lease'[r] = [id |-> Len(grants) + 1, live |-> TRUE]
      /\ grants' = Append(grants, [run |-> r, holder |-> w])
      /\ question' = question
  BY <1>1, BeginEffect DEF IInv
<1>3. grants \in Seq(Grant) /\ [run |-> r, holder |-> w] \in Grant
  BY DEF IInv, TypeOK, Grant
<1>4. /\ b.id \in 1..Len(grants') /\ grants'[b.id] = [run |-> r, holder |-> w]
      /\ Len(grants') = Len(grants) + 1
  BY <1>2, <1>3
<1>5. b.call = question[r]
  <2>1. LeaseFits(att[w], w, lease[r], status[r], question[r], grants)
    BY DEF LeasesFit
  <2>2. att[w].call = question[r]
    BY <1>1, <1>2, <2>1 DEF LeaseFits, Claimable, Unfinished
  <2>3. QED
    BY <2>2
<1>6. LeaseFits(b, w, lease'[r], status'[r], question[r], grants')
  BY <1>2, <1>4, <1>5, NoneIsNoValue DEF LeaseFits, Holding, Conversing, ParkPhase
<1>7. ASSUME NEW v \in Workers \ {w}
      PROVE  LeaseFits(att[v], v, lease'[att[v].run], status'[att[v].run], question[att[v].run], grants')
  <2>1. LeaseFits(att[v], v, lease[att[v].run], status[att[v].run], question[att[v].run], grants)
    BY DEF LeasesFit
  <2>2. att[v] \in Attempt
    BY DEF Typed
  <2>3. LeaseFits(att[v], v, lease'[att[v].run], status'[att[v].run], question[att[v].run], grants)
    <3>1. CASE att[v].run = r
      <4>1. att[v].pc \notin Holding
        BY <1>2, <2>1, <3>1 DEF LeaseFits, Claimable
      <4>2. status'[r] # "absent" /\ lease'[r].live
        BY <1>2 DEF Active
      <4>3. QED
        BY <2>1, <2>2, <3>1, <4>1, <4>2, BystanderFits DEF Attempt
    <3>2. CASE att[v].run \in Runs \ {r}
      BY <1>2, <2>1, <3>2
    <3>3. CASE att[v].run = None
      <4>1. att[v].pc = "idle" /\ att[v].id = 0
        BY <2>1, <3>3 DEF LeaseFits
      <4>2. QED
        BY <3>3, <4>1, IdleFits
    <3>4. QED
      BY <2>2, <3>1, <3>2, <3>3 DEF Attempt
  <2>4. QED
    BY <1>2, <1>3, <2>3, IdsGrow
<1>8. ASSUME NEW v \in Workers
      PROVE  LeaseFits(att'[v], v, lease'[att'[v].run], status'[att'[v].run], question'[att'[v].run],
                       grants')
  <2>1. att'[v] = IF v = w THEN b ELSE att[v]
    BY DEF Turns, Typed
  <2>2. QED
    BY <1>2, <1>6, <1>7, <2>1
<1>9. QED
  BY <1>8 DEF LeasesFit

LEMMA ResumeFits ==
  ASSUME IInv, Typed, LeasesFit, NEW w \in Workers, Resume(w)
  PROVE  LeasesFit'
<1>1. att[w].pc = "asking" /\ TakeRunAnswer(att[w].run, att[w].call)
  BY DEF Resume, At
<1>2. att[w].pc \in Holding
  BY <1>1 DEF Holding, Phase
<1> PICK r \in Runs : r = att[w].run
  BY <1>2, HoldersRow
<1> PICK b \in Attempt : /\ Turns(w, b)
                         /\ b.pc = "driving" /\ b.run = r /\ b.id = att[w].id /\ b.call = None
  BY ResumeDoes
<1>3. /\ status' = [status EXCEPT ![r] = "running"] /\ question' = [question EXCEPT ![r] = None]
      /\ UNCHANGED <<lease, grants>>
  BY <1>1 DEF TakeRunAnswer
<1>4. /\ \A q \in Runs \ {r} : status'[q] = status[q] /\ question'[q] = question[q]
      /\ status'[r] = "running" /\ question'[r] = None
  BY <1>3 DEF IInv, TypeOK
<1>5. /\ lease[r] = [id |-> att[w].id, live |-> TRUE] /\ att[w].id \in 1..Len(grants)
      /\ grants[att[w].id] = [run |-> r, holder |-> w]
  BY <1>2, HoldersRow
<1>6. LeaseFits(b, w, lease'[r], status'[r], question'[r], grants)
  BY <1>3, <1>4, <1>5, NoneIsNoValue DEF LeaseFits, Holding, Conversing, ParkPhase, Active
<1>7. \A v \in Workers \ {w} : att[v].run = r =>
         LeaseFits(att[v], v, lease'[r], status'[r], question'[r], grants)
  <2>1. lease'[r].live /\ status'[r] # "absent"
    BY <1>3, <1>4, <1>5
  <2>2. QED
    BY <1>2, <2>1, OthersFit
<1>8. QED
  BY <1>3, <1>4, <1>6, <1>7, LeasesFitKept

LEMMA AskFits ==
  ASSUME IInv, Typed, LeasesFit, NEW w \in Workers, NEW c \in Calls, Ask(w, c)
  PROVE  LeasesFit'
<1>1. att[w].pc = "driving" /\ SuspendForQuestion(att[w].run, c)
  BY DEF Ask, At
<1>2. att[w].pc \in Holding
  BY <1>1 DEF Holding, Phase
<1> PICK r \in Runs : r = att[w].run
  BY <1>2, HoldersRow
<1> PICK b \in Attempt : /\ Turns(w, b)
                         /\ b.pc = "asking" /\ b.run = r /\ b.id = att[w].id /\ b.call = c
  BY AskDoes
<1>3. /\ status' = [status EXCEPT ![r] = "awaiting_approval"] /\ question' = [question EXCEPT ![r] = c]
      /\ UNCHANGED <<lease, grants>>
  BY <1>1 DEF SuspendForQuestion
<1>4. /\ \A q \in Runs \ {r} : status'[q] = status[q] /\ question'[q] = question[q]
      /\ status'[r] = "awaiting_approval" /\ question'[r] = c
  BY <1>3 DEF IInv, TypeOK
<1>5. /\ lease[r] = [id |-> att[w].id, live |-> TRUE] /\ att[w].id \in 1..Len(grants)
      /\ grants[att[w].id] = [run |-> r, holder |-> w]
  BY <1>2, HoldersRow
<1>6. LeaseFits(b, w, lease'[r], status'[r], question'[r], grants)
  BY <1>3, <1>4, <1>5, NoneIsNoValue DEF LeaseFits, Holding, Conversing, ParkPhase, Active
<1>7. \A v \in Workers \ {w} : att[v].run = r =>
         LeaseFits(att[v], v, lease'[r], status'[r], question'[r], grants)
  <2>1. lease'[r].live /\ status'[r] # "absent"
    BY <1>3, <1>4, <1>5
  <2>2. QED
    BY <1>2, <2>1, OthersFit
<1>8. QED
  BY <1>3, <1>4, <1>6, <1>7, LeasesFitKept

\* Writing the parked mark concerns no lease.
LEMMA ParkFits ==
  ASSUME IInv, Typed, LeasesFit, NEW w \in Workers, Park(w)
  PROVE  LeasesFit'
<1>1. att[w].pc = "park" /\ UNCHANGED <<status, lease, question, grants>>
  BY DEF Park, At, ParkRunSuspension
<1> PICK b \in Attempt : Turns(w, b) /\ b.pc = "parkSave" /\ SameCase(att[w], b)
  <2>1. Goto(w, "parkSave") /\ "parkSave" \in Phase
    BY DEF Park, Phase
  <2>2. QED
    BY <2>1, GotoDoes
<1>2. LeaseFits(b, w, lease[b.run], status[b.run], question[b.run], grants)
  <2>1. LeaseFits(att[w], w, lease[att[w].run], status[att[w].run], question[att[w].run], grants)
    BY DEF LeasesFit
  <2>2. QED
    BY <1>1, <2>1 DEF LeaseFits, SameCase, Holding, Conversing, ParkPhase, Phase
<1>3. QED
  BY <1>1, <1>2 DEF LeasesFit, Turns, Typed

\* Nobody waits for a parked run with an old question in hand.
LEMMA ParkReleaseFits ==
  ASSUME IInv, Typed, LeasesFit, ParkedUnlisted, NEW w \in Workers, ParkRelease(w)
  PROVE  LeasesFit'
<1>1. att[w].pc = "parkRelease" /\ ReleaseRunLease(att[w].id)
  BY DEF ParkRelease, At
<1>2. att[w].pc \in Holding /\ att[w].pc \in ParkPhase
  BY <1>1 DEF Holding, Phase, ParkPhase
<1> PICK r \in Runs : r = att[w].run
  BY <1>2, HoldersRow
<1> PICK b \in Attempt : Turns(w, b) /\ b.pc = "parkDrop" /\ SameCase(att[w], b)
  <2>1. Goto(w, "parkDrop") /\ "parkDrop" \in Phase
    BY DEF ParkRelease, Phase
  <2>2. QED
    BY <2>1, GotoDoes
<1>3. /\ att[w].id \in 1..Len(grants)
      /\ grants[att[w].id] = [run |-> r, holder |-> w]
  BY <1>2, HoldersRow
<1>4. UNCHANGED <<status, question, grants>> /\ \A q \in Runs \ {r} : lease'[q] = lease[q]
  BY <1>1, <1>3 DEF ReleaseRunLease, IInv, TypeOK
<1>5. LeaseFits(b, w, lease'[r], status'[r], question'[r], grants)
  BY <1>3, NoneIsNoValue DEF LeaseFits, Holding, Conversing, ParkPhase, SameCase
<1>6. \A v \in Workers \ {w} : att[v].run = r =>
         LeaseFits(att[v], v, lease'[r], status'[r], question'[r], grants)
  BY <1>2, OthersFit DEF ParkedUnlisted
<1>7. QED
  BY <1>4, <1>5, <1>6, LeasesFitKept DEF SameCase

\* A holder's end of its run is carried out.
LEMMA FinishEnds ==
  ASSUME IInv, Typed, LeasesFit, NEW w \in Workers, att[w].pc \in Holding,
         NEW o \in Outcome, FinishRun(att[w].id, o)
  PROVE  /\ \A q \in Runs \ {att[w].run} : status'[q] = status[q] /\ lease'[q] = lease[q]
         /\ lease'[att[w].run] = NoLease
         /\ status'[att[w].run] = FinishedStatus[o]
         /\ FinishedStatus[o] \in Terminal
         /\ UNCHANGED <<question, grants>>
<1> PICK r \in Runs : r = att[w].run
  BY HoldersRow
<1>1. /\ att[w].id \in 1..Len(grants) /\ grants[att[w].id].run = r
      /\ lease[r] = [id |-> att[w].id, live |-> TRUE] /\ status[r] \in Active
  <2>1. /\ att[w].id \in 1..Len(grants) /\ grants[att[w].id] = [run |-> r, holder |-> w]
        /\ lease[r] = [id |-> att[w].id, live |-> TRUE] /\ status[r] \in Active
    BY HoldersRow
  <2>2. QED
    BY <2>1
<1> PICK id \in 1..Len(grants) : id = att[w].id
  BY <1>1
<1>2. /\ \A q \in Runs : q # r => status'[q] = status[q] /\ lease'[q] = lease[q]
      /\ lease'[r] = LeaseAfterFinish(id)
      /\ UNCHANGED <<question, grants>>
  BY <1>1, FinishEffect DEF IInv
<1>3. LeaseAfterFinish(id) = NoLease
  BY <1>1 DEF LeaseAfterFinish
<1>4. EndsRun(id)
  BY <1>1, <1>3 DEF EndsRun, Unfinished, NoLease, Active, Terminal
<1>5. status'[r] = FinishedStatus[o]
  BY <1>1, <1>4 DEF FinishRun, StatusAfterFinish, IInv, TypeOK
<1>6. FinishedStatus[o] \in Terminal
  BY DEF FinishedStatus, Outcome, Terminal
<1>7. QED
  BY <1>2, <1>3, <1>5, <1>6

LEMMA EndFits ==
  ASSUME IInv, Typed, LeasesFit, NEW w \in Workers, att[w].pc \in Holding,
         NEW o \in Outcome, FinishRun(att[w].id, o), Ends(w) \/ Goto(w, "lostNote")
  PROVE  LeasesFit'
<1> PICK r \in Runs : r = att[w].run
  BY HoldersRow
<1>1. /\ \A q \in Runs \ {r} : status'[q] = status[q] /\ lease'[q] = lease[q]
      /\ status'[r] \in Terminal
      /\ UNCHANGED <<question, grants>>
  BY FinishEnds
<1>2. /\ att[w].id \in 1..Len(grants)
      /\ grants[att[w].id] = [run |-> r, holder |-> w]
  BY HoldersRow
<1>3. \A v \in Workers \ {w} : att[v].run = r =>
         LeaseFits(att[v], v, lease'[r], status'[r], question'[r], grants)
  BY <1>1, OthersFit DEF Terminal
<1>4. PICK b \in Attempt : /\ Turns(w, b)
                           /\ LeaseFits(b, w, lease'[b.run], status'[b.run], question'[b.run], grants)
  <2>1. CASE Ends(w)
    <3>1. Turns(w, Idle) /\ Idle \in Attempt
      BY <2>1, EndsDoes DEF Turns
    <3>2. \A row, st, q : LeaseFits(Idle, w, row, st, q, grants)
      BY IdleFits DEF Idle
    <3>3. QED
      BY <3>1, <3>2
  <2>2. CASE Goto(w, "lostNote")
    <3>1. PICK b \in Attempt : Turns(w, b) /\ b.pc = "lostNote" /\ SameCase(att[w], b)
      BY <2>2, GotoDoes DEF Phase
    <3>2. LeaseFits(b, w, lease'[b.run], status'[b.run], question'[b.run], grants)
      BY <1>2, <3>1, NoneIsNoValue DEF LeaseFits, Holding, Conversing, ParkPhase, SameCase
    <3>3. QED
      BY <3>1, <3>2
  <2>3. QED
    BY <2>1, <2>2
<1>5. QED
  BY <1>1, <1>3, <1>4, LeasesFitKept

LEMMA ExecStepLeasesFit ==
  ASSUME IInv, Typed, LeasesFit, ParkedUnlisted, OutcomesFit, [ExecNext]_execVars
  PROVE  LeasesFit'
<1>1. ASSUME UNCHANGED execVars PROVE LeasesFit'
  BY <1>1 DEF execVars, storeVars, vars, LeasesFit
<1>2. ASSUME NEW w \in Workers, OwnStep(w) PROVE LeasesFit'
  BY <1>2, OwnStepMoves, OwnStepLeavesStore, AttemptMovesFit
<1>3. ASSUME NEW w \in Workers, Edit(w) PROVE LeasesFit'
  BY <1>3 DEF Edit, storeVars, vars, LeasesFit
<1>4. ASSUME NEW w \in Workers, Finish(w) PROVE LeasesFit'
  <2>1. /\ att[w].pc = "finish" /\ att[w] \in Attempt
        /\ FinishRun(att[w].id, att[w].outcome) /\ Ends(w)
    BY <1>4 DEF Finish, At, Typed
  <2>2. att[w].outcome \in Outcome /\ att[w].pc \in Holding
    BY <2>1 DEF OutcomesFit, OutcomeFits, Decided, Attempt, Holding, Phase
  <2>3. QED
    BY <2>1, <2>2, EndFits
<1>5. ASSUME NEW w \in Workers, LostFinish(w) PROVE LeasesFit'
  <2>1. /\ att[w].pc = "lostFinish" /\ FinishRun(att[w].id, "failed")
        /\ Ends(w) \/ Goto(w, "lostNote")
    BY <1>5 DEF LostFinish, At
  <2>2. "failed" \in Outcome /\ att[w].pc \in Holding
    BY <2>1 DEF Outcome, Holding, Phase
  <2>3. QED
    BY <2>1, <2>2, EndFits
<1>6. QED
  BY <1>1, <1>2, <1>3, <1>4, <1>5, UsersFit, LapseFits, PollFits, ClaimFits, ResumeFits, AskFits,
     ParkFits, ParkReleaseFits, ExecCases

-----------------------------------------------------------------------------
(* ParkedUnlisted and RunningIsLeased are kept *)

LEMMA UnlistedKept ==
  ASSUME Typed, ParkedUnlisted, NEW w \in Workers, NEW b \in Attempt, Turns(w, b),
         b.pc \in ParkPhase => NotListed(b.run),
         b.pc = "listed" => \A v \in Workers : att[v].pc \in ParkPhase => att[v].run # b.run
  PROVE  ParkedUnlisted'
<1> SUFFICES ASSUME NEW u \in Workers, NEW v \in Workers, att'[u].pc \in ParkPhase, att'[v].pc = "listed"
             PROVE  att'[v].run # att'[u].run
  BY DEF ParkedUnlisted
<1>1. \A x \in Workers : att'[x] = IF x = w THEN b ELSE att[x]
  BY DEF Turns, Typed
<1>2. "listed" \notin ParkPhase
  BY DEF ParkPhase
<1>3. QED
  BY <1>1, <1>2 DEF ParkedUnlisted, NotListed

\* Only a wait that times out brings an attempt to park its run.
LEMMA TurnsUnlisted ==
  ASSUME Typed, ParkedUnlisted, NEW w \in Workers, NEW b \in Attempt, Turns(w, b), b.run = att[w].run,
         b.pc # "listed", b.pc \in ParkPhase => att[w].pc \in ParkPhase \/ NotListed(b.run)
  PROVE  ParkedUnlisted'
<1>1. att[w].pc \in ParkPhase => NotListed(b.run)
  BY DEF ParkedUnlisted, NotListed
<1>2. QED
  BY <1>1, UnlistedKept

LEMMA MovesUnlisted ==
  ASSUME Typed, ParkedUnlisted, NEW w \in Workers, AttemptMoves(w)
  PROVE  ParkedUnlisted'
<1>1. CASE Ends(w)
  <2>1. Turns(w, Idle) /\ Idle \in Attempt /\ Idle.pc = "idle"
    BY <1>1, EndsDoes DEF Turns, Idle
  <2>2. QED
    BY <2>1, UnlistedKept DEF ParkPhase
<1>2. CASE \E b \in Attempt : Turns(w, b) /\ HolderMove(att[w], b)
  <2>1. PICK b \in Attempt : Turns(w, b) /\ HolderMove(att[w], b)
    BY <1>2
  <2>2. b.pc # "listed" /\ b.run = att[w].run
    BY <2>1 DEF HolderMove, SameCase, GoesOn, Learns, Looks, Decides, Aborts, Snaps, Unpublished,
                StopsWaiting, Holding
  <2>3. b.pc \in ParkPhase => att[w].pc \in ParkPhase \/ NotListed(b.run)
    BY <2>1, <2>2 DEF HolderMove, GoesOn, Learns, Looks, Decides, Aborts, Snaps, Unpublished, StopsWaiting,
                      ParkPhase
  <2>4. QED
    BY <2>1, <2>2, <2>3, TurnsUnlisted
<1>3. QED
  BY <1>1, <1>2 DEF AttemptMoves

LEMMA ExecStepUnlisted ==
  ASSUME IInv, Typed, LeasesFit, ParkedUnlisted, [ExecNext]_execVars
  PROVE  ParkedUnlisted'
<1>1. ASSUME UNCHANGED att PROVE ParkedUnlisted'
  BY <1>1 DEF ParkedUnlisted
<1>2. ASSUME NEW w \in Workers, OwnStep(w) PROVE ParkedUnlisted'
  BY <1>2, OwnStepMoves, MovesUnlisted
<1>3. ASSUME NEW w \in Workers, NEW r \in Runs, Poll(w, r) PROVE ParkedUnlisted'
  <2>1. PICK b \in Attempt : Turns(w, b) /\ b.pc = "listed" /\ b.run = r
    BY <1>3, PollDoes
  <2>2. ~lease[r].live
    BY <1>3 DEF Poll, Runnable
  <2>3. ASSUME NEW v \in Workers, att[v].pc \in ParkPhase PROVE att[v].run # r
    <3>1. att[v].pc \in Holding
      BY <2>3 DEF ParkPhase, Holding, Phase
    <3>2. lease[att[v].run] = [id |-> att[v].id, live |-> TRUE]
      BY <3>1, HoldersRow
    <3>3. QED
      BY <2>2, <3>2
  <2>4. "listed" \notin ParkPhase
    BY DEF ParkPhase
  <2>5. QED
    BY <2>1, <2>3, <2>4, UnlistedKept
<1>4. ASSUME NEW w \in Workers, Claim(w) PROVE ParkedUnlisted'
  BY <1>4, ClaimDoes, TurnsUnlisted DEF ParkPhase
<1>5. ASSUME NEW w \in Workers, Resume(w) PROVE ParkedUnlisted'
  BY <1>5, ResumeDoes, TurnsUnlisted DEF ParkPhase
<1>6. ASSUME NEW w \in Workers, NEW c \in Calls, Ask(w, c) PROVE ParkedUnlisted'
  BY <1>6, AskDoes, TurnsUnlisted DEF ParkPhase
<1>7. ASSUME NEW w \in Workers, NEW p \in {"parkSave", "parkDrop", "lostNote"}, Goto(w, p),
             p = "parkSave" => att[w].pc = "park"
      PROVE  ParkedUnlisted'
  <2>1. PICK b \in Attempt : Turns(w, b) /\ b.pc = p /\ SameCase(att[w], b)
    BY <1>7, GotoDoes DEF Phase
  <2>2. QED
    BY <1>7, <2>1, TurnsUnlisted DEF SameCase, ParkPhase
<1>8. ASSUME NEW w \in Workers, Ends(w) PROVE ParkedUnlisted'
  BY <1>8, MovesUnlisted DEF AttemptMoves
<1>9. ASSUME NEW w \in Workers, LostFinish(w) PROVE ParkedUnlisted'
  BY <1>7, <1>8, <1>9 DEF LostFinish
<1>10. ASSUME NEW w \in Workers, Park(w) \/ ParkRelease(w) PROVE ParkedUnlisted'
  BY <1>7, <1>10 DEF Park, ParkRelease, At
<1>11. QED
  BY <1>1, <1>2, <1>3, <1>4, <1>5, <1>6, <1>8, <1>9, <1>10, ExecCases
  DEF execVars, Users, Lapse, Edit, Finish

\* A run is running only with a lease row: it is parked while it is suspended.
LEMMA ExecStepRunningIsLeased ==
  ASSUME IInv, Typed, LeasesFit, OutcomesFit, RunningIsLeased, [ExecNext]_execVars
  PROVE  RunningIsLeased'
<1>0. status \in [Runs -> RunStatus] /\ lease \in [Runs -> Lease]
  BY DEF IInv, TypeOK
<1>1. ASSUME UNCHANGED <<status, lease>> PROVE RunningIsLeased'
  BY <1>1 DEF RunningIsLeased
<1>2. ASSUME Users PROVE RunningIsLeased'
  <2>1. ASSUME NEW r \in Runs, Admission(r) PROVE RunningIsLeased'
    BY <1>0, <2>1 DEF Admission, AllocateBuildSession, AppendConversationTurn, RunningIsLeased
  <2>2. ASSUME NEW r \in Runs, UserRequest(r) PROVE RunningIsLeased'
    BY <1>1, <2>2 DEF UserRequest, RequestRunCancellation, AnswerRunQuestion
  <2>3. QED
    BY <1>2, <2>1, <2>2 DEF Users
<1>3. ASSUME NEW r \in Runs, Lapse(r) PROVE RunningIsLeased'
  BY <1>0, <1>3 DEF Lapse, LeaseLapses, RunningIsLeased, Lease
<1>4. ASSUME NEW w \in Workers, Claim(w) PROVE RunningIsLeased'
  <2>1. BeginRun(att[w].run, w) /\ att[w].run \in Runs
    BY <1>4, RunOfAttempt DEF Claim, At
  <2> PICK r \in Runs : r = att[w].run
    BY <2>1
  <2>2. /\ \A q \in Runs : q # r => status'[q] = status[q] /\ lease'[q] = lease[q]
        /\ lease'[r] = [id |-> Len(grants) + 1, live |-> TRUE]
    BY <2>1, BeginEffect DEF IInv
  <2>3. Len(grants) + 1 # 0
    <3>1. grants \in Seq(Grant)
      BY DEF IInv, TypeOK
    <3>2. QED
      BY <3>1
  <2>4. QED
    BY <2>2, <2>3 DEF RunningIsLeased
<1>5. ASSUME NEW w \in Workers, Resume(w) PROVE RunningIsLeased'
  <2>1. att[w].pc \in Holding
    BY <1>5 DEF Resume, At, Holding, Phase
  <2>2. /\ att[w].run \in Runs /\ att[w].id \in 1..Len(grants)
        /\ lease[att[w].run] = [id |-> att[w].id, live |-> TRUE]
    BY <2>1, HoldersRow
  <2>3. lease' = lease /\ status' = [status EXCEPT ![att[w].run] = "running"]
    BY <1>5 DEF Resume, TakeRunAnswer
  <2>4. lease[att[w].run].id # 0
    BY <2>2
  <2>5. QED
    BY <1>0, <2>2, <2>3, <2>4 DEF RunningIsLeased
<1>6. ASSUME NEW w \in Workers, NEW c \in Calls, Ask(w, c) PROVE RunningIsLeased'
  BY <1>0, <1>6 DEF Ask, SuspendForQuestion, RunningIsLeased
<1>7. ASSUME NEW w \in Workers, ParkRelease(w) PROVE RunningIsLeased'
  <2>1. att[w].pc \in Holding /\ att[w].pc = "parkRelease" /\ ReleaseRunLease(att[w].id)
    BY <1>7 DEF ParkRelease, At, Holding, Phase
  <2> PICK r \in Runs : r = att[w].run
    BY <2>1, HoldersRow
  <2>2. grants[att[w].id] = [run |-> r, holder |-> w]
    BY <2>1, HoldersRow
  <2>3. status[r] # "running"
    <3>1. att[w].call = question[r] /\ att[w].call # None
      BY <2>1 DEF LeasesFit, LeaseFits, Conversing, ParkPhase
    <3>2. QED
      BY <3>1 DEF IInv, QuestionShape
  <2>4. status' = status /\ \A q \in Runs \ {r} : lease'[q] = lease[q]
    BY <1>0, <2>1, <2>2 DEF ReleaseRunLease
  <2>5. QED
    BY <2>3, <2>4 DEF RunningIsLeased
<1>8. ASSUME NEW w \in Workers, att[w].pc \in Holding, NEW o \in Outcome, FinishRun(att[w].id, o)
      PROVE  RunningIsLeased'
  <2>1. /\ \A q \in Runs \ {att[w].run} : status'[q] = status[q] /\ lease'[q] = lease[q]
        /\ status'[att[w].run] \in Terminal
    BY <1>8, FinishEnds
  <2>2. QED
    BY <2>1 DEF RunningIsLeased, Terminal
<1>9. ASSUME NEW w \in Workers, Finish(w) PROVE RunningIsLeased'
  <2>1. /\ att[w].pc = "finish" /\ att[w] \in Attempt
        /\ FinishRun(att[w].id, att[w].outcome)
    BY <1>9 DEF Finish, At, Typed
  <2>2. att[w].outcome \in Outcome /\ att[w].pc \in Holding
    BY <2>1 DEF OutcomesFit, OutcomeFits, Decided, Attempt, Holding, Phase
  <2>3. QED
    BY <1>8, <2>1, <2>2
<1>10. ASSUME NEW w \in Workers, LostFinish(w) PROVE RunningIsLeased'
  <2>1. /\ att[w].pc = "lostFinish" /\ FinishRun(att[w].id, "failed")
    BY <1>10 DEF LostFinish, At
  <2>2. "failed" \in Outcome /\ att[w].pc \in Holding
    BY <2>1 DEF Outcome, Holding, Phase
  <2>3. QED
    BY <1>8, <2>1, <2>2
<1>11. ASSUME NEW w \in Workers, Park(w) PROVE RunningIsLeased'
  BY <1>1, <1>11 DEF Park, ParkRunSuspension
<1>12. ASSUME UNCHANGED vars PROVE RunningIsLeased'
  BY <1>1, <1>12 DEF vars
<1>13. QED
  BY <1>2, <1>3, <1>4, <1>5, <1>6, <1>7, <1>9, <1>10, <1>11, <1>12, OwnStepLeavesStore, ExecCases
  DEF execVars, storeVars, Edit, Poll, LocalStep

-----------------------------------------------------------------------------
(* The types are kept *)

LEMMA GrantsBounded ==
  ASSUME IInv, [Next]_vars, Len(grants) <= MaxLeases
  PROVE  Len(grants') <= MaxLeases
<1>1. grants \in Seq(Grant)
  BY DEF IInv, TypeOK
<1>2. ASSUME NEW r \in Runs, NEW w \in Workers, BeginRun(r, w) PROVE Len(grants') <= MaxLeases
  <2>1. Len(grants) < MaxLeases /\ [run |-> r, holder |-> w] \in Grant
        /\ grants' = Append(grants, [run |-> r, holder |-> w])
    BY <1>2 DEF BeginRun, Grant
  <2>2. Len(grants') = Len(grants) + 1 /\ Len(grants) \in Nat
    BY <1>1, <2>1
  <2>3. MaxLeases \in Nat
    BY BoundsAreNatural
  <2>4. QED
    BY <2>1, <2>2, <2>3
<1>3. ASSUME UNCHANGED grants PROVE Len(grants') <= MaxLeases
  BY <1>3
<1>4. QED
  BY <1>2, <1>3, StepCases
  DEF AllocateBuildSession, AppendConversationTurn, ReleaseRunLease, LeaseLapses, FinishRun,
      SuspendForQuestion, AnswerRunQuestion, TakeRunAnswer, ParkRunSuspension, storeRows

LEMMA AttTyped ==
  ASSUME IInv, Typed, LeasesFit, [ExecNext]_execVars
  PROVE  att' \in [Workers -> Attempt]
<1>1. ASSUME UNCHANGED att PROVE att' \in [Workers -> Attempt]
  BY <1>1 DEF Typed
<1>2. ASSUME NEW w \in Workers, NEW b, Turns(w, b) PROVE att' \in [Workers -> Attempt]
  BY <1>2 DEF Typed, Turns
<1>3. ASSUME NEW w \in Workers, AttemptMoves(w) PROVE att' \in [Workers -> Attempt]
  BY <1>2, <1>3, EndsDoes DEF AttemptMoves
<1>4. ASSUME NEW w \in Workers, NEW p \in Phase, Goto(w, p) PROVE att' \in [Workers -> Attempt]
  BY <1>2, <1>4, GotoDoes
<1>5. ASSUME NEW w \in Workers, Park(w) \/ ParkRelease(w) \/ LostFinish(w) \/ Finish(w)
      PROVE  att' \in [Workers -> Attempt]
  BY <1>2, <1>4, <1>5, EndsDoes DEF Park, ParkRelease, LostFinish, Finish, Phase
<1>6. QED
  BY <1>1, <1>2, <1>3, <1>5, PollDoes, ClaimDoes, ResumeDoes, AskDoes, OwnStepMoves, ExecCases
  DEF execVars, Users, Lapse, Edit

\* An event is appended to one run's ledger, or to none.
LEMMA RecordDoes ==
  ASSUME Typed, NEW r \in Runs, NEW o, RecordOutcome(r, o)
  PROVE  /\ \A q \in Runs \ {r} : outcomes'[q] = outcomes[q]
         /\ outcomes'[r] = Append(outcomes[r], o)
         /\ o \in Outcome => outcomes' \in [Runs -> Seq(Outcome)]
BY DEF RecordOutcome, Typed

\* Who records an outcome, and which one.
Recorder(w) == att[w].pc \in {"recoverPublish", "record", "note"}

LEMMA LedgerCases ==
  ASSUME IInv, Typed, LeasesFit, [ExecNext]_execVars
  PROVE  \/ UNCHANGED outcomes
         \/ \E w \in Workers, p \in {"recoverClean", "save", "finish"} :
               Recorder(w) /\ Goto(w, p) /\ RecordOutcome(att[w].run, att[w].outcome)
         \/ \E w \in Workers : LostNote(w)
<1> DEFINE P == \/ UNCHANGED outcomes
                \/ \E w \in Workers, p \in {"recoverClean", "save", "finish"} :
                      Recorder(w) /\ Goto(w, p) /\ RecordOutcome(att[w].run, att[w].outcome)
                \/ \E w \in Workers : LostNote(w)
<1>1. ASSUME UNCHANGED outcomes PROVE P
  BY <1>1
<1>2. ASSUME NEW w \in Workers, OwnStep(w) PROVE P
  <2>1. CASE RecoverPublish(w) \/ Record(w) \/ Note(w)
    BY <1>2, <2>1 DEF RecoverPublish, Record, Note, Recorder, At, LocalStep, OutsideStore, storeVars
  <2>2. CASE LostNote(w)
    BY <2>2
  <2>3. CASE Preparation(w) \/ NotTaken(w) \/ ReadLedger(w) \/ StartDrive(w) \/ AgentEnds(w) \/ UserStop(w)
             \/ LookInVain(w) \/ WaitTimesOut(w)
    BY <2>3 DEF Preparation, PrepareStop, PrepareStart, Restore, PrepareFails, PrepareDrop, storeVars,
                NotTaken, ReadLedger, StartDrive, AgentEnds, UserStop, LookInVain, WaitTimesOut, LocalStep,
                OutsideStore
  <2>4. CASE RecoverStop(w) \/ RecoverStart(w) \/ RecoverSave(w) \/ RecoverClean(w) \/ RecoverRemove(w)
             \/ ParkSave(w) \/ ParkPublish(w) \/ ParkDrop(w)
    BY <2>4 DEF RecoverStop, RecoverStart, RecoverSave, RecoverClean, RecoverRemove, SnapshotTaken,
                SnapshotFails, storeVars, ParkSave, ParkPublish, ParkDrop
  <2>5. CASE Save(w) \/ SettlePublish(w) \/ Drop(w) \/ Remove(w) \/ LostDrop(w) \/ KeeperLoses(w)
             \/ WorkerFault(w)
    BY <2>5 DEF Save, SettlePublish, Drop, Remove, LostDrop, KeeperLoses, WorkerFault, Shutdown,
                LostDrainFails, Crash, SnapshotTaken, SnapshotFails, LocalStep, OutsideStore, storeVars
  <2>6. QED
    BY <1>2, <2>1, <2>2, <2>3, <2>4, <2>5 DEF OwnStep, Recovery
<1> HIDE DEF P
<1>3. P
  BY <1>1, <1>2, ExecCases
  DEF execVars, storeVars, Users, Lapse, Poll, Claim, Edit, Resume, Ask, Park, ParkRelease, Finish,
      LostFinish, LocalStep, OutsideStore
<1>4. QED
  BY <1>3 DEF P

LEMMA RecordersOutcome ==
  ASSUME Typed, LeasesFit, OutcomesFit, NEW w \in Workers, Recorder(w)
  PROVE  /\ att[w].run \in Runs /\ att[w].outcome \in Outcome /\ att[w].pc \in Holding
         /\ att[w] \in Attempt
<1>1. att[w].pc \in Holding /\ att[w] \in Attempt
  BY DEF Recorder, Holding, Phase, Typed
<1>2. att[w].outcome # None
  BY DEF Recorder, OutcomesFit, OutcomeFits, Decided
<1>3. QED
  BY <1>1, <1>2, HoldersRow DEF Attempt

LEMMA OutcomesTyped ==
  ASSUME IInv, Typed, LeasesFit, OutcomesFit, [ExecNext]_execVars
  PROVE  outcomes' \in [Runs -> Seq(Outcome)]
<1>1. CASE UNCHANGED outcomes
  BY <1>1 DEF Typed
<1>2. ASSUME NEW w \in Workers, Recorder(w), RecordOutcome(att[w].run, att[w].outcome)
      PROVE  outcomes' \in [Runs -> Seq(Outcome)]
  BY <1>2, RecordersOutcome, RecordDoes
<1>3. ASSUME NEW w \in Workers, LostNote(w) PROVE outcomes' \in [Runs -> Seq(Outcome)]
  <2>1. att[w].run \in Runs /\ RecordOutcome(att[w].run, "failed") /\ "failed" \in Outcome
    BY <1>3, RunOfAttempt DEF LostNote, At, Outcome
  <2>2. QED
    BY <2>1, RecordDoes
<1>4. QED
  BY <1>1, <1>2, <1>3, LedgerCases

\* What a worker's own step may do to the containers, the volumes and the checkpoints.
OwnDocker(w) ==
    LET s == SessionAt(w) IN
    /\ UNCHANGED edits
    /\ UNCHANGED faults \/ Fault
    /\ UNCHANGED head \/ (att[w].snap # None /\ Publish(w))
    /\ \/ /\ UNCHANGED container \/ container' = Destroyed(s)
          /\ UNCHANGED volume
          /\ UNCHANGED <<newest, saved>> \/ Snapshot(s)
       \/ Started(w) /\ att[w].pc # "listed" /\ UNCHANGED <<newest, saved>>
       \/ /\ att[w].pc \in {"remove", "recoverRemove"} /\ att[w].snap # None
          /\ Removed(s)
          /\ UNCHANGED <<container, newest, saved>>
       \/ Restore(w)

LEMMA OwnStepWorks ==
  ASSUME NEW w \in Workers, OwnStep(w)
  PROVE  att[w].pc # "idle"
<1>1. CASE Recovery(w) \/ Preparation(w)
  BY <1>1 DEF Recovery, RecoverStop, RecoverStart, RecoverSave, RecoverPublish, RecoverClean, RecoverRemove,
              Preparation, PrepareStop, PrepareStart, Restore, PrepareFails, PrepareDrop, At
<1>2. CASE NotTaken(w) \/ ReadLedger(w) \/ StartDrive(w) \/ AgentEnds(w) \/ UserStop(w) \/ LookInVain(w)
           \/ WaitTimesOut(w) \/ ParkSave(w) \/ ParkPublish(w) \/ ParkDrop(w)
  BY <1>2 DEF NotTaken, ReadLedger, StartDrive, AgentEnds, UserStop, LookInVain, WaitTimesOut, ParkSave,
              ParkPublish, ParkDrop, At
<1>3. CASE Record(w) \/ Save(w) \/ SettlePublish(w) \/ Drop(w) \/ Remove(w) \/ Note(w) \/ LostDrop(w)
           \/ LostNote(w) \/ KeeperLoses(w) \/ WorkerFault(w)
  BY <1>3 DEF Record, Save, SettlePublish, Drop, Remove, Note, LostDrop, LostNote, KeeperLoses, WorkerFault,
              Shutdown, LostDrainFails, Crash, Working, At
<1>4. QED
  BY <1>1, <1>2, <1>3 DEF OwnStep

LEMMA OwnStepDocker ==
  ASSUME WorkInv, NEW w \in Workers, OwnStep(w)
  PROVE  OwnDocker(w)
<1>1. att[w].pc \in {"recoverPublish", "publish"} => att[w].snap # None
  BY DEF WorkInv, WorkFits
<1>2. ASSUME UNCHANGED <<docker, checkpoints, edits>>, UNCHANGED faults \/ Fault PROVE OwnDocker(w)
  BY <1>2 DEF OwnDocker, docker, checkpoints
<1>3. ASSUME UNCHANGED container \/ container' = Destroyed(SessionAt(w)),
             UNCHANGED <<volume, checkpoints, edits, faults>>
      PROVE  OwnDocker(w)
  BY <1>3 DEF OwnDocker, checkpoints
<1>4. ASSUME att[w].snap # None, Publish(w) \/ UNCHANGED head, UNCHANGED <<docker, newest, saved, edits, faults>>
      PROVE  OwnDocker(w)
  BY <1>4 DEF OwnDocker, docker
<1>5. ASSUME NEW p, SnapshotTaken(w, p) PROVE OwnDocker(w)
  BY <1>5 DEF SnapshotTaken, OwnDocker, docker
<1>6. ASSUME NEW p, SnapshotFails(w, p) PROVE OwnDocker(w)
  BY <1>2, <1>6 DEF SnapshotFails
<1>7. CASE RecoverSave(w) \/ ParkSave(w) \/ Save(w)
  BY <1>5, <1>6, <1>7 DEF RecoverSave, ParkSave, Save
<1>8. CASE RecoverStop(w) \/ RecoverClean(w) \/ PrepareStop(w) \/ PrepareDrop(w) \/ ParkDrop(w) \/ Drop(w)
           \/ LostDrop(w)
  BY <1>3, <1>8 DEF RecoverStop, RecoverClean, PrepareStop, PrepareDrop, ParkDrop, Drop, LostDrop
<1>9. CASE RecoverPublish(w) \/ SettlePublish(w)
  BY <1>1, <1>2, <1>4, <1>9 DEF RecoverPublish, SettlePublish, At, LocalStep, OutsideStore, OutsideLedger
<1>10. CASE ParkPublish(w)
  <2>1. CASE att[w].snap = None
    BY <1>2, <1>10, <2>1 DEF ParkPublish, checkpoints
  <2>2. CASE att[w].snap # None
    BY <1>4, <1>10, <2>2 DEF ParkPublish
  <2>3. QED
    BY <2>1, <2>2
<1>11. CASE RecoverStart(w) \/ PrepareStart(w)
  BY <1>11 DEF RecoverStart, PrepareStart, OwnDocker, checkpoints, At
<1>12. CASE Remove(w) \/ RecoverRemove(w)
  <2>1. CASE att[w].snap = None
    BY <1>3, <1>12, <2>1 DEF Remove, RecoverRemove, VolumeSaved
  <2>2. CASE att[w].snap # None
    BY <1>12, <2>2 DEF Remove, RecoverRemove, VolumeSaved, OwnDocker, checkpoints, At
  <2>3. QED
    BY <2>1, <2>2
<1>13. CASE Restore(w)
  BY <1>13 DEF Restore, OwnDocker
<1>14. CASE NotTaken(w) \/ ReadLedger(w) \/ StartDrive(w) \/ AgentEnds(w) \/ UserStop(w) \/ LookInVain(w)
            \/ WaitTimesOut(w) \/ LostDrainFails(w)
  BY <1>2, <1>14 DEF NotTaken, ReadLedger, StartDrive, AgentEnds, UserStop, LookInVain, WaitTimesOut,
                     LostDrainFails, LocalStep, OutsideStore, OutsideLedger
<1>15. CASE Record(w) \/ Note(w) \/ LostNote(w)
  BY <1>2, <1>15 DEF Record, Note, LostNote, OutsideLedger
<1>16. CASE PrepareFails(w) \/ KeeperLoses(w) \/ Shutdown(w) \/ Crash(w)
  BY <1>2, <1>16 DEF PrepareFails, KeeperLoses, Shutdown, Crash
<1>17. QED
  BY <1>7, <1>8, <1>9, <1>10, <1>11, <1>12, <1>13, <1>14, <1>15, <1>16
  DEF OwnStep, Recovery, Preparation, WorkerFault

\* Of the other steps only an edit touches a volume.
LEMMA DockerCases ==
  ASSUME WorkInv, [ExecNext]_execVars
  PROVE  \/ UNCHANGED <<docker, checkpoints, edits, faults>>
         \/ \E w \in Workers : OwnStep(w) /\ OwnDocker(w)
         \/ \E w \in Workers : Edit(w)
<1> DEFINE P == \/ UNCHANGED <<docker, checkpoints, edits, faults>>
                \/ \E w \in Workers : OwnStep(w) /\ OwnDocker(w)
                \/ \E w \in Workers : Edit(w)
<1>1. ASSUME UNCHANGED <<docker, checkpoints, edits, faults>> PROVE P
  BY <1>1
<1>2. ASSUME NEW w \in Workers, OwnStep(w) \/ Edit(w) PROVE P
  BY <1>2, OwnStepDocker
<1> HIDE DEF P
<1>3. P
  BY <1>1, <1>2, ExecCases
  DEF execVars, Users, Lapse, Poll, Claim, Resume, Ask, Park, ParkRelease, Finish, LostFinish, LocalStep,
      OutsideStore, OutsideLedger
<1>4. QED
  BY <1>3 DEF P

DockerTyped ==
    /\ container \in [Sessions -> 0..MaxLeases]
    /\ volume \in [Sessions -> [present: BOOLEAN, work: WorkSets]]
    /\ newest \in [Projects -> WorkSets]
    /\ head \in [Sessions -> [isolated: BOOLEAN, work: WorkSets]]
    /\ saved \in [Projects -> WorkSets]
    /\ edits \in [Sessions -> WorkSets]
    /\ faults \in 0..MaxFaults

\* An issued id fits the bound; it is the token of an edit.
LEMMA IdIsToken ==
  ASSUME IInv, Typed, NEW id \in 1..Len(grants)
  PROVE  id \in Tokens /\ id \in 0..MaxLeases
<1>1. Len(grants) \in Nat /\ MaxLeases \in Nat /\ Len(grants) <= MaxLeases
  <2>1. grants \in Seq(Grant)
    BY DEF IInv, TypeOK
  <2>2. QED
    BY <2>1, BoundsAreNatural DEF Typed
<1>2. QED
  BY <1>1 DEF Tokens

LEMMA FaultTyped ==
  ASSUME faults \in 0..MaxFaults, UNCHANGED faults \/ Fault
  PROVE  faults' \in 0..MaxFaults
<1>1. MaxFaults \in Nat
  BY BoundsAreNatural
<1>2. QED
  BY <1>1 DEF Fault

LEMMA RestoreTyped ==
  ASSUME DockerTyped, NEW w \in Workers, NEW s \in Sessions, s = SessionAt(w), ProjectOf[s] \in Projects,
         Restore(w)
  PROVE  DockerTyped'
<1> DEFINE p == ProjectOf[s]
           retained == IF att[w].retained THEN volume[s].work ELSE {}
           base == BaseOf(s, IF att[w].retained THEN volume[s].work ELSE newest[p])
<1>1. /\ volume[s].work \in WorkSets /\ newest[p] \in WorkSets /\ head[s].work \in WorkSets
      /\ saved[p] \in WorkSets
  BY DEF DockerTyped
<1>2. base \in WorkSets /\ retained \in WorkSets
  BY <1>1 DEF BaseOf, WorkSets
<1>3. /\ UNCHANGED <<container, head, edits, faults>>
      /\ \/ UNCHANGED <<volume, newest, saved>>
         \/ volume' = [volume EXCEPT ![s].work = base] /\ UNCHANGED <<newest, saved>>
         \/ /\ volume' = [volume EXCEPT ![s].work = base]
            /\ newest' = [newest EXCEPT ![p] = base]
            /\ saved' = [saved EXCEPT ![p] = @ \cup retained \cup base]
  BY DEF Restore
<1> HIDE DEF base, retained, p
<1>4. \A x : volume' = [volume EXCEPT ![s].work = x] /\ x \in WorkSets =>
              volume' \in [Sessions -> [present: BOOLEAN, work: WorkSets]]
  BY DEF DockerTyped
<1>5. volume' \in [Sessions -> [present: BOOLEAN, work: WorkSets]]
  BY <1>2, <1>3, <1>4 DEF DockerTyped
<1>6. newest' \in [Projects -> WorkSets]
  BY <1>2, <1>3 DEF DockerTyped
<1>7. saved' \in [Projects -> WorkSets]
  <2>1. saved[p] \cup retained \cup base \in WorkSets
    BY <1>1, <1>2 DEF WorkSets, p
  <2>2. QED
    BY <1>3, <2>1 DEF DockerTyped
<1>8. QED
  BY <1>3, <1>5, <1>6, <1>7 DEF DockerTyped

LEMMA ExecStepDockerTyped ==
  ASSUME IInv, Typed, LeasesFit, WorkInv, [ExecNext]_execVars
  PROVE  DockerTyped'
<1>0. DockerTyped
  BY DEF Typed, DockerTyped
<1>1. CASE UNCHANGED <<docker, checkpoints, edits, faults>>
  BY <1>0, <1>1 DEF DockerTyped, docker, checkpoints
<1>2. ASSUME NEW w \in Workers, OwnStep(w), OwnDocker(w) PROVE DockerTyped'
  <2>1. /\ att[w] \in Attempt /\ SessionAt(w) \in Sessions
        /\ ProjectOf[SessionAt(w)] \in Projects
    BY <1>2, OwnStepWorks, RunOfAttempt DEF SessionAt, ProjectOfRun
  <2> PICK s \in Sessions : s = SessionAt(w)
    BY <2>1
  <2>2. faults' \in 0..MaxFaults /\ edits' \in [Sessions -> WorkSets]
    BY <1>0, <1>2, FaultTyped DEF OwnDocker, DockerTyped
  <2>3. head' \in [Sessions -> [isolated: BOOLEAN, work: WorkSets]]
    <3>1. att[w].snap # None => att[w].snap \in WorkSets
      BY <2>1 DEF Attempt, WorkSets
    <3>2. UNCHANGED head \/ (att[w].snap \in WorkSets /\ Publish(w))
      BY <1>2, <3>1 DEF OwnDocker
    <3>3. head \in [Sessions -> [isolated: BOOLEAN, work: WorkSets]]
      BY <1>0 DEF DockerTyped
    <3>4. ASSUME NEW x \in WorkSets, head' = [head EXCEPT ![s] = [isolated |-> TRUE, work |-> x]]
          PROVE  head' \in [Sessions -> [isolated: BOOLEAN, work: WorkSets]]
      BY <3>3, <3>4
    <3>5. QED
      BY <3>2, <3>3, <3>4 DEF Publish
  <2>4. CASE /\ UNCHANGED container \/ container' = Destroyed(s)
             /\ UNCHANGED volume
             /\ UNCHANGED <<newest, saved>> \/ Snapshot(s)
    <3>1. container' \in [Sessions -> 0..MaxLeases]
      <4>1. 0 \in 0..MaxLeases
        BY BoundsAreNatural
      <4>2. QED
        BY <1>0, <2>4, <4>1 DEF DockerTyped, Destroyed
    <3>2. newest' \in [Projects -> WorkSets] /\ saved' \in [Projects -> WorkSets]
      <4>1. volume[s].work \in WorkSets /\ saved[ProjectOf[s]] \in WorkSets
        BY <1>0, <2>1 DEF DockerTyped
      <4>2. saved[ProjectOf[s]] \cup volume[s].work \in WorkSets
        BY <4>1 DEF WorkSets
      <4>3. QED
        BY <1>0, <2>4, <4>1, <4>2 DEF DockerTyped, Snapshot
    <3>3. QED
      BY <1>0, <2>2, <2>3, <2>4, <3>1, <3>2 DEF DockerTyped
  <2>5. CASE Started(w) /\ UNCHANGED <<newest, saved>> /\ att[w].pc # "listed"
    <3>1. att[w].id \in 0..MaxLeases
      <4>1. att[w].id \in 1..Len(grants)
        BY <1>2, <2>5, OwnStepWorks DEF LeasesFit, LeaseFits
      <4>2. QED
        BY <4>1, IdIsToken
    <3>2. container' \in [Sessions -> 0..MaxLeases]
      BY <1>0, <2>5, <3>1 DEF DockerTyped, Started
    <3>3. volume' \in [Sessions -> [present: BOOLEAN, work: WorkSets]]
      BY <1>0, <2>5 DEF DockerTyped, Started
    <3>4. QED
      BY <1>0, <2>2, <2>3, <2>5, <3>2, <3>3 DEF DockerTyped
  <2>6. CASE Removed(s) /\ UNCHANGED <<container, newest, saved>>
    <3>1. {} \in WorkSets
      BY DEF WorkSets
    <3>2. volume' \in [Sessions -> [present: BOOLEAN, work: WorkSets]]
      BY <1>0, <2>6, <3>1 DEF DockerTyped, Removed
    <3>3. QED
      BY <1>0, <2>2, <2>3, <2>6, <3>2 DEF DockerTyped
  <2>7. CASE Restore(w)
    BY <1>0, <2>1, <2>7, RestoreTyped
  <2>8. QED
    BY <1>2, <2>4, <2>5, <2>6, <2>7 DEF OwnDocker
<1>3. ASSUME NEW w \in Workers, Edit(w) PROVE DockerTyped'
  <2>1. att[w].pc = "driving"
    BY <1>3 DEF Edit, At
  <2>2. /\ SessionAt(w) \in Sessions /\ att[w].id \in Tokens
    <3>1. att[w].id \in 1..Len(grants)
      BY <2>1 DEF LeasesFit, LeaseFits
    <3>2. QED
      BY <2>1, <3>1, IdIsToken, RunOfAttempt DEF SessionAt
  <2> PICK s \in Sessions : s = SessionAt(w)
    BY <2>2
  <2> PICK t \in Tokens : t = att[w].id
    BY <2>2
  <2>3. /\ UNCHANGED <<container, newest, head, saved, faults>>
        /\ volume' = [volume EXCEPT ![s].work = @ \cup {t}]
        /\ edits' = [edits EXCEPT ![s] = @ \cup {t}]
    BY <1>3 DEF Edit, checkpoints
  <2>4. volume' \in [Sessions -> [present: BOOLEAN, work: WorkSets]]
    BY <1>0, <2>3 DEF DockerTyped, WorkSets
  <2>5. edits' \in [Sessions -> WorkSets]
    BY <1>0, <2>3 DEF DockerTyped, WorkSets
  <2>6. QED
    BY <1>0, <2>3, <2>4, <2>5 DEF DockerTyped
<1>4. QED
  BY <1>1, <1>2, <1>3, DockerCases

LEMMA ExecStepTyped ==
  ASSUME IInv, Typed, LeasesFit, OutcomesFit, WorkInv, [ExecNext]_execVars
  PROVE  Typed'
<1>1. Len(grants') <= MaxLeases
  BY ExecStepIsStoreStep, GrantsBounded DEF Typed
<1>2. QED
  BY <1>1, AttTyped, OutcomesTyped, ExecStepDockerTyped DEF Typed, DockerTyped

-----------------------------------------------------------------------------
(* OutcomesFit is kept *)

\* No two outcomes are stored as the same status.
LEMMA StatusTellsOutcome ==
  ASSUME NEW o \in Outcome, NEW u \in Outcome, FinishedStatus[o] = FinishedStatus[u]
  PROVE  o = u
BY DEF Outcome, FinishedStatus

LEMMA MoveKnowsOutcome ==
  ASSUME NEW a \in Attempt, NEW b \in Attempt, NEW st, HolderMove(a, b),
         outcomes[a.run] \in Seq(Outcome),
         \A i, j \in 1..Len(outcomes[a.run]) : outcomes[a.run][i] = outcomes[a.run][j],
         OutcomeFits(a, outcomes[a.run], st)
  PROVE  OutcomeFits(b, outcomes[a.run], st)
<1> DEFINE os == outcomes[a.run]
<1>0. os = <<>> => \A o : AllAre(os, o)
  BY DEF AllAre
<1>1. b.pc # "lostNote"
  BY DEF HolderMove, GoesOn, Learns, Looks, Decides, Aborts, Snaps, Unpublished, StopsWaiting, Holding
<1>2. CASE GoesOn(a, b)
  <2>1. b.pc \in Undecided => a.pc \in Undecided
    BY <1>2 DEF GoesOn, Undecided, ParkPhase
  <2>2. b.pc \in Decided \cup {"prepareDrop", "record"} => a.outcome # None
    BY <1>2 DEF GoesOn, Decided, OutcomeFits
  <2>3. b.pc \in Settled /\ a.outcome # None => AllAre(os, a.outcome)
    BY <1>0, <1>2 DEF GoesOn, Settled, Decided, Undecided, OutcomeFits
  <2>4. QED
    BY <1>1, <1>2, <2>1, <2>2, <2>3 DEF OutcomeFits, GoesOn, SameWork
<1>3. CASE Learns(a, b)
  <2>1. os # <<>> => 1 \in 1..Len(os)
    BY DEF OutcomeFits
  <2>2. b.pc = "recover" => AllAre(os, b.outcome)
    BY <1>3, <2>1 DEF Learns, AllAre
  <2>3. QED
    BY <1>1, <1>3, <2>2 DEF Learns, OutcomeFits, Undecided, Decided, Settled, ParkPhase
<1>4. CASE Looks(a, b)
  BY <1>1, <1>4 DEF Looks, OutcomeFits, Undecided, Decided, Settled, ParkPhase
<1>5. CASE Decides(a, b)
  BY <1>0, <1>1, <1>5 DEF Decides, OutcomeFits, Undecided, Decided, Settled, ParkPhase
<1>6. CASE Aborts(a, b)
  BY <1>1, <1>6 DEF Aborts, OutcomeFits, Undecided, Decided, Settled, ParkPhase
<1>7. CASE Snaps(a, b)
  BY <1>1, <1>7 DEF Snaps, OutcomeFits, Undecided, Decided, Settled, ParkPhase
<1>8. CASE Unpublished(a, b)
  BY <1>1, <1>8 DEF Unpublished, OutcomeFits, Undecided, Decided, Settled, ParkPhase
<1>9. CASE StopsWaiting(a, b)
  BY <1>1, <1>9 DEF StopsWaiting, SameWork, OutcomeFits, Undecided, Decided, Settled, ParkPhase
<1>10. QED
  BY <1>2, <1>3, <1>4, <1>5, <1>6, <1>7, <1>8, <1>9 DEF HolderMove

\* The outcomes of one run, all the same and the one it ended with.
RunsOutcomes(os, st) ==
    /\ \A i, j \in 1..Len(os) : os[i] = os[j]
    /\ st \in Terminal => \A i \in 1..Len(os) : FinishedStatus[os[i]] = st

LEMMA OutcomesOfRuns ==
  ASSUME outcomes \in [Runs -> Seq(Outcome)]
  PROVE  OneOutcome /\ OutcomesAgree <=> \A r \in Runs : RunsOutcomes(outcomes[r], status[r])
<1>1. \A r \in Runs : DOMAIN outcomes[r] = 1..Len(outcomes[r])
  OBVIOUS
<1>2. QED
  BY <1>1 DEF OneOutcome, OutcomesAgree, RunsOutcomes

\* An outcome like those before it.
LEMMA AllAreOne ==
  ASSUME NEW os \in Seq(Outcome), NEW o \in Outcome, AllAre(os, o)
  PROVE  /\ AllAre(Append(os, o), o)
         /\ \A st : (st \in Terminal => FinishedStatus[o] = st) => RunsOutcomes(Append(os, o), st)
         /\ \A st : (st \in Terminal => FinishedStatus[o] = st) => RunsOutcomes(os, st)
<1>1. /\ Len(Append(os, o)) = Len(os) + 1 /\ Len(os) \in Nat
      /\ \A i \in 1..Len(os) : Append(os, o)[i] = os[i]
      /\ Append(os, o)[Len(os) + 1] = o
  OBVIOUS
<1> DEFINE more == Append(os, o)
<1>2. AllAre(more, o)
  <2>1. \A i \in 1..Len(more) : i \in 1..Len(os) \/ i = Len(os) + 1
    BY <1>1
  <2> HIDE DEF more
  <2>2. \A i \in 1..Len(more) : more[i] = o
    BY <1>1, <2>1 DEF AllAre, more
  <2>3. QED
    BY <2>2 DEF AllAre
<1>3. ASSUME NEW xs, AllAre(xs, o), NEW st, st \in Terminal => FinishedStatus[o] = st
      PROVE  RunsOutcomes(xs, st)
  BY <1>3 DEF AllAre, RunsOutcomes
<1>4. QED
  BY <1>2, <1>3

LEMMA RunlessIsIdle ==
  ASSUME LeasesFit, NEW v \in Workers, att[v].run = None
  PROVE  att[v].pc = "idle"
BY DEF LeasesFit, LeaseFits

\* A step changes one attempt, and the ledger and the status of one run.
LEMMA OutcomesFitKept ==
  ASSUME Typed, LeasesFit, OutcomesFit, outcomes' \in [Runs -> Seq(Outcome)],
         NEW w \in Workers, NEW b \in Attempt, Turns(w, b), NEW r \in Runs,
         \A q \in Runs \ {r} : status'[q] = status[q] /\ outcomes'[q] = outcomes[q],
         RunsOutcomes(outcomes'[r], status'[r]),
         \A v \in Workers \ {w} : att[v].run = r => OutcomeFits(att[v], outcomes'[r], status'[r]),
         OutcomeFits(b, outcomes'[b.run], status'[b.run])
  PROVE  OutcomesFit'
<1>1. \A q \in Runs : RunsOutcomes(outcomes[q], status[q])
  BY OutcomesOfRuns DEF Typed, OutcomesFit
<1>2. \A q \in Runs : RunsOutcomes(outcomes'[q], status'[q])
  BY <1>1
<1>3. OneOutcome' /\ OutcomesAgree'
  <2>1. \A q \in Runs : DOMAIN outcomes'[q] = 1..Len(outcomes'[q])
    OBVIOUS
  <2>2. QED
    BY <1>2, <2>1 DEF OneOutcome, OutcomesAgree, RunsOutcomes
<1>4. ASSUME NEW v \in Workers
      PROVE  OutcomeFits(att'[v], outcomes'[att'[v].run], status'[att'[v].run])
  <2>1. CASE v = w
    BY <2>1 DEF Turns, Typed
  <2>2. CASE v # w
    <3>1. att'[v] = att[v] /\ att[v] \in Attempt
      BY <2>2 DEF Turns, Typed
    <3>2. CASE att[v].run = r
      BY <2>2, <3>1, <3>2
    <3>3. CASE att[v].run = None
      BY <3>1, <3>3, RunlessIsIdle DEF OutcomeFits, Undecided, Decided, Settled, ParkPhase
    <3>4. CASE att[v].run \in Runs \ {r}
      BY <3>1, <3>4 DEF OutcomesFit
    <3>5. QED
      BY <3>1, <3>2, <3>3, <3>4 DEF Attempt
  <2>3. QED
    BY <2>1, <2>2
<1>5. QED
  BY <1>3, <1>4 DEF OutcomesFit

\* The other attempts on a holder's run know no outcome of it.
LEMMA OthersKnowNoOutcome ==
  ASSUME IInv, Typed, LeasesFit, OutcomesFit, NEW w \in Workers, att[w].pc \in Holding,
         NEW v \in Workers \ {w}, att[v].run = att[w].run
  PROVE  \A os, st : OutcomeFits(att[v], os, st)
<1>1. att[v].pc \notin Holding
  BY AloneOnRun
<1>2. att[v].pc # "lostNote"
  <2>1. status[att[w].run] \in Active
    BY HoldersRow
  <2>2. OutcomeFits(att[v], outcomes[att[v].run], status[att[v].run])
    BY DEF OutcomesFit
  <2>3. QED
    BY <2>1, <2>2 DEF OutcomeFits, Active
<1>3. QED
  BY <1>1, <1>2 DEF OutcomeFits, Undecided, Decided, Settled, ParkPhase, Holding, Phase

\* An attempt of no run, or of one it has only begun, knows no outcome.
LEMMA KnowsNoOutcome ==
  ASSUME NEW a, a.pc \in {"idle", "listed", "claimed", "parkDrop"}
  PROVE  \A os, st : OutcomeFits(a, os, st)
BY DEF OutcomeFits, Undecided, Decided, Settled, ParkPhase

LEMMA EndedKnowsNothing ==
  ASSUME NEW w \in Workers, Ends(w)
  PROVE  Turns(w, Idle) /\ Idle \in Attempt /\ \A os, st : OutcomeFits(Idle, os, st)
<1>1. Idle.pc = "idle"
  BY DEF Idle
<1>2. QED
  BY <1>1, EndsDoes, KnowsNoOutcome DEF Turns

\* The ledger and the status of every run are as they were.
LEMMA SameOutcomesFit ==
  ASSUME Typed, LeasesFit, OutcomesFit, UNCHANGED <<outcomes, status>>, NEW w \in Workers, AttemptMoves(w)
  PROVE  OutcomesFit'
<1>1. PICK b \in Attempt : Turns(w, b) /\ OutcomeFits(b, outcomes[b.run], status[b.run])
  <2>1. CASE Ends(w)
    BY <2>1, EndedKnowsNothing
  <2>2. CASE \E b \in Attempt : Turns(w, b) /\ HolderMove(att[w], b)
    <3>1. PICK b \in Attempt : Turns(w, b) /\ HolderMove(att[w], b)
      BY <2>2
    <3>2. att[w] \in Attempt /\ b.run = att[w].run /\ att[w].pc # "idle"
      BY <3>1 DEF Typed, HolderMove, SameCase, GoesOn, Learns, Looks, Decides, Aborts, Snaps, Unpublished,
                  StopsWaiting, Holding
    <3>3. /\ att[w].run \in Runs /\ outcomes[att[w].run] \in Seq(Outcome)
          /\ OutcomeFits(att[w], outcomes[att[w].run], status[att[w].run])
      BY <3>2, RunOfAttempt DEF OutcomesFit, Typed
    <3>4. \A i, j \in 1..Len(outcomes[att[w].run]) : outcomes[att[w].run][i] = outcomes[att[w].run][j]
      BY <3>3 DEF OutcomesFit, OneOutcome
    <3>5. OutcomeFits(b, outcomes[att[w].run], status[att[w].run])
      BY <3>1, <3>2, <3>3, <3>4, MoveKnowsOutcome
    <3>6. QED
      BY <3>1, <3>2, <3>5
  <2>3. QED
    BY <2>1, <2>2 DEF AttemptMoves
<1>2. OneOutcome' /\ OutcomesAgree'
  BY DEF OutcomesFit, OneOutcome, OutcomesAgree
<1>3. ASSUME NEW v \in Workers PROVE OutcomeFits(att'[v], outcomes[att'[v].run], status[att'[v].run])
  BY <1>1 DEF OutcomesFit, Turns, Typed
<1>4. QED
  BY <1>2, <1>3 DEF OutcomesFit

\* The outcome the attempt will end its run with is appended.
LEMMA RecordFits ==
  ASSUME IInv, Typed, LeasesFit, OutcomesFit, UNCHANGED status, NEW w \in Workers,
         NEW p \in {"recoverClean", "save", "finish"}, Recorder(w), Goto(w, p),
         RecordOutcome(att[w].run, att[w].outcome)
  PROVE  OutcomesFit'
<1>1. att[w].run \in Runs /\ att[w].outcome \in Outcome /\ att[w].pc \in Holding
  BY RecordersOutcome
<1> PICK r \in Runs : r = att[w].run
  BY <1>1
<1> PICK o \in Outcome : o = att[w].outcome
  BY <1>1
<1>2. /\ \A q \in Runs \ {r} : outcomes'[q] = outcomes[q]
      /\ outcomes'[r] = Append(outcomes[r], o)
      /\ outcomes' \in [Runs -> Seq(Outcome)]
  BY RecordDoes
<1>3. AllAre(outcomes[r], o) /\ outcomes[r] \in Seq(Outcome)
  <2>1. OutcomeFits(att[w], outcomes[r], status[r])
    BY DEF OutcomesFit
  <2>2. o # None
    BY NoneIsNoOutcome
  <2>3. QED
    BY <2>1, <2>2 DEF Typed, OutcomeFits, Recorder, Undecided, Settled, Decided, AllAre
<1>4. status[r] \notin Terminal
  <2>1. status[r] \in Active
    BY <1>1, HoldersRow
  <2>2. QED
    BY <2>1 DEF Active, Terminal
<1>5. AllAre(outcomes'[r], o) /\ RunsOutcomes(outcomes'[r], status'[r])
  BY <1>2, <1>3, <1>4, AllAreOne
<1> PICK b \in Attempt : Turns(w, b) /\ b.pc = p /\ b.run = r /\ b.outcome = o
  BY GotoDoes DEF Phase, SameCase, SameWork
<1>6. OutcomeFits(b, outcomes'[r], status'[r])
  <2>1. o # None
    BY NoneIsNoOutcome
  <2>2. QED
    BY <1>5, <2>1 DEF OutcomeFits, Undecided, ParkPhase
<1>7. \A v \in Workers \ {w} : att[v].run = r => OutcomeFits(att[v], outcomes'[r], status'[r])
  BY <1>1, OthersKnowNoOutcome
<1>8. \A q \in Runs \ {r} : status'[q] = status[q] /\ outcomes'[q] = outcomes[q]
  BY <1>2
<1>9. OutcomeFits(b, outcomes'[b.run], status'[b.run])
  BY <1>6
<1>10. QED
  BY <1>2, <1>5, <1>7, <1>8, <1>9, OutcomesFitKept

\* A worker that lost its lease tells of the failure after the end.
LEMMA LostNoteFits ==
  ASSUME IInv, Typed, LeasesFit, OutcomesFit, NEW w \in Workers, LostNote(w)
  PROVE  OutcomesFit'
<1>1. /\ att[w].pc = "lostNote" /\ RecordOutcome(att[w].run, "failed") /\ Ends(w)
      /\ att[w].run \in Runs /\ UNCHANGED status
  BY RunOfAttempt DEF LostNote, At, RecordOutcome, vars
<1> PICK r \in Runs : r = att[w].run
  BY <1>1
<1>2. status[r] = "failed" /\ "failed" \in Outcome /\ FinishedStatus["failed"] = "failed"
  BY <1>1 DEF OutcomesFit, OutcomeFits, Outcome, FinishedStatus
<1>3. /\ \A q \in Runs \ {r} : outcomes'[q] = outcomes[q]
      /\ outcomes'[r] = Append(outcomes[r], "failed")
      /\ outcomes' \in [Runs -> Seq(Outcome)]
  BY <1>1, <1>2, RecordDoes
<1>4. AllAre(outcomes[r], "failed") /\ outcomes[r] \in Seq(Outcome)
  <2>1. RunsOutcomes(outcomes[r], status[r]) /\ outcomes[r] \in Seq(Outcome)
    BY OutcomesOfRuns DEF Typed, OutcomesFit
  <2>2. ASSUME NEW i \in 1..Len(outcomes[r]) PROVE outcomes[r][i] = "failed"
    <3>1. FinishedStatus[outcomes[r][i]] = "failed" /\ outcomes[r][i] \in Outcome
      BY <1>2, <2>1 DEF RunsOutcomes, Terminal
    <3>2. QED
      BY <1>2, <3>1, StatusTellsOutcome
  <2>3. QED
    BY <2>1, <2>2 DEF AllAre
<1>5. RunsOutcomes(outcomes'[r], status'[r])
  BY <1>1, <1>2, <1>3, <1>4, AllAreOne
<1>6. ASSUME NEW v \in Workers \ {w}, att[v].run = r PROVE OutcomeFits(att[v], outcomes'[r], status'[r])
  <2>1. att[v].pc \notin Holding
    BY <1>2, <1>6, HoldersRow DEF Active
  <2>2. OutcomeFits(att[v], outcomes[r], status[r])
    BY <1>6 DEF OutcomesFit
  <2>3. QED
    BY <1>1, <2>1, <2>2 DEF OutcomeFits, Undecided, Decided, Settled, ParkPhase, Holding, Phase
<1>7. Turns(w, Idle) /\ Idle \in Attempt /\ OutcomeFits(Idle, outcomes'[Idle.run], status'[Idle.run])
  BY <1>1, EndedKnowsNothing
<1>8. \A q \in Runs \ {r} : status'[q] = status[q] /\ outcomes'[q] = outcomes[q]
  BY <1>1, <1>3
<1>9. QED
  BY <1>3, <1>5, <1>6, <1>7, <1>8, OutcomesFitKept

\* A holder ends its run with the outcome of its ledger.
LEMMA EndFitsOutcome ==
  ASSUME IInv, Typed, LeasesFit, OutcomesFit, NEW w \in Workers, att[w].pc \in Holding,
         NEW o \in Outcome, AllAre(outcomes[att[w].run], o), FinishRun(att[w].id, o), UNCHANGED outcomes,
         Ends(w) \/ (Goto(w, "lostNote") /\ FinishedStatus[o] = "failed")
  PROVE  OutcomesFit'
<1> PICK r \in Runs : r = att[w].run
  BY HoldersRow
<1>1. /\ \A q \in Runs \ {r} : status'[q] = status[q]
      /\ status'[r] = FinishedStatus[o]
  BY FinishEnds
<1>2. RunsOutcomes(outcomes'[r], status'[r]) /\ outcomes' \in [Runs -> Seq(Outcome)]
  BY <1>1, AllAreOne DEF Typed
<1>3. PICK b \in Attempt : Turns(w, b) /\ OutcomeFits(b, outcomes'[b.run], status'[b.run])
  <2>1. CASE Ends(w)
    BY <2>1, EndedKnowsNothing
  <2>2. CASE Goto(w, "lostNote") /\ FinishedStatus[o] = "failed"
    <3>1. PICK b \in Attempt : Turns(w, b) /\ b.pc = "lostNote" /\ b.run = r
      BY <2>2, GotoDoes DEF Phase, SameCase
    <3>2. OutcomeFits(b, outcomes'[r], status'[r])
      BY <1>1, <2>2, <3>1 DEF OutcomeFits, Undecided, Decided, Settled, ParkPhase
    <3>3. QED
      BY <3>1, <3>2
  <2>3. QED
    BY <2>1, <2>2
<1>4. \A v \in Workers \ {w} : att[v].run = r => OutcomeFits(att[v], outcomes'[r], status'[r])
  BY OthersKnowNoOutcome
<1>5. \A q \in Runs \ {r} : status'[q] = status[q] /\ outcomes'[q] = outcomes[q]
  BY <1>1
<1>6. QED
  BY <1>2, <1>3, <1>4, <1>5, OutcomesFitKept

\* Steps that move one attempt and the status of its run, neither of which ends anything.
LEMMA StatusMovesFit ==
  ASSUME IInv, Typed, LeasesFit, OutcomesFit, UNCHANGED outcomes,
         NEW w \in Workers, NEW b \in Attempt, Turns(w, b), NEW r \in Runs, b.run = r,
         \A q \in Runs \ {r} : status'[q] = status[q], status'[r] \notin Terminal,
         \A v \in Workers \ {w} : att[v].run = r => OutcomeFits(att[v], outcomes[r], status'[r]),
         OutcomeFits(b, outcomes[r], status'[r])
  PROVE  OutcomesFit'
<1>1. outcomes' \in [Runs -> Seq(Outcome)]
  BY DEF Typed
<1>2. RunsOutcomes(outcomes[r], status[r])
  BY OutcomesOfRuns DEF Typed, OutcomesFit
<1>3. RunsOutcomes(outcomes'[r], status'[r])
  BY <1>2 DEF RunsOutcomes
<1>4. \A q \in Runs \ {r} : status'[q] = status[q] /\ outcomes'[q] = outcomes[q]
  OBVIOUS
<1>5. OutcomeFits(b, outcomes'[b.run], status'[b.run])
  OBVIOUS
<1>6. \A v \in Workers \ {w} : att[v].run = r => OutcomeFits(att[v], outcomes'[r], status'[r])
  OBVIOUS
<1>7. QED
  BY <1>1, <1>3, <1>4, <1>5, <1>6, OutcomesFitKept

LEMMA ExecStepOutcomesFit ==
  ASSUME IInv, Typed, LeasesFit, OutcomesFit, [ExecNext]_execVars
  PROVE  OutcomesFit'
<1>0. status \in [Runs -> RunStatus] /\ outcomes \in [Runs -> Seq(Outcome)]
  BY DEF IInv, TypeOK, Typed
<1>1. ASSUME NEW w \in Workers, NEW p \in {"recoverClean", "save", "finish"},
             Recorder(w), Goto(w, p), RecordOutcome(att[w].run, att[w].outcome)
      PROVE  OutcomesFit'
  <2>1. UNCHANGED status
    BY <1>1 DEF RecordOutcome, vars
  <2>2. QED
    BY <1>1, <2>1, RecordFits
<1>2. CASE UNCHANGED outcomes
  <2>1. ASSUME UNCHANGED <<status, att>> PROVE OutcomesFit'
    BY <1>2, <2>1 DEF OutcomesFit, OneOutcome, OutcomesAgree
  <2>2. ASSUME Users PROVE OutcomesFit'
    <3>1. ASSUME NEW r \in Runs, UserRequest(r) PROVE OutcomesFit'
      BY <2>1, <2>2, <3>1 DEF Users, UserRequest, RequestRunCancellation, AnswerRunQuestion
    <3>2. ASSUME NEW r \in Runs, Admission(r) PROVE OutcomesFit'
      <4>1. UNCHANGED att /\ status[r] = "absent" /\ status' = [status EXCEPT ![r] = "queued"]
        BY <2>2, <3>2 DEF Users, Admission, AllocateBuildSession, AppendConversationTurn
      <4>2. /\ \A q \in Runs \ {r} : status'[q] = status[q]
            /\ status'[r] = "queued"
        BY <1>0, <4>1
      <4>3. OneOutcome' /\ OutcomesAgree'
        BY <1>2, <4>2 DEF OutcomesFit, OneOutcome, OutcomesAgree, Terminal
      <4>4. ASSUME NEW v \in Workers PROVE OutcomeFits(att[v], outcomes[att[v].run], status'[att[v].run])
        <5>1. OutcomeFits(att[v], outcomes[att[v].run], status[att[v].run]) /\ att[v] \in Attempt
          BY DEF OutcomesFit, Typed
        <5>2. CASE att[v].run = None
          BY <5>1, <5>2, RunlessIsIdle, KnowsNoOutcome
        <5>3. CASE att[v].run = r
          BY <4>1, <5>1, <5>3 DEF OutcomeFits
        <5>4. CASE att[v].run \in Runs \ {r}
          BY <4>2, <5>1, <5>4
        <5>5. QED
          BY <5>1, <5>2, <5>3, <5>4 DEF Attempt
      <4>5. QED
        BY <1>2, <4>1, <4>3, <4>4 DEF OutcomesFit
    <3>3. QED
      BY <2>2, <3>1, <3>2 DEF Users
  <2>3. ASSUME NEW r \in Runs, Lapse(r) PROVE OutcomesFit'
    BY <2>1, <2>3 DEF Lapse, LeaseLapses
  <2>4. ASSUME NEW w \in Workers, NEW b \in Attempt, Turns(w, b), UNCHANGED status,
               OutcomeFits(b, outcomes[b.run], status[b.run])
        PROVE  OutcomesFit'
    <3>1. OneOutcome' /\ OutcomesAgree'
      BY <1>2, <2>4 DEF OutcomesFit, OneOutcome, OutcomesAgree
    <3>2. ASSUME NEW v \in Workers PROVE OutcomeFits(att'[v], outcomes[att'[v].run], status[att'[v].run])
      BY <2>4 DEF OutcomesFit, Turns, Typed
    <3>3. QED
      BY <1>2, <2>4, <3>1, <3>2 DEF OutcomesFit
  <2>5. ASSUME NEW w \in Workers, NEW r \in Runs, Poll(w, r) PROVE OutcomesFit'
    <3>1. PICK b \in Attempt : Turns(w, b) /\ b.pc = "listed"
      BY <2>5, PollDoes
    <3>2. UNCHANGED status /\ OutcomeFits(b, outcomes[b.run], status[b.run])
      BY <2>5, <3>1, KnowsNoOutcome DEF Poll, LocalStep, vars
    <3>3. QED
      BY <2>4, <3>1, <3>2
  <2>6. ASSUME NEW w \in Workers, Claim(w) PROVE OutcomesFit'
    <3>1. BeginRun(att[w].run, w) /\ att[w].run \in Runs
      BY <2>6, RunOfAttempt DEF Claim, At
    <3> PICK r \in Runs : r = att[w].run
      BY <3>1
    <3>2. /\ \A q \in Runs \ {r} : status'[q] = status[q]
          /\ status'[r] \notin Terminal /\ status[r] \notin Terminal /\ ~lease[r].live
      BY <3>1, BeginEffect DEF IInv, Active, Terminal, Claimable, Unfinished
    <3>3. PICK b \in Attempt : Turns(w, b) /\ b.pc = "claimed" /\ b.run = r
      BY <2>6, ClaimDoes
    <3>4. ASSUME NEW v \in Workers \ {w}, att[v].run = r
          PROVE  OutcomeFits(att[v], outcomes[r], status'[r])
      <4>1. OutcomeFits(att[v], outcomes[r], status[r])
        BY <3>4 DEF OutcomesFit
      <4>2. att[v].pc # "lostNote"
        BY <3>2, <4>1 DEF OutcomeFits, Terminal
      <4>3. QED
        BY <4>1, <4>2 DEF OutcomeFits
    <3>5. OutcomeFits(b, outcomes[r], status'[r])
      BY <3>3, KnowsNoOutcome
    <3>6. QED
      BY <1>2, <3>2, <3>3, <3>4, <3>5, StatusMovesFit
  <2>7. ASSUME NEW w \in Workers, OwnStep(w) PROVE OutcomesFit'
    <3>1. UNCHANGED status
      BY <2>7, OwnStepLeavesStore DEF vars
    <3>2. QED
      BY <1>2, <2>7, <3>1, OwnStepMoves, SameOutcomesFit
  <2>8. ASSUME NEW w \in Workers, Edit(w) PROVE OutcomesFit'
    BY <2>1, <2>8 DEF Edit, storeVars, vars
  <2>9. ASSUME NEW w \in Workers, NEW b \in Attempt, Turns(w, b), b.run = att[w].run,
               att[w].pc \in {"asking", "driving"}, b.pc \in {"asking", "driving"},
               NEW st, st \notin Terminal, status' = [status EXCEPT ![att[w].run] = st]
        PROVE  OutcomesFit'
    <3>1. att[w].pc \in Holding
      BY <2>9 DEF Holding, Phase
    <3> PICK r \in Runs : r = att[w].run
      BY <3>1, HoldersRow
    <3>2. /\ \A q \in Runs \ {r} : status'[q] = status[q]
          /\ status'[r] \notin Terminal
      BY <1>0, <2>9
    <3>3. outcomes[r] = <<>>
      BY <2>9 DEF OutcomesFit, OutcomeFits, Undecided
    <3>4. OutcomeFits(b, outcomes[r], status'[r])
      BY <2>9, <3>3 DEF OutcomeFits, Decided, Settled
    <3>5. \A v \in Workers \ {w} : att[v].run = r => OutcomeFits(att[v], outcomes[r], status'[r])
      BY <3>1, OthersKnowNoOutcome
    <3>6. QED
      BY <1>2, <2>9, <3>2, <3>4, <3>5, StatusMovesFit
  <2>10. ASSUME NEW w \in Workers, Resume(w) PROVE OutcomesFit'
    <3>1. /\ att[w].pc \in {"asking", "driving"} /\ status' = [status EXCEPT ![att[w].run] = "running"]
      BY <2>10 DEF Resume, At, TakeRunAnswer
    <3>2. PICK b \in Attempt : Turns(w, b) /\ b.run = att[w].run /\ b.pc = "driving"
      BY <2>10, ResumeDoes
    <3>3. "running" \notin Terminal /\ b.pc \in {"asking", "driving"}
      BY <3>2 DEF Terminal
    <3>4. QED
      BY <2>9, <3>1, <3>2, <3>3
  <2>11. ASSUME NEW w \in Workers, NEW c \in Calls, Ask(w, c) PROVE OutcomesFit'
    <3>1. /\ att[w].pc \in {"asking", "driving"}
          /\ status' = [status EXCEPT ![att[w].run] = "awaiting_approval"]
      BY <2>11 DEF Ask, At, SuspendForQuestion
    <3>2. PICK b \in Attempt : Turns(w, b) /\ b.run = att[w].run /\ b.pc = "asking"
      BY <2>11, AskDoes
    <3>3. "awaiting_approval" \notin Terminal /\ b.pc \in {"asking", "driving"}
      BY <3>2 DEF Terminal
    <3>4. QED
      BY <2>9, <3>1, <3>2, <3>3
  <2>12. ASSUME NEW w \in Workers, Park(w) PROVE OutcomesFit'
    <3>1. UNCHANGED status /\ att[w].pc = "park" /\ Goto(w, "parkSave") /\ "parkSave" \in Phase
      BY <2>12 DEF Park, ParkRunSuspension, At, Phase
    <3>2. PICK b \in Attempt : Turns(w, b) /\ b.run = att[w].run /\ b.pc = "parkSave"
      BY <3>1, GotoDoes DEF SameCase
    <3>3. OutcomeFits(att[w], outcomes[b.run], status[b.run])
      BY <3>2 DEF OutcomesFit
    <3>4. OutcomeFits(b, outcomes[b.run], status[b.run])
      BY <3>1, <3>2, <3>3 DEF OutcomeFits, Undecided, ParkPhase, Decided, Settled
    <3>5. QED
      BY <2>4, <3>1, <3>2, <3>4
  <2>13. ASSUME NEW w \in Workers, ParkRelease(w) PROVE OutcomesFit'
    <3>1. UNCHANGED status /\ Goto(w, "parkDrop") /\ "parkDrop" \in Phase
      BY <2>13 DEF ParkRelease, ReleaseRunLease, Phase
    <3>2. PICK b \in Attempt : Turns(w, b) /\ b.pc = "parkDrop"
      BY <3>1, GotoDoes
    <3>3. QED
      BY <2>4, <3>1, <3>2, KnowsNoOutcome
  <2>14. ASSUME NEW w \in Workers, Finish(w) PROVE OutcomesFit'
    <3>1. /\ att[w].pc = "finish" /\ att[w] \in Attempt
          /\ FinishRun(att[w].id, att[w].outcome) /\ Ends(w)
      BY <2>14 DEF Finish, At, Typed
    <3>2. /\ att[w].outcome \in Outcome /\ att[w].pc \in Holding
          /\ AllAre(outcomes[att[w].run], att[w].outcome)
      BY <3>1 DEF OutcomesFit, OutcomeFits, Decided, Settled, Attempt, Holding, Phase
    <3>3. QED
      BY <1>2, <3>1, <3>2, EndFitsOutcome
  <2>15. ASSUME NEW w \in Workers, LostFinish(w) PROVE OutcomesFit'
    <3>1. /\ att[w].pc = "lostFinish" /\ FinishRun(att[w].id, "failed")
          /\ Ends(w) \/ Goto(w, "lostNote")
      BY <2>15 DEF LostFinish, At
    <3>2. /\ "failed" \in Outcome /\ att[w].pc \in Holding /\ outcomes[att[w].run] = <<>>
          /\ FinishedStatus["failed"] = "failed"
      BY <3>1 DEF Outcome, Holding, Phase, OutcomesFit, OutcomeFits, Undecided, FinishedStatus
    <3>3. AllAre(outcomes[att[w].run], "failed")
      BY <3>2 DEF AllAre
    <3>4. QED
      BY <1>2, <3>1, <3>2, <3>3, EndFitsOutcome
  <2>16. QED
    BY <2>1, <2>2, <2>3, <2>5, <2>6, <2>7, <2>8, <2>10, <2>11, <2>12, <2>13, <2>14, <2>15, ExecCases
    DEF execVars, storeVars, vars
<1>3. QED
  BY <1>1, <1>2, LostNoteFits, LedgerCases

-----------------------------------------------------------------------------
(* The work is kept *)

\* What an attempt knows stays true as checkpoints are added and as a volume is emptied.
LEMMA WorkStands ==
  ASSUME NEW a, NEW work, NEW kept, WorkFits(a, work, kept), NEW work2, NEW kept2,
         work2 \subseteq work, kept \subseteq kept2
  PROVE  WorkFits(a, work2, kept2)
BY DEF WorkFits

\* An attempt outside the phases that look after a volume knows nothing of it.
LEMMA WorkUnknown ==
  ASSUME NEW a, NEW work, NEW kept, WorkFits(a, work, kept), NEW work2, NEW kept2,
         a.pc \notin Snapped \cup {"prepareStart", "restore"}
  PROVE  WorkFits(a, work2, kept2)
BY DEF WorkFits, Snapped

LEMMA EmptyHanded ==
  ASSUME NEW a, a.snap = None, a.pc \notin {"recoverPublish", "publish", "prepareStart", "restore"}
  PROVE  \A work, kept : WorkFits(a, work, kept)
BY DEF WorkFits

\* The moves of a holder keep what it knows of the work.
LEMMA MoveKnowsWork ==
  ASSUME NEW a \in Attempt, NEW b \in Attempt, HolderMove(a, b), NEW kept,
         WorkFits(a, volume[SessionOf[a.run]].work, kept),
         ~volume[SessionOf[a.run]].present => volume[SessionOf[a.run]].work = {},
         kept \subseteq saved'[ProjectOfRun(a.run)]
  PROVE  WorkFits(b, volume[SessionOf[a.run]].work, saved'[ProjectOfRun(a.run)])
<1> DEFINE work == volume[SessionOf[a.run]].work
           more == saved'[ProjectOfRun(a.run)]
<1>1. WorkFits(a, work, more)
  BY DEF WorkFits
<1>2. CASE GoesOn(a, b)
  <2>1. b.pc \in {"prepareStart", "restore"} /\ ~a.retained => work = {}
    BY <1>1, <1>2 DEF GoesOn, WorkFits, Holding
  <2>2. b.pc \in Snapped /\ a.snap # None => work \subseteq more
    BY <1>1, <1>2 DEF GoesOn, WorkFits, Snapped
  <2>3. b.pc \in {"recoverPublish", "publish"} => a.snap # None
    BY <1>1, <1>2 DEF GoesOn, WorkFits
  <2>4. a.snap # None => b.pc \in Snapped \cup {"parkPublish", "parkRelease", "parkDrop", "note", "finish"}
    BY <1>1, <1>2 DEF GoesOn, WorkFits, Snapped
  <2>5. QED
    BY <1>2, <2>1, <2>2, <2>3, <2>4 DEF GoesOn, SameWork, WorkFits
<1>3. CASE Learns(a, b)
  BY <1>1, <1>3 DEF Learns, WorkFits, Snapped
<1>4. CASE Looks(a, b)
  BY <1>1, <1>4 DEF Looks, WorkFits, Snapped
<1>5. CASE Decides(a, b)
  BY <1>1, <1>5 DEF Decides, WorkFits, Snapped
<1>6. CASE Aborts(a, b)
  BY <1>1, <1>6 DEF Aborts, WorkFits, Snapped
<1>7. CASE Snaps(a, b)
  BY <1>7 DEF Snaps, WorkFits, Snapped
<1>8. CASE Unpublished(a, b)
  BY <1>8 DEF Unpublished, WorkFits
<1>9. CASE StopsWaiting(a, b)
  BY <1>1, <1>9 DEF StopsWaiting, SameWork, WorkFits, Snapped
<1>10. QED
  BY <1>2, <1>3, <1>4, <1>5, <1>6, <1>7, <1>8, <1>9 DEF HolderMove

\* The attempt of w is over, or knows what it must of the volume as it was and of the
\* checkpoints as they are now.
LEMMA AttemptKnowsWork ==
  ASSUME Typed, LeasesFit, WorkInv, NEW w \in Workers, att[w].pc # "idle", AttemptMoves(w),
         saved[ProjectOf[SessionAt(w)]] \subseteq saved'[ProjectOf[SessionAt(w)]]
  PROVE  \E b \in Attempt :
            /\ Turns(w, b)
            /\ b = Idle \/ b.run = att[w].run
            /\ WorkFits(b, volume[SessionAt(w)].work, saved'[ProjectOf[SessionAt(w)]])
<1>1. CASE Ends(w)
  <2>1. Turns(w, Idle) /\ Idle \in Attempt
    BY <1>1, EndsDoes DEF Turns
  <2>2. \A work, kept : WorkFits(Idle, work, kept)
    BY EmptyHanded DEF Idle
  <2>3. QED
    BY <2>1, <2>2
<1>2. CASE \E b \in Attempt : Turns(w, b) /\ HolderMove(att[w], b)
  <2>1. PICK b \in Attempt : Turns(w, b) /\ HolderMove(att[w], b)
    BY <1>2
  <2>2. /\ att[w] \in Attempt /\ SessionOf[att[w].run] \in Sessions
        /\ SessionAt(w) = SessionOf[att[w].run]
        /\ ProjectOf[SessionAt(w)] = ProjectOfRun(att[w].run)
        /\ b.run = att[w].run
    BY <2>1, RunOfAttempt DEF SessionAt, ProjectOfRun, HolderMove, SameCase
  <2>3. WorkFits(b, volume[SessionAt(w)].work, saved'[ProjectOf[SessionAt(w)]])
    <3>1. WorkFits(att[w], volume[SessionAt(w)].work, saved[ProjectOf[SessionAt(w)]])
      BY DEF WorkInv
    <3>2. ~volume[SessionAt(w)].present => volume[SessionAt(w)].work = {}
      BY <2>2 DEF WorkInv, VolumesFit
    <3>3. QED
      BY <2>1, <2>2, <3>1, <3>2, MoveKnowsWork
  <2>4. QED
    BY <2>1, <2>2, <2>3
<1>3. QED
  BY <1>1, <1>2 DEF AttemptMoves

\* Checkpoints are only added, and volumes only lose work that is in a checkpoint.
LEMMA WorkKept ==
  ASSUME Typed, LeasesFit, WorkInv, NEW w \in Workers, NEW b \in Attempt, Turns(w, b),
         VolumesFit', NoWorkLost',
         \A s \in Sessions : volume'[s].work \subseteq volume[s].work,
         \A p \in Projects : saved[p] \subseteq saved'[p],
         \/ b.pc = "idle" /\ b.snap = None
         \/ /\ b.run \in Runs
            /\ WorkFits(b, volume[SessionOf[b.run]].work, saved'[ProjectOfRun(b.run)])
  PROVE  WorkInv'
<1>1. ASSUME NEW v \in Workers
      PROVE  WorkFits(att'[v], volume'[SessionOf[att'[v].run]].work, saved'[ProjectOfRun(att'[v].run)])
  <2>1. CASE v = w
    <3>1. att'[v] = b
      BY <2>1 DEF Turns, Typed
    <3>2. CASE b.pc = "idle" /\ b.snap = None
      BY <3>1, <3>2, EmptyHanded
    <3>3. CASE b.run \in Runs /\ WorkFits(b, volume[SessionOf[b.run]].work, saved'[ProjectOfRun(b.run)])
      <4>1. SessionOf[b.run] \in Sessions
        BY <3>3, SessionOfType
      <4>2. QED
        BY <3>1, <3>3, <4>1, WorkStands
    <3>4. QED
      BY <3>2, <3>3
  <2>2. CASE v # w
    <3>1. att'[v] = att[v] /\ att[v] \in Attempt
      BY <2>2 DEF Turns, Typed
    <3>2. WorkFits(att[v], volume[SessionOf[att[v].run]].work, saved[ProjectOfRun(att[v].run)])
      BY DEF WorkInv, SessionAt, ProjectOfRun
    <3>3. CASE att[v].pc = "idle"
      BY <3>1, <3>2, <3>3, WorkUnknown DEF Snapped
    <3>4. CASE att[v].pc # "idle"
      <4>1. SessionOf[att[v].run] \in Sessions /\ ProjectOfRun(att[v].run) \in Projects
        BY <3>4, RunOfAttempt
      <4>2. QED
        BY <3>1, <3>2, <4>1, WorkStands
    <3>5. QED
      BY <3>3, <3>4
  <2>3. QED
    BY <2>1, <2>2
<1>2. QED
  BY <1>1 DEF WorkInv, SessionAt, ProjectOfRun

\* No step of the store or of the users concerns the work.
LEMMA WorkLeftAlone ==
  ASSUME Typed, WorkInv, UNCHANGED <<docker, checkpoints, edits>>,
         NEW w \in Workers, NEW b \in Attempt, Turns(w, b),
         \A work, kept : WorkFits(b, work, kept)
  PROVE  WorkInv'
<1>1. VolumesFit' /\ NoWorkLost'
  BY DEF WorkInv, VolumesFit, NoWorkLost, docker, checkpoints
<1>2. ASSUME NEW v \in Workers
      PROVE  WorkFits(att'[v], volume'[SessionOf[att'[v].run]].work,
                      saved'[ProjectOf[SessionOf[att'[v].run]]])
  BY DEF WorkInv, Turns, Typed, docker, checkpoints, SessionAt
<1>3. QED
  BY <1>1, <1>2 DEF WorkInv, SessionAt

\* The attempts of other workers know nothing of a holder's volume.
LEMMA OthersKnowNoWork ==
  ASSUME IInv, Typed, LeasesFit, WorkInv, NEW w \in Workers, att[w].pc \in Holding,
         NEW v \in Workers \ {w}, att[v].run \in Runs, SessionOf[att[v].run] = SessionOf[att[w].run]
  PROVE  \A work, kept : WorkFits(att[v], work, kept)
<1>1. att[v].pc \notin Holding
  BY Alone DEF ProjectOfRun
<1>2. att[v].pc \notin Snapped \cup {"prepareStart", "restore"}
  BY <1>1 DEF Snapped, Holding, Phase
<1>3. WorkFits(att[v], volume[SessionAt(v)].work, saved[ProjectOf[SessionAt(v)]])
  BY DEF WorkInv
<1>4. QED
  BY <1>2, <1>3, WorkUnknown

\* A holder changes the work on its session's volume.
LEMMA WorkChanged ==
  ASSUME IInv, Typed, LeasesFit, WorkInv, NEW w \in Workers, att[w].pc \in Holding,
         NEW b \in Attempt, att' = [att EXCEPT ![w] = b], b.run = att[w].run,
         \A work, kept : WorkFits(b, work, kept),
         VolumesFit', NoWorkLost',
         \A s \in Sessions \ {SessionAt(w)} : volume'[s].work = volume[s].work,
         \A p \in Projects : saved[p] \subseteq saved'[p]
  PROVE  WorkInv'
<1>1. ASSUME NEW v \in Workers
      PROVE  WorkFits(att'[v], volume'[SessionOf[att'[v].run]].work, saved'[ProjectOfRun(att'[v].run)])
  <2>1. CASE v = w
    BY <2>1 DEF Typed
  <2>2. CASE v # w
    <3>1. att'[v] = att[v] /\ att[v] \in Attempt
      BY <2>2 DEF Typed
    <3>2. WorkFits(att[v], volume[SessionOf[att[v].run]].work, saved[ProjectOfRun(att[v].run)])
      BY DEF WorkInv, SessionAt, ProjectOfRun
    <3>3. CASE att[v].pc = "idle"
      BY <3>1, <3>2, <3>3, WorkUnknown DEF Snapped
    <3>4. CASE att[v].pc # "idle" /\ SessionOf[att[v].run] = SessionOf[att[w].run]
      BY <2>2, <3>1, <3>4, OthersKnowNoWork, RunOfAttempt
    <3>5. CASE att[v].pc # "idle" /\ SessionOf[att[v].run] # SessionOf[att[w].run]
      <4>1. SessionOf[att[v].run] \in Sessions /\ ProjectOfRun(att[v].run) \in Projects
        BY <3>5, RunOfAttempt
      <4>2. volume'[SessionOf[att[v].run]].work = volume[SessionOf[att[v].run]].work
        BY <3>5, <4>1 DEF SessionAt
      <4>3. QED
        BY <3>1, <3>2, <4>1, <4>2, WorkStands
    <3>6. QED
      BY <3>3, <3>4, <3>5
  <2>3. QED
    BY <2>1, <2>2
<1>2. QED
  BY <1>1 DEF WorkInv, SessionAt, ProjectOfRun

\* Restoring a workspace replaces only work that is in a checkpoint.
LEMMA RestoreKeepsWork ==
  ASSUME IInv, Typed, LeasesFit, WorkInv, NEW w \in Workers, Restore(w)
  PROVE  WorkInv'
<1>1. att[w].pc = "restore" /\ att[w].pc \in Holding /\ att[w] \in Attempt
  BY DEF Restore, At, Holding, Phase, Typed
<1>2. SessionAt(w) \in Sessions /\ ProjectOf[SessionAt(w)] \in Projects
  BY <1>1, RunOfAttempt DEF SessionAt, ProjectOfRun
<1> PICK s \in Sessions : s = SessionAt(w)
  BY <1>2
<1> PICK p \in Projects : p = ProjectOf[s]
  BY <1>2
<1>3. WorkFits(att[w], volume[s].work, saved[p])
  BY DEF WorkInv
<1>4. PICK b \in Attempt : Turns(w, b) /\ b.pc = "start" /\ b.run = att[w].run /\ b.snap = att[w].snap
  <2>1. Goto(w, "start") /\ "start" \in Phase
    BY DEF Restore, Phase
  <2>2. QED
    BY <2>1, GotoDoes DEF SameCase, SameWork
<1>5. b.snap = None
  BY <1>1, <1>3, <1>4 DEF WorkFits, Snapped
<1>6. \A work, kept : WorkFits(b, work, kept)
  BY <1>4, <1>5, EmptyHanded
<1> DEFINE retained == IF att[w].retained THEN volume[s].work ELSE {}
           base == BaseOf(s, IF att[w].retained THEN volume[s].work ELSE newest[p])
<1>7. /\ container[s] # 0 /\ UNCHANGED <<container, edits>>
      /\ \/ UNCHANGED <<volume, saved>>
         \/ volume' = [volume EXCEPT ![s].work = base] /\ UNCHANGED saved /\ ~att[w].retained
         \/ /\ volume' = [volume EXCEPT ![s].work = base]
            /\ saved' = [saved EXCEPT ![p] = @ \cup retained \cup base]
  BY DEF Restore
<1>8. ~att[w].retained => volume[s].work = {}
  BY <1>1, <1>3 DEF WorkFits
<1>9. /\ volume \in [Sessions -> [present: BOOLEAN, work: WorkSets]] /\ saved \in [Projects -> WorkSets]
  BY DEF Typed
<1> HIDE DEF base
<1>10. /\ \A t \in Sessions \ {s} : volume'[t] = volume[t]
       /\ volume'[s].present = volume[s].present
       /\ \A q \in Projects : saved[q] \subseteq saved'[q]
       /\ volume[s].work \subseteq volume'[s].work \cup saved'[p]
  BY <1>7, <1>8, <1>9
<1>11. VolumesFit'
  <2>1. VolumesFit /\ volume[s].present
    BY <1>7 DEF WorkInv, VolumesFit
  <2>2. QED
    BY <1>7, <1>10, <2>1 DEF VolumesFit
<1>12. NoWorkLost'
  <2>1. ASSUME NEW t \in Sessions PROVE edits[t] \subseteq volume'[t].work \cup saved'[ProjectOf[t]]
    <3>1. edits[t] \subseteq volume[t].work \cup saved[ProjectOf[t]]
      BY DEF WorkInv, NoWorkLost
    <3>2. ProjectOf[t] \in Projects
      BY ProjectOfType
    <3>3. QED
      BY <1>10, <3>1, <3>2
  <2>2. QED
    BY <1>7, <2>1 DEF NoWorkLost
<1>13. QED
  BY <1>1, <1>4, <1>6, <1>10, <1>11, <1>12, WorkChanged DEF Turns

\* An edit goes to the volume of the only driver.
LEMMA EditKeepsWork ==
  ASSUME IInv, Typed, LeasesFit, WorkInv, NEW w \in Workers, Edit(w)
  PROVE  WorkInv'
<1>1. att[w].pc = "driving" /\ att[w].pc \in Holding /\ att[w] \in Attempt /\ UNCHANGED att
  BY DEF Edit, At, Holding, Phase, Typed
<1>2. SessionAt(w) \in Sessions
  BY <1>1, RunOfAttempt DEF SessionAt
<1> PICK s \in Sessions : s = SessionAt(w)
  BY <1>2
<1> PICK t : t = att[w].id
  OBVIOUS
<1>3. WorkFits(att[w], volume[s].work, saved[ProjectOf[s]])
  BY DEF WorkInv
<1>4. \A work, kept : WorkFits(att[w], work, kept)
  BY <1>1, <1>3, WorkUnknown DEF Snapped
<1>5. /\ container[s] # 0 /\ UNCHANGED <<container, saved>>
      /\ volume' = [volume EXCEPT ![s].work = @ \cup {t}]
      /\ edits' = [edits EXCEPT ![s] = @ \cup {t}]
  BY DEF Edit, checkpoints
<1>6. /\ volume \in [Sessions -> [present: BOOLEAN, work: WorkSets]] /\ edits \in [Sessions -> WorkSets]
  BY DEF Typed
<1>7. /\ \A u \in Sessions \ {s} : volume'[u] = volume[u] /\ edits'[u] = edits[u]
      /\ volume'[s].present = volume[s].present
      /\ volume'[s].work = volume[s].work \cup {t}
      /\ edits'[s] = edits[s] \cup {t}
  BY <1>5, <1>6
<1>8. VolumesFit'
  <2>1. VolumesFit /\ volume[s].present
    BY <1>5 DEF WorkInv, VolumesFit
  <2>2. QED
    BY <1>5, <1>7, <2>1 DEF VolumesFit
<1>9. NoWorkLost'
  BY <1>5, <1>7 DEF NoWorkLost, WorkInv
<1>10. att' = [att EXCEPT ![w] = att[w]]
  BY <1>1 DEF Typed
<1>11. QED
  BY <1>1, <1>4, <1>5, <1>7, <1>8, <1>9, <1>10, WorkChanged

\* A worker's own steps lose no work.
LEMMA OwnStepKeepsWork ==
  ASSUME IInv, Typed, LeasesFit, WorkInv, NEW w \in Workers, OwnStep(w)
  PROVE  WorkInv'
<1>1. OwnDocker(w) /\ att[w].pc # "idle" /\ AttemptMoves(w)
  BY OwnStepDocker, OwnStepWorks, OwnStepMoves
<1>2. /\ att[w].run \in Runs /\ SessionAt(w) \in Sessions /\ ProjectOf[SessionAt(w)] \in Projects
      /\ ProjectOfRun(att[w].run) = ProjectOf[SessionAt(w)]
  BY <1>1, RunOfAttempt DEF SessionAt, ProjectOfRun
<1> PICK s \in Sessions : s = SessionAt(w)
  BY <1>2
<1> PICK p \in Projects : p = ProjectOf[s]
  BY <1>2
<1>3. /\ volume \in [Sessions -> [present: BOOLEAN, work: WorkSets]] /\ saved \in [Projects -> WorkSets]
      /\ container \in [Sessions -> 0..MaxLeases]
  BY DEF Typed
<1>4. VolumesFit /\ NoWorkLost
  BY DEF WorkInv
<1>5. ASSUME \A t \in Sessions : volume'[t].work \subseteq volume[t].work,
             \A q \in Projects : saved[q] \subseteq saved'[q],
             VolumesFit', NoWorkLost'
      PROVE  WorkInv'
  <2>1. PICK b \in Attempt : /\ Turns(w, b)
                             /\ b = Idle \/ b.run = att[w].run
                             /\ WorkFits(b, volume[SessionAt(w)].work, saved'[ProjectOf[SessionAt(w)]])
    BY <1>1, <1>2, <1>5, AttemptKnowsWork
  <2>2. \/ b.pc = "idle" /\ b.snap = None
        \/ /\ b.run \in Runs
           /\ WorkFits(b, volume[SessionOf[b.run]].work, saved'[ProjectOfRun(b.run)])
    BY <1>2, <2>1 DEF Idle, SessionAt
  <2>3. QED
    BY <1>5, <2>1, <2>2, WorkKept
\* Nothing leaves the volumes.
<1>6. ASSUME \A t \in Sessions : volume'[t].work = volume[t].work,
             \A q \in Projects : saved[q] \subseteq saved'[q], UNCHANGED edits
      PROVE  NoWorkLost'
  BY <1>4, <1>6, ProjectOfType DEF NoWorkLost
<1>7. CASE /\ UNCHANGED container \/ container' = Destroyed(s)
           /\ UNCHANGED volume
           /\ UNCHANGED <<newest, saved>> \/ Snapshot(s)
  <2>1. \A q \in Projects : saved[q] \subseteq saved'[q]
    BY <1>3, <1>7 DEF Snapshot
  <2>2. VolumesFit'
    BY <1>3, <1>4, <1>7 DEF VolumesFit, Destroyed
  <2>3. NoWorkLost'
    BY <1>1, <1>6, <1>7, <2>1 DEF OwnDocker
  <2>4. QED
    BY <1>5, <1>7, <2>1, <2>2, <2>3
<1>8. CASE Started(w) /\ UNCHANGED <<newest, saved>>
  <2>1. /\ \A t \in Sessions : volume'[t].work = volume[t].work
        /\ \A t \in Sessions \ {s} : volume'[t].present = volume[t].present /\ container'[t] = container[t]
        /\ volume'[s].present = TRUE
    BY <1>3, <1>8 DEF Started
  <2>2. VolumesFit'
    BY <1>4, <2>1 DEF VolumesFit
  <2>3. NoWorkLost'
    BY <1>1, <1>6, <1>8, <2>1 DEF OwnDocker
  <2>4. QED
    BY <1>5, <1>8, <2>1, <2>2, <2>3
<1>9. CASE /\ att[w].pc \in {"remove", "recoverRemove"} /\ att[w].snap # None
           /\ Removed(s)
           /\ UNCHANGED <<container, newest, saved>>
  <2>1. volume[s].work \subseteq saved[p]
    <3>1. WorkFits(att[w], volume[s].work, saved[p])
      BY DEF WorkInv
    <3>2. QED
      BY <1>9, <3>1 DEF WorkFits, Snapped
  <2>2. /\ \A t \in Sessions \ {s} : volume'[t] = volume[t]
        /\ volume'[s] = IF container[s] = 0 THEN [present |-> FALSE, work |-> {}] ELSE volume[s]
    BY <1>3, <1>9 DEF Removed
  <2>3. VolumesFit'
    BY <1>4, <1>9, <2>2 DEF VolumesFit
  <2>4. edits' = edits
    BY <1>1 DEF OwnDocker
  <2>5. NoWorkLost'
    BY <1>4, <1>9, <2>1, <2>2, <2>4 DEF NoWorkLost
  <2>6. QED
    BY <1>5, <1>9, <2>2, <2>3, <2>5
<1>10. CASE Restore(w)
  BY <1>10, RestoreKeepsWork
<1>11. QED
  BY <1>1, <1>7, <1>8, <1>9, <1>10 DEF OwnDocker

LEMMA ExecStepWork ==
  ASSUME IInv, Typed, LeasesFit, OutcomesFit, WorkInv, [ExecNext]_execVars
  PROVE  WorkInv'
<1>1. ASSUME UNCHANGED <<docker, checkpoints, edits, att>> PROVE WorkInv'
  BY <1>1 DEF WorkInv, VolumesFit, NoWorkLost, SessionAt, docker, checkpoints
<1>2. ASSUME NEW w \in Workers, NEW b \in Attempt, Turns(w, b), UNCHANGED <<docker, checkpoints, edits>>,
             b.snap = None, b.pc \notin {"recoverPublish", "publish", "prepareStart", "restore"}
      PROVE  WorkInv'
  BY <1>2, EmptyHanded, WorkLeftAlone
<1>3. \A w \in Workers : WorkFits(att[w], volume[SessionAt(w)].work, saved[ProjectOf[SessionAt(w)]])
  BY DEF WorkInv
<1>4. ASSUME NEW w \in Workers, NEW r \in Runs, Poll(w, r) PROVE WorkInv'
  BY <1>2, <1>4, PollDoes DEF Poll, LocalStep, OutsideStore, OutsideLedger
<1>5. ASSUME NEW w \in Workers, Claim(w) PROVE WorkInv'
  <2>1. att[w].snap = None
    BY <1>3, <1>5 DEF Claim, At, WorkFits, Snapped
  <2>2. PICK b \in Attempt : Turns(w, b) /\ b.pc = "claimed" /\ b.snap = att[w].snap
    BY <1>5, ClaimDoes DEF SameWork
  <2>3. QED
    BY <1>2, <1>5, <2>1, <2>2 DEF Claim, OutsideStore, OutsideLedger
<1>6. ASSUME NEW w \in Workers, Resume(w) PROVE WorkInv'
  <2>1. att[w].snap = None
    BY <1>3, <1>6 DEF Resume, At, WorkFits, Snapped
  <2>2. PICK b \in Attempt : Turns(w, b) /\ b.pc = "driving" /\ b.snap = att[w].snap
    BY <1>6, ResumeDoes DEF SameWork
  <2>3. QED
    BY <1>2, <1>6, <2>1, <2>2 DEF Resume, OutsideStore, OutsideLedger
<1>7. ASSUME NEW w \in Workers, NEW c \in Calls, Ask(w, c) PROVE WorkInv'
  <2>1. att[w].snap = None
    BY <1>3, <1>7 DEF Ask, At, WorkFits, Snapped
  <2>2. PICK b \in Attempt : Turns(w, b) /\ b.pc = "asking" /\ b.snap = att[w].snap
    BY <1>7, AskDoes DEF SameWork
  <2>3. QED
    BY <1>2, <1>7, <2>1, <2>2 DEF Ask, OutsideStore, OutsideLedger
<1>8. ASSUME NEW w \in Workers, Park(w) PROVE WorkInv'
  <2>1. att[w].snap = None
    BY <1>3, <1>8 DEF Park, At, WorkFits, Snapped
  <2>2. Goto(w, "parkSave") /\ "parkSave" \in Phase
    BY <1>8 DEF Park, Phase
  <2>3. PICK b \in Attempt : Turns(w, b) /\ b.pc = "parkSave" /\ b.snap = att[w].snap
    BY <2>2, GotoDoes DEF SameWork
  <2>4. QED
    BY <1>2, <1>8, <2>1, <2>3 DEF Park, OutsideStore, OutsideLedger
<1>9. ASSUME NEW w \in Workers, ParkRelease(w) PROVE WorkInv'
  <2>1. Goto(w, "parkDrop") /\ "parkDrop" \in Phase
    BY <1>9 DEF ParkRelease, Phase
  <2>2. PICK b \in Attempt : Turns(w, b) /\ b.pc = "parkDrop"
    BY <2>1, GotoDoes
  <2>3. \A work, kept : WorkFits(b, work, kept)
    BY <2>2 DEF WorkFits, Snapped
  <2>4. QED
    BY <1>9, <2>2, <2>3, WorkLeftAlone DEF ParkRelease, OutsideStore, OutsideLedger
<1>10. ASSUME NEW w \in Workers, Ends(w), UNCHANGED <<docker, checkpoints, edits>> PROVE WorkInv'
  BY <1>2, <1>10, EndsDoes DEF Idle, Turns
<1>11. ASSUME NEW w \in Workers, LostFinish(w) PROVE WorkInv'
  <2>1. UNCHANGED <<docker, checkpoints, edits>>
    BY <1>11 DEF LostFinish, OutsideStore, OutsideLedger
  <2>2. CASE Ends(w)
    BY <1>10, <2>1, <2>2
  <2>3. CASE Goto(w, "lostNote")
    <3>1. att[w].snap = None
      BY <1>3, <1>11 DEF LostFinish, At, WorkFits, Snapped
    <3>2. PICK b \in Attempt : Turns(w, b) /\ b.pc = "lostNote" /\ b.snap = att[w].snap
      BY <2>3, GotoDoes DEF SameWork, Phase
    <3>3. QED
      BY <1>2, <2>1, <3>1, <3>2
  <2>4. QED
    BY <1>11, <2>2, <2>3 DEF LostFinish
<1>12. ASSUME NEW w \in Workers, Finish(w) PROVE WorkInv'
  BY <1>10, <1>12 DEF Finish, OutsideStore, OutsideLedger
<1>13. QED
  BY <1>1, <1>4, <1>5, <1>6, <1>7, <1>8, <1>9, <1>11, <1>12, OwnStepKeepsWork, EditKeepsWork, ExecCases
  DEF execVars, Users, Lapse, OutsideStore, OutsideLedger

-----------------------------------------------------------------------------
(* The theorems *)

LEMMA ExecStep ==
  ASSUME ExecInv, [ExecNext]_execVars
  PROVE  ExecInv'
BY ExecStepIInv, ExecStepTyped, ExecStepLeasesFit, ExecStepUnlisted, ExecStepRunningIsLeased,
   ExecStepOutcomesFit, ExecStepWork
DEF ExecInv

LEMMA ExecInitInv == ExecInit => ExecInv
<1> SUFFICES ASSUME ExecInit PROVE ExecInv
  OBVIOUS
<1>1. IInv
  BY InitIInv DEF ExecInit
<1>2. /\ status = [r \in Runs |-> "absent"] /\ grants = <<>>
      /\ att = [w \in Workers |-> Idle]
      /\ outcomes = [r \in Runs |-> <<>>]
      /\ container = [s \in Sessions |-> 0]
      /\ volume = [s \in Sessions |-> [present |-> FALSE, work |-> {}]]
      /\ newest = [p \in Projects |-> {}]
      /\ head = [s \in Sessions |-> [isolated |-> FALSE, work |-> {}]]
      /\ saved = [p \in Projects |-> {}]
      /\ edits = [s \in Sessions |-> {}]
      /\ faults = 0
  BY DEF ExecInit, Init
<1>3. Idle \in Attempt
  BY DEF Idle, Attempt, Phase
<1>4. Typed
  <2>1. Len(grants) <= MaxLeases /\ 0 \in 0..MaxLeases /\ 0 \in 0..MaxFaults
    BY <1>2, BoundsAreNatural
  <2>2. {} \in WorkSets
    BY DEF WorkSets
  <2>3. outcomes \in [Runs -> Seq(Outcome)]
    BY <1>2
  <2>4. att \in [Workers -> Attempt]
    BY <1>2, <1>3
  <2>5. QED
    BY <1>2, <2>1, <2>2, <2>3, <2>4 DEF Typed
<1>5. /\ \A w \in Workers : att[w] = Idle
      /\ Idle.pc = "idle" /\ Idle.run = None /\ Idle.id = 0 /\ Idle.snap = None
  BY <1>2 DEF Idle
<1>6. LeasesFit
  BY <1>5, IdleFits DEF LeasesFit
<1>7. ParkedUnlisted
  BY <1>5 DEF ParkedUnlisted, ParkPhase
<1>8. RunningIsLeased
  BY <1>2 DEF RunningIsLeased
<1>9. OutcomesFit
  <2>1. OneOutcome /\ OutcomesAgree
    BY <1>2 DEF OneOutcome, OutcomesAgree, Terminal
  <2>2. QED
    BY <1>5, <2>1, KnowsNoOutcome DEF OutcomesFit
<1>10. WorkInv
  <2>1. VolumesFit /\ NoWorkLost
    BY <1>2 DEF VolumesFit, NoWorkLost
  <2>2. QED
    BY <1>5, <2>1, EmptyHanded DEF WorkInv
<1>11. QED
  BY <1>1, <1>4, <1>6, <1>7, <1>8, <1>9, <1>10 DEF ExecInv

\* The inductive invariant of the workers holds in every reachable state.
THEOREM ExecInvariance == ExecSpec => []ExecInv
<1>1. ExecInv /\ [ExecNext]_execVars => ExecInv'
  BY ExecStep
<1>2. QED
  BY ExecInitInv, <1>1, PTL DEF ExecSpec

\* Whatever the workers do with their runs, over crashes, lost leases and parking,
\* the store sees only transactions of RunStore: what is proved of those holds here.
THEOREM WorkersUseTheStore == ExecSpec => Spec
<1>1. ExecInit => Init
  BY DEF ExecInit
<1>2. ExecInv /\ [ExecNext]_execVars => [Next]_vars
  BY ExecStepIsStoreStep DEF ExecInv
<1>3. QED
  BY <1>1, <1>2, ExecInvariance, PTL DEF ExecSpec, Spec

\* A running run always has a lease row through which it can be recovered, and the
\* state of the workers is well-formed; under the timing of Lapse, by which no attempt
\* stalls past the lapse of its lease.
THEOREM RunsStayRecoverable == ExecSpec => []NoRunningWithoutLease
<1>1. ASSUME ExecInv PROVE NoRunningWithoutLease
  <2>1. RunningIsLeased /\ Typed /\ LeasesFit
    BY <1>1 DEF ExecInv
  <2>2. grants \in Seq(Grant)
    BY <1>1 DEF ExecInv, IInv, TypeOK
  <2>3. ASSUME NEW w \in Workers
        PROVE  /\ att[w].pc \in Phase
               /\ att[w].run \in Runs \cup {None}
               /\ att[w].pc = "idle" <=> att[w].run = None
               /\ att[w].id \in 0..Len(grants)
               /\ att[w].id # 0 => grants[att[w].id] = [run |-> att[w].run, holder |-> w]
               /\ att[w].call \in Calls \cup {None}
               /\ att[w].outcome \in Outcome \cup {None}
               /\ att[w].snap # None => att[w].snap \subseteq Tokens
    <3>1. att[w] \in Attempt
      BY <2>1 DEF Typed
    <3>2. LeaseFits(att[w], w, lease[att[w].run], status[att[w].run], question[att[w].run], grants)
      BY <2>1 DEF LeasesFit
    <3>3. att[w].id = 0 \/ att[w].id \in 1..Len(grants)
      BY <3>2 DEF LeaseFits
    <3>4. att[w].id \in 0..Len(grants)
      BY <2>2, <3>3
    <3>5. att[w].id # 0 => grants[att[w].id] = [run |-> att[w].run, holder |-> w]
      BY <3>2 DEF LeaseFits
    <3>6. att[w].pc = "idle" <=> att[w].run = None
      BY <3>2 DEF LeaseFits
    <3>7. QED
      BY <3>1, <3>4, <3>5, <3>6 DEF Attempt
  <2>4. ExecTypeOK
    BY <2>1, <2>3 DEF ExecTypeOK, Typed, WorkSets
  <2>5. QED
    BY <2>1, <2>4 DEF NoRunningWithoutLease, RunningIsLeased
<1>2. QED
  BY <1>1, ExecInvariance, PTL

\* The outcomes on the ledger of an ended run are the one it ended with: a worker that
\* dies between the event and the end of the run leaves a run that ends the same way.
\* An attempt that is late by more than a lease is excluded by the timing of Lapse.
THEOREM LedgerTellsTheEnd == ExecSpec => []OutcomesAgree
<1>1. ExecInv => OutcomesAgree
  BY DEF ExecInv, OutcomesFit
<1>2. QED
  BY <1>1, ExecInvariance, PTL

\* No edit is lost: it is on its session's volume or in a checkpoint of the project.
THEOREM WorkIsKept == ExecSpec => []NoWorkLost
<1>1. ExecInv => NoWorkLost
  BY DEF ExecInv, WorkInv
<1>2. QED
  BY <1>1, ExecInvariance, PTL
=============================================================================
