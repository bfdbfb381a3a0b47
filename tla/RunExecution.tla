---------------------------- MODULE RunExecution ----------------------------
(***************************************************************************)
(* The workers of apps/worker (worker.ts, executor.ts, lease.ts,           *)
(* checkpoint.ts, recovery.ts) driving runs through the transactions of    *)
(* RunStore, with the Docker container and named volume of each session    *)
(* and the checkpoints the volume is saved to.                             *)
(*                                                                         *)
(* A worker's attempt at one run is a record with a program counter; every *)
(* await of the executor whose interleaving matters is a step of its own.  *)
(* An edit of the workspace is a token, the lease id of the attempt that   *)
(* made it, so that lost work can be told from saved work.                 *)
(*                                                                         *)
(* The faults (a killed process, an unreachable store, a failed Docker or  *)
(* checkpoint call, a shutdown) draw on one budget.  Processes are prompt: *)
(* the schedule keeps the timing the configuration is built for.  A holder *)
(* that is alive renews before its lease lapses, an attempt that gave its  *)
(* lease up is gone before the lease lapses, and a listed run is claimed   *)
(* at once.  Conversations has the attempts that stall past their lease.   *)
(***************************************************************************)
EXTENDS RunStore

CONSTANTS
    MaxOutcomes,   \* bound: outcome events ever recorded for a run
    Previews,      \* what the teardown may read of the session's preview: active or not
    MaxFaults      \* bound: faults per behaviour

ASSUME PreviewsType == Previews \in (SUBSET BOOLEAN) \ {{}}
ASSUME BoundsAreNatural == {MaxLeases, MaxOutcomes, MaxFaults} \subseteq Nat
ASSUME NoneIsNoOutcome == None \notin Outcome

VARIABLES
    outcomes,      \* ledger: terminal events carrying payload.outcome, in order
    att,           \* each worker's attempt
    container,     \* the lease id whose attempt last started the session's container; 0 if none
    volume,        \* the session's workspace volume: present, and the edits on it
    newest,        \* the edits in the project's newest checkpoint
    head,          \* conversation_heads: isolated, and the edits in the published checkpoint
    saved,         \* history: every edit that some checkpoint of the project holds
    edits,         \* history: every edit made in the session
    faults         \* faults that happened

storeVars == <<vars, outcomes>>
docker == <<container, volume>>
checkpoints == <<newest, head, saved>>
execVars == <<storeVars, att, docker, checkpoints, edits, faults>>

-----------------------------------------------------------------------------
(* Attempts *)

Idle == [pc |-> "idle", run |-> None, id |-> 0, call |-> None, looked |-> FALSE, lost |-> FALSE,
         retained |-> FALSE, sandbox |-> FALSE, outcome |-> None, snap |-> None]

Phase == {"idle", "listed", "claimed", "recover", "recoverStart", "recoverSave", "recoverPublish",
          "recoverClean", "recoverRemove", "prepare", "prepareStart", "restore", "prepareDrop",
          "start", "driving", "asking", "park", "parkSave", "parkPublish", "parkRelease",
          "parkDrop", "record", "save", "publish", "drop", "remove", "note", "finish",
          "lostDrop", "lostFinish", "lostNote"}

Tokens == 1..MaxLeases

ASSUME NoneIsNoSnapshot == \A work \in SUBSET Tokens : work # None

ExecTypeOK ==
    /\ \A w \in Workers :
          /\ att[w].pc \in Phase
          /\ att[w].run \in Runs \cup {None}
          /\ att[w].pc = "idle" <=> att[w].run = None
          /\ att[w].id \in 0..Len(grants)
          /\ att[w].id # 0 => grants[att[w].id] = [run |-> att[w].run, holder |-> w]
          /\ att[w].call \in Calls \cup {None}
          /\ att[w].outcome \in Outcome \cup {None}
          /\ att[w].snap # None => att[w].snap \subseteq Tokens
    /\ outcomes \in [Runs -> Seq(Outcome)]
    /\ container \in [Sessions -> 0..MaxLeases]
    /\ volume \in [Sessions -> [present: BOOLEAN, work: SUBSET Tokens]]
    /\ newest \in [Projects -> SUBSET Tokens]
    /\ head \in [Sessions -> [isolated: BOOLEAN, work: SUBSET Tokens]]
    /\ saved \in [Projects -> SUBSET Tokens]
    /\ edits \in [Sessions -> SUBSET Tokens]
    /\ faults \in 0..MaxFaults

ExecInit ==
    /\ Init
    /\ outcomes = [r \in Runs |-> <<>>]
    /\ att = [w \in Workers |-> Idle]
    /\ container = [s \in Sessions |-> 0]
    /\ volume = [s \in Sessions |-> [present |-> FALSE, work |-> {}]]
    /\ newest = [p \in Projects |-> {}]
    /\ head = [s \in Sessions |-> [isolated |-> FALSE, work |-> {}]]
    /\ saved = [p \in Projects |-> {}]
    /\ edits = [s \in Sessions |-> {}]
    /\ faults = 0

SessionAt(w) == SessionOf[att[w].run]
At(w, phases) == att[w].pc \in phases

\* The attempt moves on; the store, Docker and the checkpoints are described apart.
Becomes(w, a) == att' = [att EXCEPT ![w] = a]
Goto(w, phase) == att' = [att EXCEPT ![w].pc = phase]
Ends(w) == att' = [att EXCEPT ![w] = Idle]

Fault == faults < MaxFaults /\ faults' = faults + 1

OutsideLedger == UNCHANGED <<docker, checkpoints, edits, faults>>
\* Only the store's rows and the attempt change.
OutsideStore == UNCHANGED outcomes /\ OutsideLedger
\* Only the attempt changes.
LocalStep == UNCHANGED vars /\ OutsideStore

\* appendRunEvent of a terminal event that carries an outcome: fenced by no lease
\* and by no status.
RecordOutcome(r, o) ==
    /\ Len(outcomes[r]) < MaxOutcomes
    /\ outcomes' = [outcomes EXCEPT ![r] = Append(@, o)]
    /\ UNCHANGED vars

\* docker rm -f by name: whoever's container it is.
Destroyed(s) == [container EXCEPT ![s] = 0]

\* A snapshot commits the volume and writes it as the project's newest checkpoint.
Snapshot(s) ==
    /\ newest' = [newest EXCEPT ![ProjectOf[s]] = volume[s].work]
    /\ saved' = [saved EXCEPT ![ProjectOf[s]] = @ \cup volume[s].work]

\* history.publish: fenced by a live lease and by being the session's run.
MayPublish(w) == HoldsLiveLease(att[w].id) /\ session[SessionAt(w)].run = att[w].run
Publish(w) == head' = [head EXCEPT ![SessionAt(w)] = [isolated |-> TRUE, work |-> att[w].snap]]

-----------------------------------------------------------------------------
(* Poll, claim and the choice between recovery and execution *)

\* RunWorker.#discover: the listed candidate is a snapshot of the run's question.
Poll(w, r) ==
    /\ At(w, {"idle"})
    /\ Runnable(r)
    /\ Becomes(w, [Idle EXCEPT !.pc = "listed", !.run = r, !.call = question[r]])
    /\ LocalStep

Claim(w) ==
    /\ At(w, {"listed"})
    /\ BeginRun(att[w].run, w)
    /\ Becomes(w, [att[w] EXCEPT !.pc = "claimed", !.id = Len(grants) + 1])
    /\ OutsideStore

NotTaken(w) ==
    /\ At(w, {"listed"})
    /\ ~Claimable(att[w].run)
    /\ Ends(w)
    /\ LocalStep

\* #recordedOutcome: the first outcome on the ledger decides a terminal recovery.
RecordedOutcome_Ignored(r) == None
RecordedOutcome(r) == IF outcomes[r] = <<>> THEN None ELSE Head(outcomes[r])

ReadLedger(w) ==
    /\ At(w, {"claimed"})
    /\ LET o == RecordedOutcome(att[w].run) IN
       Becomes(w, [att[w] EXCEPT !.outcome = o, !.pc = IF o = None THEN "prepare" ELSE "recover"])
    /\ LocalStep

-----------------------------------------------------------------------------
(* #recoverRecordedTerminal: end a run whose outcome is already on the ledger *)

\* stopRecoveredSandbox: remove the dead worker's container, keep its volume.
RecoverStop(w) ==
    LET s == SessionAt(w) IN
    /\ At(w, {"recover"})
    /\ container' = Destroyed(s)
    /\ IF volume[s].present THEN Goto(w, "recoverStart")
       ELSE IF att[w].lost THEN Ends(w) ELSE Goto(w, "finish")
    /\ UNCHANGED <<storeVars, volume, checkpoints, edits, faults>>

\* sandbox.start: attach to a running container or create it on the named volume.
Started(w) ==
    /\ container' = [container EXCEPT ![SessionAt(w)] = att[w].id]
    /\ volume' = [volume EXCEPT ![SessionAt(w)].present = TRUE]

RecoverStart(w) ==
    /\ At(w, {"recoverStart"})
    /\ Started(w)
    /\ Goto(w, "recoverSave")
    /\ UNCHANGED <<storeVars, checkpoints, edits, faults>>

SnapshotTaken(w, next) ==
    /\ container[SessionAt(w)] # 0
    /\ Snapshot(SessionAt(w))
    /\ Becomes(w, [att[w] EXCEPT !.pc = next, !.snap = volume[SessionAt(w)].work])
    /\ UNCHANGED <<storeVars, docker, head, edits, faults>>

\* The container is gone, or the command or the checkpoint store fails.
SnapshotFails(w, next) ==
    /\ \/ container[SessionAt(w)] = 0 /\ UNCHANGED faults
       \/ Fault
    /\ Becomes(w, [att[w] EXCEPT !.pc = next, !.outcome = IF At(w, {"recoverSave"}) THEN None ELSE @])
    /\ UNCHANGED <<storeVars, docker, checkpoints, edits>>

RecoverSave(w) ==
    /\ At(w, {"recoverSave"})
    /\ SnapshotTaken(w, "recoverPublish") \/ SnapshotFails(w, "recoverClean")

\* A rejected publication aborts the recovery; its clean-up still runs.
RecoverPublish(w) ==
    /\ At(w, {"recoverPublish"})
    /\ \/ /\ MayPublish(w)
          /\ Publish(w)
          /\ RecordOutcome(att[w].run, att[w].outcome)
          /\ Goto(w, "recoverClean")
          /\ UNCHANGED <<docker, newest, saved, edits, faults>>
       \/ /\ ~MayPublish(w)
          /\ Becomes(w, [att[w] EXCEPT !.pc = "recoverClean", !.outcome = None])
          /\ LocalStep

\* finally: unless the lease is lost, discard the container (a preview keeps it).
RecoverClean(w) ==
    /\ At(w, {"recoverClean"})
    /\ \/ att[w].lost /\ Ends(w) /\ UNCHANGED container
       \/ /\ ~att[w].lost
          /\ \E kept \in Previews :
                container' = IF kept THEN container ELSE Destroyed(SessionAt(w))
          /\ Goto(w, "recoverRemove")
    /\ UNCHANGED <<storeVars, volume, checkpoints, edits, faults>>

\* docker volume rm: refused while a container mounts the volume.
Removed(s) ==
    volume' = [volume EXCEPT ![s] =
                  IF container[s] = 0 THEN [present |-> FALSE, work |-> {}] ELSE @]

RecoverRemove(w) ==
    /\ At(w, {"recoverRemove"})
    /\ IF att[w].snap # None THEN Removed(SessionAt(w)) ELSE UNCHANGED volume
    /\ IF att[w].lost \/ att[w].outcome = None THEN Ends(w) ELSE Goto(w, "finish")
    /\ UNCHANGED <<storeVars, container, checkpoints, edits, faults>>

-----------------------------------------------------------------------------
(* Workspace preparation *)

\* recoveredWorkspaceExists, then prepareRecoveredSandbox for a retained or resumed run.
PrepareStop(w) ==
    LET s == SessionAt(w)
        present == volume[s].present
    IN
    /\ At(w, {"prepare"})
    /\ container' = IF present \/ att[w].call # None THEN Destroyed(s) ELSE container
    /\ Becomes(w, [att[w] EXCEPT !.pc = "prepareStart", !.retained = present])
    /\ UNCHANGED <<storeVars, volume, checkpoints, edits, faults>>

PrepareStart(w) ==
    /\ At(w, {"prepareStart"})
    /\ Started(w)
    /\ Becomes(w, [att[w] EXCEPT !.pc = "restore", !.sandbox = TRUE])
    /\ UNCHANGED <<storeVars, checkpoints, edits, faults>>

\* The checkpoint a session continues from: its own head once one is published.
BaseOf(s, latest) == IF head[s].isolated THEN head[s].work ELSE latest

\* #checkpointRetainedWorkspace, restoreLatestCheckpoint and the turn's boundary
\* snapshot.  A resumed run keeps its retained workspace untouched.
Restore(w) ==
    LET s == SessionAt(w)
        p == ProjectOf[s]
        retained == IF att[w].retained THEN volume[s].work ELSE {}
        base == BaseOf(s, IF att[w].retained THEN volume[s].work ELSE newest[p])
    IN
    /\ At(w, {"restore"})
    /\ container[s] # 0
    /\ Goto(w, "start")
    /\ \/ /\ att[w].call # None /\ att[w].retained
          /\ UNCHANGED <<volume, newest, saved>>
       \/ /\ att[w].call # None /\ ~att[w].retained
          /\ volume' = [volume EXCEPT ![s].work = base]
          /\ UNCHANGED <<newest, saved>>
       \/ /\ att[w].call = None
          /\ volume' = [volume EXCEPT ![s].work = base]
          /\ newest' = [newest EXCEPT ![p] = base]
          /\ saved' = [saved EXCEPT ![p] = @ \cup retained \cup base]
    /\ UNCHANGED <<storeVars, container, head, edits, faults>>

PrepareFails(w) ==
    /\ \/ At(w, {"restore"}) /\ container[SessionAt(w)] = 0 /\ UNCHANGED faults
       \/ At(w, {"prepare", "prepareStart", "restore"}) /\ Fault
    /\ Becomes(w, [att[w] EXCEPT !.pc = IF att[w].sandbox THEN "prepareDrop" ELSE "record",
                                 !.outcome = "failed"])
    /\ UNCHANGED <<storeVars, docker, checkpoints, edits>>

\* !workspaceReady: discard the container, keep the volume, settle without a sandbox.
PrepareDrop(w) ==
    /\ At(w, {"prepareDrop"})
    /\ \E kept \in Previews : container' = IF kept THEN container ELSE Destroyed(SessionAt(w))
    /\ Becomes(w, [att[w] EXCEPT !.pc = "record", !.sandbox = FALSE])
    /\ UNCHANGED <<storeVars, volume, checkpoints, edits, faults>>

-----------------------------------------------------------------------------
(* #drive *)

\* The first thing a drive does is look at the stop signal and the cancellation.
StartDrive(w) ==
    /\ At(w, {"start"})
    /\ Becomes(w,
          IF att[w].lost THEN [att[w] EXCEPT !.pc = "lostDrop"]
          ELSE IF cancelled[att[w].run] THEN [att[w] EXCEPT !.pc = "record", !.outcome = "cancelled"]
          ELSE [att[w] EXCEPT !.pc = IF att[w].call = None THEN "driving" ELSE "asking"])
    /\ LocalStep

\* A tool call edits the workspace: docker exec by container name.
Edit(w) ==
    LET s == SessionAt(w) IN
    /\ At(w, {"driving"})
    /\ container[s] # 0
    /\ att[w].id \notin volume[s].work
    /\ volume' = [volume EXCEPT ![s].work = @ \cup {att[w].id}]
    /\ edits' = [edits EXCEPT ![s] = @ \cup {att[w].id}]
    /\ UNCHANGED <<storeVars, att, container, checkpoints, faults>>

Ask(w, c) ==
    /\ At(w, {"driving"})
    /\ SuspendForQuestion(att[w].run, c)
    /\ Becomes(w, [att[w] EXCEPT !.pc = "asking", !.call = c, !.looked = FALSE])
    /\ OutsideStore

\* The controller's own verdict.
AgentEnds(w) ==
    /\ At(w, {"driving"})
    /\ \E o \in Outcome :
          Becomes(w, [att[w] EXCEPT !.pc = IF o = "succeeded" THEN "save" ELSE "record",
                                    !.outcome = o])
    /\ LocalStep

\* isRunCancellationRequested, every 500 ms.
UserStop(w) ==
    /\ At(w, {"driving", "asking"})
    /\ cancelled[att[w].run]
    /\ Becomes(w, [att[w] EXCEPT !.pc = "record", !.outcome = "cancelled"])
    /\ LocalStep

\* SIGTERM, or steering that failed.
Shutdown(w) ==
    /\ At(w, {"driving", "asking"})
    /\ Fault
    /\ Becomes(w, [att[w] EXCEPT !.pc = "record", !.outcome = "cancelled"])
    /\ UNCHANGED <<storeVars, docker, checkpoints, edits>>

Resume(w) ==
    /\ At(w, {"asking"})
    /\ TakeRunAnswer(att[w].run, att[w].call)
    /\ Becomes(w, [att[w] EXCEPT !.pc = "driving", !.call = None])
    /\ OutsideStore

LookInVain(w) ==
    /\ At(w, {"asking"})
    /\ ~att[w].looked
    /\ ~AnswerTakeable(att[w].run, att[w].call)
    /\ att' = [att EXCEPT ![w].looked = TRUE]
    /\ LocalStep

\* No process is between listing the run and claiming it.
NotListed(r) == \A w \in Workers : att[w].run = r => att[w].pc # "listed"

\* suspensionTimeoutMs after the question, the last look having found no answer.
WaitTimesOut_AnyTime(w) ==
    /\ At(w, {"driving", "asking"})
    /\ NotListed(att[w].run)
    /\ Goto(w, "park")
    /\ LocalStep
WaitTimesOut(w) ==
    /\ At(w, {"asking"})
    /\ att[w].looked
    /\ NotListed(att[w].run)
    /\ Goto(w, "park")
    /\ LocalStep

-----------------------------------------------------------------------------
(* The lease keeper *)

Working == {"claimed", "recover", "recoverStart", "recoverSave", "recoverPublish", "recoverClean",
            "recoverRemove", "prepare", "prepareStart", "restore", "start"}

\* #lose: the renewal is refused, or the store stays unreachable until one interval
\* before expiry.  A drive is aborted at once, unless its ledger cannot be drained.
KeeperLoses(w) ==
    /\ At(w, Working \cup {"driving", "asking"})
    /\ ~att[w].lost
    /\ \/ ~HoldsLiveLease(att[w].id) /\ UNCHANGED faults
       \/ Fault
    /\ Becomes(w, [att[w] EXCEPT !.lost = TRUE,
                                 !.pc = IF At(w, {"driving", "asking"}) THEN "lostDrop" ELSE @])
    /\ UNCHANGED <<storeVars, docker, checkpoints, edits>>

\* drain throws in #drive's finally: the attempt failed, the lost lease is forgotten.
\* The store that cannot be reached for the renewal fails the ledger as well: one fault.
LostDrainFails(w) ==
    /\ At(w, {"lostDrop"})
    /\ Becomes(w, [att[w] EXCEPT !.pc = "record", !.outcome = "failed"])
    /\ LocalStep

-----------------------------------------------------------------------------
(* #park: give an unanswered run up until its user answers *)

Park(w) ==
    /\ At(w, {"park"})
    /\ ParkRunSuspension(att[w].run)
    /\ Goto(w, "parkSave")
    /\ OutsideStore

ParkSave(w) ==
    /\ At(w, {"parkSave"})
    /\ SnapshotTaken(w, "parkPublish") \/ SnapshotFails(w, "parkPublish")

\* A rejected publication throws: the attempt is over, container and lease stay.
ParkPublish(w) ==
    /\ At(w, {"parkPublish"})
    /\ IF att[w].snap = None THEN UNCHANGED head /\ Goto(w, "parkRelease")
       ELSE IF MayPublish(w) THEN Publish(w) /\ Goto(w, "parkRelease")
       ELSE UNCHANGED head /\ Ends(w)
    /\ UNCHANGED <<storeVars, docker, newest, saved, edits, faults>>

ParkRelease(w) ==
    /\ At(w, {"parkRelease"})
    /\ ReleaseRunLease(att[w].id)
    /\ Goto(w, "parkDrop")
    /\ OutsideStore

\* The container goes after the lease, whatever preview there is; the volume stays.
ParkDrop(w) ==
    /\ At(w, {"parkDrop"})
    /\ container' = Destroyed(SessionAt(w))
    /\ Ends(w)
    /\ UNCHANGED <<storeVars, volume, checkpoints, edits, faults>>

-----------------------------------------------------------------------------
(* #settle and #teardown: outcome, checkpoint, container, volume, end *)

Record(w) ==
    /\ At(w, {"record"})
    /\ RecordOutcome(att[w].run, att[w].outcome)
    /\ Goto(w, IF att[w].sandbox THEN "save" ELSE "finish")
    /\ OutsideLedger

Save(w) ==
    /\ At(w, {"save"})
    /\ SnapshotTaken(w, "publish") \/ SnapshotFails(w, "drop")

\* A rejected publication leaves the snapshot unused: the volume is kept.
SettlePublish(w) ==
    /\ At(w, {"publish"})
    /\ IF MayPublish(w)
       THEN Publish(w) /\ Goto(w, "drop")
       ELSE UNCHANGED head /\ Becomes(w, [att[w] EXCEPT !.pc = "drop", !.snap = None])
    /\ UNCHANGED <<storeVars, docker, newest, saved, edits, faults>>

\* An active preview keeps the container and its volume.
Drop(w) ==
    /\ At(w, {"drop"})
    /\ \E kept \in Previews :
          /\ container' = IF kept THEN container ELSE Destroyed(SessionAt(w))
          /\ Goto(w, IF kept THEN "note" ELSE "remove")
    /\ UNCHANGED <<storeVars, volume, checkpoints, edits, faults>>

\* The volume goes only once its bytes are in the checkpoint store.
VolumeSaved_Assumed(w) == TRUE
VolumeSaved(w) == att[w].snap # None

Remove(w) ==
    /\ At(w, {"remove"})
    /\ IF VolumeSaved(w) THEN Removed(SessionAt(w)) ELSE UNCHANGED volume
    /\ Goto(w, "note")
    /\ UNCHANGED <<storeVars, container, checkpoints, edits, faults>>

Note(w) ==
    /\ At(w, {"note"})
    /\ IF att[w].outcome = "succeeded" \/ att[w].snap # None
       THEN RecordOutcome(att[w].run, att[w].outcome)
       ELSE UNCHANGED storeVars
    /\ Goto(w, "finish")
    /\ OutsideLedger

Finish(w) ==
    /\ At(w, {"finish"})
    /\ FinishRun(att[w].id, att[w].outcome)
    /\ Ends(w)
    /\ OutsideStore

\* A lost lease: the container goes by name, the volume stays, no outcome yet.
LostDrop(w) ==
    /\ At(w, {"lostDrop"})
    /\ IF att[w].sandbox
       THEN \E kept \in Previews :
                container' = IF kept THEN container ELSE Destroyed(SessionAt(w))
       ELSE UNCHANGED container
    /\ Goto(w, "lostFinish")
    /\ UNCHANGED <<storeVars, volume, checkpoints, edits, faults>>

LostFinish(w) ==
    /\ At(w, {"lostFinish"})
    /\ FinishRun(att[w].id, "failed")
    /\ IF FinishReturns(att[w].id, "failed") THEN Goto(w, "lostNote") ELSE Ends(w)
    /\ OutsideStore

LostNote(w) ==
    /\ At(w, {"lostNote"})
    /\ RecordOutcome(att[w].run, "failed")
    /\ Ends(w)
    /\ OutsideLedger

-----------------------------------------------------------------------------
(* Crashes, time and the users *)

\* The process is killed, or a call of the attempt throws past its handlers:
\* the container, the volume and the lease row stay as they are.
Crash(w) ==
    /\ ~At(w, {"idle"})
    /\ Fault
    /\ Ends(w)
    /\ UNCHANGED <<storeVars, docker, checkpoints, edits>>

Lapse(r) ==
    /\ NotListed(r) /\ \A w \in Workers : At(w, {"idle"}) \/ att[w].id # lease[r].id
    /\ LeaseLapses(r)
    /\ UNCHANGED att
    /\ OutsideStore

Users ==
    /\ \E r \in Runs : Admission(r) \/ UserRequest(r)
    /\ UNCHANGED att
    /\ OutsideStore

-----------------------------------------------------------------------------
(* Specification *)

Recovery(w) ==
    \/ RecoverStop(w) \/ RecoverStart(w) \/ RecoverSave(w) \/ RecoverPublish(w)
    \/ RecoverClean(w) \/ RecoverRemove(w)

Preparation(w) ==
    \/ PrepareStop(w) \/ PrepareStart(w) \/ Restore(w) \/ PrepareFails(w) \/ PrepareDrop(w)

Driving(w) ==
    \/ StartDrive(w) \/ Edit(w) \/ AgentEnds(w) \/ UserStop(w)
    \/ Resume(w) \/ LookInVain(w) \/ WaitTimesOut(w)
    \/ \E c \in Calls : Ask(w, c)

Parking(w) == Park(w) \/ ParkSave(w) \/ ParkPublish(w) \/ ParkRelease(w) \/ ParkDrop(w)

Settling(w) ==
    \/ Record(w) \/ Save(w) \/ SettlePublish(w) \/ Drop(w) \/ Remove(w) \/ Note(w) \/ Finish(w)
    \/ LostDrop(w) \/ LostFinish(w) \/ LostNote(w)

\* What a worker does of its own accord; a fault is never owed.
WorkerStep(w) ==
    \/ \E r \in Runs : Poll(w, r)
    \/ Claim(w) \/ NotTaken(w) \/ ReadLedger(w)
    \/ Recovery(w) \/ Preparation(w) \/ Driving(w) \/ Parking(w) \/ Settling(w)
    \/ KeeperLoses(w)

WorkerFault(w) == Shutdown(w) \/ LostDrainFails(w) \/ Crash(w)

ExecNext ==
    \/ Users
    \/ \E r \in Runs : Lapse(r)
    \/ \E w \in Workers : WorkerStep(w) \/ WorkerFault(w)

\* A live worker keeps polling and working; time passes.  Nothing else is owed:
\* no user has to answer, to cancel or to send another turn.
ExecFairness ==
    /\ \A w \in Workers : WF_execVars(WorkerStep(w) /\ faults' = faults)
    /\ \A r \in Runs : WF_execVars(Lapse(r))

ExecSpec == ExecInit /\ [][ExecNext]_execVars
FairExecSpec == ExecSpec /\ ExecFairness

-----------------------------------------------------------------------------
(* Properties *)

\* A running run always has a lease row, live or lapsed,
\* through which another worker recovers it: parking gives the lease up only
\* while the run is suspended.
NoRunningWithoutLease ==
    /\ ExecTypeOK
    /\ \A r \in Runs : status[r] = "running" => lease[r].id # 0

\* Every outcome the ledger holds for an ended run is the
\* one it ended with, over crashes between the event and the end: a re-claim
\* finishes with the recorded outcome instead of executing again.
OutcomesAgree ==
    \A r \in Runs : status[r] \in Terminal =>
        \A i \in DOMAIN outcomes[r] : FinishedStatus[outcomes[r][i]] = status[r]

\* Every edit is on its session's volume or in some
\* checkpoint of the project, through crashes, failed snapshots, restores and
\* volume removals.
NoWorkLost ==
    \A s \in Sessions : edits[s] \subseteq volume[s].work \cup saved[ProjectOf[s]]

\* A run whose cancellation was requested ends, suspended and parked runs included.
CancelEnds == \A r \in Runs : cancelled[r] ~> status[r] \in Terminal

\* A parked run whose user answered is picked up again.
AnsweredResumes ==
    \A r \in Runs : parked[r] /\ answer[r] # None ~> ~parked[r] \/ status[r] \in Terminal

\* A queued run is executed until it ends or waits for its user's answer.
Served == \A r \in Runs : status[r] = "queued" ~> status[r] \in Terminal \/ parked[r]

=============================================================================
