---------------------------- MODULE Conversations ----------------------------
(***************************************************************************)
(* The conversations of a project over the runs of RunStore: which turns a *)
(* conversation shows, which checkpoint its next turn starts from, and how *)
(* a user rewrites it (project-state/conversation-history.ts and the       *)
(* session operations of postgres.ts).                                     *)
(*                                                                         *)
(* A checkpoint is the set of runs whose edits its files contain; the      *)
(* project keeps all of them, oldest first.  Attempts of the worker are    *)
(* reduced to what a conversation sees of them: the files they start from, *)
(* the checkpoints they save, and the publication of one as the head,      *)
(* which alone is fenced by the lease.  RunExecution has the rest of them. *)
(***************************************************************************)
EXTENDS RunStore, SequencesExt, FiniteSets

CONSTANT MaxRestores   \* bound: workspace restores

ASSUME ConvBoundsAreNatural == {MaxLeases, MaxRestores} \subseteq Nat

VARIABLES
    history,       \* conversation_history: the turns shown, by position
    head,          \* conversation_heads: isolated and checkpoint_id (0: null)
    saved,         \* the checkpoint store of each project, oldest first
    boundary,      \* run_workspace_boundaries: the checkpoint a run started from
    final,         \* the checkpoint the run's terminal event names
    archived,      \* build_sessions.archived_at is not null
    work,          \* the attempt with each lease id: its phase and workspace
    recorded,      \* runs whose ledger holds an outcome
    rewritten,     \* history: sessions that existed at a branch or retry
    picked,        \* history: work that a restore or a recovery put into a session
    restores       \* history: restores so far

convVars == <<history, head, saved, boundary, final, archived, work, recorded, rewritten, picked, restores>>
convState == <<vars, convVars>>

HeadRow == [isolated: BOOLEAN, cp: Nat]
Attempt == [pc: {"none", "ready", "saved", "recovered", "over"}, files: SUBSET Runs, cp: Nat]

ConvTypeOK ==
    /\ history \in [Sessions -> Seq(Runs)]
    /\ head \in [Sessions -> HeadRow]
    /\ saved \in [Projects -> Seq(SUBSET Runs)]
    /\ boundary \in [Runs -> Nat]
    /\ final \in [Runs -> Nat]
    /\ archived \in [Sessions -> BOOLEAN]
    /\ work \in [1..MaxLeases -> Attempt]
    /\ recorded \subseteq Runs
    /\ rewritten \subseteq Sessions
    /\ picked \in [Sessions -> SUBSET Runs]

ConvInit ==
    /\ Init
    /\ history = [s \in Sessions |-> <<>>]
    /\ head = [s \in Sessions |-> [isolated |-> FALSE, cp |-> 0]]
    /\ saved = [p \in Projects |-> <<>>]
    /\ boundary = [r \in Runs |-> 0]
    /\ final = [r \in Runs |-> 0]
    /\ archived = [s \in Sessions |-> FALSE]
    /\ work = [id \in 1..MaxLeases |-> [pc |-> "none", files |-> {}, cp |-> 0]]
    /\ recorded = {}
    /\ rewritten = {}
    /\ picked = [s \in Sessions |-> {}]
    /\ restores = 0

-----------------------------------------------------------------------------
(* What a session is and starts from *)

Exists(s) == session[s].run # None
Latest(p) == Len(saved[p])
Files(p, cp) == IF cp = 0 THEN {} ELSE saved[p][cp]

\* restoreLatestCheckpoint: the head once it is isolated, else the project's newest.
BaseOf(s) ==
    LET p == ProjectOf[s] IN
    IF head[s].isolated /\ head[s].cp # 0 THEN head[s].cp ELSE Latest(p)
BaseFiles(s) == Files(ProjectOf[s], BaseOf(s))

\* No run of the project is pending and no lease of it is live.
Quiet(p) ==
    \A r \in Runs : ProjectOfRun(r) = p => ~Unfinished(r) /\ ~lease[r].live

-----------------------------------------------------------------------------
(* Turns *)

\* allocateBuildSession: the head follows the project until it is isolated.
Allocate(r) ==
    /\ AllocateBuildSession(r)
    /\ history' = [history EXCEPT ![SessionOf[r]] = <<r>>]
    /\ UNCHANGED <<head, saved, boundary, final, archived, work, recorded, rewritten, picked, restores>>

\* appendConversationTurn: not in an archived conversation.
AppendTurn(r) ==
    /\ ~archived[SessionOf[r]]
    /\ AppendConversationTurn(r)
    /\ history' = [history EXCEPT ![SessionOf[r]] = Append(@, r)]
    /\ UNCHANGED <<head, saved, boundary, final, archived, work, recorded, rewritten, picked, restores>>

\* assertConversationArchivable
Archivable_Always(s) == TRUE
Archivable(s) ==
    \A r \in Runs :
        SessionOf[r] = s \/ session[s].run = r => ~Unfinished(r) /\ ~lease[r].live

\* updateConversation: archive or bring back.
UpdateConversation(s, on) ==
    /\ Exists(s)
    /\ on => Archivable(s)
    /\ archived' = [archived EXCEPT ![s] = on]
    /\ UNCHANGED <<vars, history, head, saved, boundary, final, work, recorded, rewritten, picked, restores>>

-----------------------------------------------------------------------------
(* Branch and retry *)

Position(s, r) == CHOOSE i \in DOMAIN history[s] : history[s][i] = r

Changeable(s, r) ==
    /\ Exists(s)
    /\ ~archived[s]
    /\ Quiet(ProjectOf[s])
    /\ \E i \in DOMAIN history[s] : history[s][i] = r

\* Sessions that followed the project keep, from now on, the files they have.
Pinned_Skipped(p) == head
Pinned(p) ==
    [t \in Sessions |->
        IF ProjectOf[t] = p /\ Exists(t) /\ ~head[t].isolated
        THEN [isolated |-> TRUE, cp |-> Latest(p)] ELSE head[t]]

\* resolveBoundary: a branch starts from what a completed turn left, a retry from
\* what the turn started from.  That is recorded before the turn can save anything, so
\* the fallback for turns of older workers, which recorded none, is left out.
BranchPoint(r) == IF status[r] = "completed" THEN final[r] ELSE 0
Baseline(r) == boundary[r]

RewrittenBy(p) == {t \in Sessions : ProjectOf[t] = p /\ Exists(t)}

\* change, action "branch": session t begins with the turns of s up to r.
Branch(s, r, t) ==
    LET p == ProjectOf[s] IN
    /\ Changeable(s, r)
    /\ ~Exists(t) /\ ProjectOf[t] = p
    /\ BranchPoint(r) # 0
    /\ session' = [session EXCEPT ![t] = [run |-> r, status |-> "ready"]]
    /\ sandbox' = [sandbox EXCEPT ![t] = "allocating"]
    /\ history' = [history EXCEPT ![t] = SubSeq(history[s], 1, Position(s, r))]
    /\ head' = [Pinned(p) EXCEPT ![t] = [isolated |-> TRUE, cp |-> BranchPoint(r)]]
    /\ rewritten' = rewritten \cup RewrittenBy(p)
    /\ picked' = [picked EXCEPT ![t] = picked[s]]
    /\ UNCHANGED <<status, cancelled, question, answer, parked, lease, grants, asked, endedBy,
                   saved, boundary, final, archived, work, recorded, restores>>

\* change, action "retry": run q takes the place of turn r and of what came after it.
Retry(s, r, q) ==
    LET p == ProjectOf[s] IN
    /\ Changeable(s, r)
    /\ status[q] = "absent" /\ SessionOf[q] = s
    /\ Baseline(r) # 0
    /\ status' = [status EXCEPT ![q] = "queued"]
    /\ session' = [session EXCEPT ![s] = [run |-> q, status |-> "ready"]]
    /\ history' = [history EXCEPT ![s] = Append(SubSeq(@, 1, Position(s, r) - 1), q)]
    /\ head' = [Pinned(p) EXCEPT ![s] = [isolated |-> TRUE, cp |-> Baseline(r)]]
    /\ rewritten' = rewritten \cup RewrittenBy(p)
    /\ UNCHANGED <<cancelled, question, answer, parked, lease, grants, asked, sandbox, endedBy,
                   saved, boundary, final, archived, work, recorded, picked, restores>>

\* restoreWorkspace: the current files are saved first, and the chosen ones anew once
\* they are in the workspace; it can fail after either.
RestoreSaves(s, cp) == <<BaseFiles(s), saved[ProjectOf[s]][cp]>>

\* restoreWorkspaceCheckpoint: the head moves in the transaction that waits for it,
\* which can still fail when both are saved.
RestoreWorkspace(s, cp) ==
    LET p == ProjectOf[s] IN
    /\ restores < MaxRestores
    /\ Exists(s) /\ Quiet(p)
    /\ cp \in DOMAIN saved[p]
    /\ restores' = restores + 1
    /\ \/ /\ saved' = [saved EXCEPT ![p] = @ \o RestoreSaves(s, cp)]
          /\ head' = [head EXCEPT ![s] = [isolated |-> TRUE, cp |-> Latest(p) + 2]]
          /\ picked' = [picked EXCEPT ![s] = @ \cup saved[p][cp]]
       \/ /\ \E n \in 1..2 :
                saved' = [saved EXCEPT ![p] = @ \o SubSeq(RestoreSaves(s, cp), 1, n)]
          /\ UNCHANGED <<head, picked>>
    /\ UNCHANGED <<vars, history, boundary, final, archived, work, recorded, rewritten>>

-----------------------------------------------------------------------------
(* Attempts *)

RunOf(id) == grants[id].run
SessionOfLease(id) == SessionOf[RunOf(id)]
AttemptAt(id, phase) == id \in DOMAIN grants /\ work[id].pc = phase

Claim(r, w) == BeginRun(r, w) /\ UNCHANGED convVars
Lapse(r) == LeaseLapses(r) /\ UNCHANGED convVars

\* Workspaces of the session that an earlier attempt left behind.
Retained(id) ==
    {work[j].files : j \in {j \in 1..(id - 1) : SessionOfLease(j) = SessionOfLease(id)
                                                /\ work[j].pc # "none"}}

BoundaryOf_Newest(r, cp) == cp
BoundaryOf(r, cp) == IF boundary[r] = 0 THEN cp ELSE boundary[r]

\* The preparation under the lease, of a run with no outcome yet: what is left in the
\* volume is saved, the base restored, and saved as the run's boundary unless it has one.
Prepare(id) ==
    LET s == SessionOfLease(id)
        p == ProjectOf[s]
    IN
    /\ AttemptAt(id, "none")
    /\ HoldsLiveLease(id)
    /\ RunOf(id) \notin recorded
    /\ \E left \in {<<>>} \cup {<<files>> : files \in Retained(id)} :
          LET store == saved[p] \o left
              base == IF head[s].isolated /\ head[s].cp # 0 THEN Files(p, head[s].cp)
                      ELSE IF store = <<>> THEN {} ELSE Last(store)
          IN
          /\ saved' = [saved EXCEPT ![p] = Append(store, base)]
          /\ boundary' = [boundary EXCEPT ![RunOf(id)] = BoundaryOf(RunOf(id), Len(store) + 1)]
          /\ work' = [work EXCEPT ![id] = [pc |-> "ready", files |-> base \cup {RunOf(id)}, cp |-> 0]]
    /\ UNCHANGED <<vars, history, head, final, archived, recorded, rewritten, picked, restores>>

\* settle: a failure or a cancel is in the ledger before the workspace is touched; an
\* attempt that failed before its workspace was ready leaves the volume as it is.
Record(id) ==
    /\ AttemptAt(id, "none") \/ AttemptAt(id, "ready")
    /\ RunOf(id) \notin recorded
    /\ recorded' = recorded \cup {RunOf(id)}
    /\ work' = IF work[id].pc = "none" THEN [work EXCEPT ![id].pc = "over"] ELSE work
    /\ UNCHANGED <<vars, history, head, saved, boundary, final, archived, rewritten, picked, restores>>

\* #recoverRecordedTerminal: the next attempt of a run with an outcome restores no base;
\* what it finds in the volume, whichever turn left it, is saved for publication.
Recover(id) ==
    LET p == ProjectOf[SessionOfLease(id)] IN
    /\ AttemptAt(id, "none")
    /\ HoldsLiveLease(id)
    /\ RunOf(id) \in recorded
    /\ \/ \E files \in Retained(id) :
             /\ saved' = [saved EXCEPT ![p] = Append(@, files)]
             /\ work' = [work EXCEPT ![id] = [pc |-> "recovered", files |-> files, cp |-> Latest(p) + 1]]
       \/ /\ work' = [work EXCEPT ![id].pc = "over"]
          /\ UNCHANGED saved
    /\ UNCHANGED <<vars, history, head, boundary, final, archived, recorded, rewritten, picked, restores>>

\* snapshotWorkspaceCheckpoint of the turn's work; nothing fences it.
Save(id) ==
    LET p == ProjectOf[SessionOfLease(id)] IN
    /\ AttemptAt(id, "ready")
    /\ saved' = [saved EXCEPT ![p] = Append(@, work[id].files)]
    /\ work' = [work EXCEPT ![id] = [pc |-> "saved", files |-> @.files, cp |-> Latest(p) + 1]]
    /\ UNCHANGED <<vars, history, head, boundary, final, archived, recorded, rewritten, picked, restores>>

\* publish: the attempt holds the lease and its run is the session's latest.
MayPublish_NoLeaseCheck(id) == session[SessionOfLease(id)].run = RunOf(id)
MayPublish(id) == HoldsLiveLease(id) /\ session[SessionOfLease(id)].run = RunOf(id)

\* The head and the terminal event; a refused publication leaves the event without a
\* checkpoint.
PublishCheckpoint(id) ==
    /\ IF MayPublish(id)
       THEN /\ head' = [head EXCEPT ![SessionOfLease(id)] = [isolated |-> TRUE, cp |-> work[id].cp]]
            /\ final' = [final EXCEPT ![RunOf(id)] = work[id].cp]
       ELSE UNCHANGED <<head, final>>
    /\ recorded' = recorded \cup {RunOf(id)}
    /\ work' = [work EXCEPT ![id].pc = "over"]
    /\ UNCHANGED <<vars, history, saved, boundary, archived, rewritten, restores>>

Publish(id) ==
    /\ AttemptAt(id, "saved")
    /\ PublishCheckpoint(id)
    /\ UNCHANGED picked

PublishRecovered(id) ==
    /\ AttemptAt(id, "recovered")
    /\ PublishCheckpoint(id)
    /\ picked' = IF MayPublish(id) THEN [picked EXCEPT ![SessionOfLease(id)] = @ \cup work[id].files]
                 ELSE picked

\* finishRun, from any point of the attempt: a failed preparation or snapshot too.
End(id, o) ==
    /\ id \in DOMAIN grants
    /\ FinishRun(id, o)
    /\ UNCHANGED convVars

-----------------------------------------------------------------------------
(* Specification *)

UserStep ==
    \/ \E s \in Sessions, on \in BOOLEAN : UpdateConversation(s, on)
    \/ \E s \in Sessions : \E cp \in 1..Latest(ProjectOf[s]) : RestoreWorkspace(s, cp)

ChangeStep ==
    \/ \E r \in Runs : Allocate(r) \/ AppendTurn(r)
    \/ \E s \in Sessions, r \in Runs :
          \/ \E t \in Sessions : Branch(s, r, t)
          \/ \E q \in Runs : Retry(s, r, q)

WorkerStep ==
    \/ \E r \in Runs : Lapse(r) \/ \E w \in Workers : Claim(r, w)
    \/ \E id \in 1..MaxLeases :
          \/ Prepare(id) \/ Save(id) \/ Publish(id)
          \/ Record(id) \/ Recover(id) \/ PublishRecovered(id)
          \/ \E o \in Outcome : End(id, o)

ConvNext == UserStep \/ ChangeStep \/ WorkerStep

ConvSpec == ConvInit /\ [][ConvNext]_convState

-----------------------------------------------------------------------------
(* Properties *)

\* A conversation shows its latest run last, each run once, and nothing is at work
\* that it does not show: over turns, branches, retries, archiving and stale ends.
TurnsFitHistory ==
    /\ ConvTypeOK
    /\ \A s \in Sessions :
          /\ Exists(s) => history[s] # <<>> /\ Last(history[s]) = session[s].run
          /\ \A i, j \in DOMAIN history[s] : history[s][i] = history[s][j] => i = j
          /\ \A r \in Runs : SessionOf[r] = s /\ Unfinished(r) =>
                 ~archived[s] /\ r = Last(history[s])

\* Of the runs the conversation s could show, its files hold the work of those it does
\* show, apart from what is excepted.
FilesFitTurns(s, excepted) ==
    head[s].isolated =>
        \A x \in Files(ProjectOf[s], head[s].cp) \ excepted :
            (SessionOf[x] = s \/ \E i \in DOMAIN history[s] : SessionOf[history[s][i]] = SessionOf[x])
            => \E i \in DOMAIN history[s] : history[s][i] = x

\* The work of a turn that a retry discarded, or that came after the point a branch
\* started from, is not in the conversation's files unless its user restored it or a
\* worker recovered it for a run that had its outcome, whatever late attempts save and
\* publish.
DiscardedWorkStaysOut == \A s \in Sessions : FilesFitTurns(s, picked[s])

\* A retry starts from the source before its turn and leaves out the turns it
\* supersedes, in a conversation without restores.
SupersededWorkStaysOut == restores = 0 => \A s \in Sessions : FilesFitTurns(s, {})

\* Once a conversation of the project was branched or retried, the files of the
\* others change only with their own turns, retries and restores.
OthersFilesStand ==
    [][\A s \in rewritten :
          BaseFiles(s)' # BaseFiles(s) =>
              \/ \E id \in DOMAIN grants : SessionOfLease(id) = s /\ (Publish(id) \/ PublishRecovered(id))
              \/ \E r, q \in Runs : Retry(s, r, q)
              \/ \E cp \in 1..Latest(ProjectOf[s]) : RestoreWorkspace(s, cp)]_convState

\* An attempt whose run was taken over, or whose session went on to another run, never
\* moves the conversation's head, however late it comes with the snapshot it saved.
TakenOverNeverPublishes ==
    [][\A id \in DOMAIN grants :
          (Publish(id) \/ PublishRecovered(id)) /\ head' # head =>
              \A j \in (id + 1)..Len(grants) : SessionOfLease(j) # SessionOfLease(id)]_convState
=============================================================================
