------------------------------ MODULE RunStore ------------------------------
(***************************************************************************)
(* The run, lease and question transactions of packages/project-state      *)
(* (postgres.ts).  Every operation of the store is one PostgreSQL          *)
(* transaction and one action here; LeaseTransactions takes the claim and  *)
(* the end of a run apart into their statements.  Callers are not          *)
(* modelled: any process may present any lease id it was ever granted, at  *)
(* any later time, which is what a delayed, a retried or a duplicated call *)
(* amounts to.  RunExecution composes the same operations with the worker  *)
(* that calls them.                                                        *)
(*                                                                         *)
(* An operator named X_Y just before X is X with the defect Y.  No         *)
(* specification uses it: it is there to show that a property notices.     *)
(***************************************************************************)
EXTENDS Naturals, Sequences

CONSTANTS
    Runs,          \* run ids
    Sessions,      \* build sessions (conversations)
    Projects,      \* projects
    Workers,       \* lease holders: one identity per worker process
    Calls,         \* tool-call ids of the questions a controller may ask
    Answers,       \* the answers a user may submit
    None,          \* SQL null
    SessionOf,     \* the session each run is created in
    ProjectOf,     \* the project each session belongs to
    MaxLeases      \* bound: leases ever granted

ASSUME SessionOfType == SessionOf \in [Runs -> Sessions]
ASSUME ProjectOfType == ProjectOf \in [Sessions -> Projects]
ASSUME NoneIsNoValue == None \notin Runs \cup Calls \cup Answers

VARIABLES
    status,        \* runs.status; "absent" before the row exists
    cancelled,     \* runs.cancellation_requested_at is not null
    question,      \* runs.pending_tool_call_id (pending_mastra_run_id is set and cleared with it)
    answer,        \* runs.pending_answer
    parked,        \* runs.parked_at is not null
    lease,         \* run_leases row: its id and whether expires_at > now()
    grants,        \* history: the run and holder of every lease id ever issued
    asked,         \* ledger: questions recorded for the run
    session,       \* build_sessions: run_id and status
    sandbox,       \* sandbox_environments.status
    endedBy        \* history: the lease id presented by the call that ended the run

vars == <<status, cancelled, question, answer, parked, lease, grants, asked, session, sandbox,
          endedBy>>

-----------------------------------------------------------------------------
(* Types *)

Terminal == {"completed", "failed", "cancelled"}
Active == {"running", "awaiting_approval"}
RunStatus == {"absent", "queued"} \cup Active \cup Terminal
Outcome == {"succeeded", "failed", "cancelled"}
SessionStatus == {"absent", "provisioning", "ready", "running", "blocked"}
SandboxStatus == {"absent", "allocating", "running", "destroyed"}

\* FINISHED_RUN_STATUS: the terminal status each outcome is stored as.
FinishedStatus == [succeeded |-> "completed", failed |-> "failed", cancelled |-> "cancelled"]

NoLease == [id |-> 0, live |-> FALSE]
Lease == [id: Nat, live: BOOLEAN]
Grant == [run: Runs, holder: Workers]

TypeOK ==
    /\ status \in [Runs -> RunStatus]
    /\ cancelled \in [Runs -> BOOLEAN]
    /\ question \in [Runs -> Calls \cup {None}]
    /\ answer \in [Runs -> Answers \cup {None}]
    /\ parked \in [Runs -> BOOLEAN]
    /\ lease \in [Runs -> Lease]
    /\ grants \in Seq(Grant)
    /\ asked \in [Runs -> SUBSET Calls]
    /\ session \in [Sessions -> [run: Runs \cup {None}, status: SessionStatus]]
    /\ sandbox \in [Sessions -> SandboxStatus]
    /\ endedBy \in [Runs -> Nat]

Init ==
    /\ status = [r \in Runs |-> "absent"]
    /\ cancelled = [r \in Runs |-> FALSE]
    /\ question = [r \in Runs |-> None]
    /\ answer = [r \in Runs |-> None]
    /\ parked = [r \in Runs |-> FALSE]
    /\ lease = [r \in Runs |-> NoLease]
    /\ grants = <<>>
    /\ asked = [r \in Runs |-> {}]
    /\ session = [s \in Sessions |-> [run |-> None, status |-> "absent"]]
    /\ sandbox = [s \in Sessions |-> "absent"]
    /\ endedBy = [r \in Runs |-> 0]

-----------------------------------------------------------------------------
(* Row predicates *)

ProjectOfRun(r) == ProjectOf[SessionOf[r]]

Unfinished(r) == status[r] \notin Terminal \cup {"absent"}

Competing(r) ==
    \E q \in Runs \ {r} : ProjectOfRun(q) = ProjectOfRun(r) /\ status[q] \in Active

\* An answered, cancelled or abandoned question is offered; a parked one waits for its user.
QuestionReady_ForgetsCancelled(r) ==
    status[r] = "awaiting_approval" => question[r] # None /\ (~parked[r] \/ answer[r] # None)
QuestionReady_ForgetsAnswered(r) ==
    status[r] = "awaiting_approval" => question[r] # None /\ (~parked[r] \/ cancelled[r])
QuestionReady(r) ==
    status[r] = "awaiting_approval" =>
        question[r] # None /\ (~parked[r] \/ answer[r] # None \/ cancelled[r])

\* listRunnableRuns: what the poll offers.
Runnable_OnlyQueued(r) ==
    status[r] = "queued" /\ ~Competing(r) /\ QuestionReady(r) /\ ~lease[r].live
Runnable(r) ==
    Unfinished(r) /\ ~Competing(r) /\ QuestionReady(r) /\ ~lease[r].live

\* beginRun's own conditions: the project is free and no live lease covers the run.
Claimable_NoProjectCheck(r) == Unfinished(r) /\ ~lease[r].live
Claimable_NoLeaseCheck(r) == Unfinished(r) /\ ~Competing(r)
Claimable(r) == Unfinished(r) /\ ~Competing(r) /\ ~lease[r].live

HoldsLiveLease(id) == lease[grants[id].run] = [id |-> id, live |-> TRUE]

-----------------------------------------------------------------------------
(* Admission *)

\* allocateBuildSession: a new session, its sandbox row and its first run.
AllocateBuildSession(r) ==
    /\ status[r] = "absent"
    /\ session[SessionOf[r]].run = None
    /\ status' = [status EXCEPT ![r] = "queued"]
    /\ session' = [session EXCEPT ![SessionOf[r]] = [run |-> r, status |-> "provisioning"]]
    /\ sandbox' = [sandbox EXCEPT ![SessionOf[r]] = "allocating"]
    /\ UNCHANGED <<cancelled, question, answer, parked, lease, grants, asked, endedBy>>

SessionBusy_IgnoresQueued(s) ==
    \E q \in Runs : SessionOf[q] = s /\ status[q] \in Active
SessionBusy(s) ==
    \E q \in Runs : SessionOf[q] = s /\ status[q] \in {"queued"} \cup Active

\* appendConversationTurn: the next turn of a session none of whose runs is pending.
AppendConversationTurn(r) ==
    /\ status[r] = "absent"
    /\ session[SessionOf[r]].run # None
    /\ ~SessionBusy(SessionOf[r])
    /\ status' = [status EXCEPT ![r] = "queued"]
    /\ session' = [session EXCEPT ![SessionOf[r]] = [run |-> r, status |-> "ready"]]
    /\ UNCHANGED <<cancelled, question, answer, parked, lease, grants, asked, sandbox,
                   endedBy>>

-----------------------------------------------------------------------------
(* Leases *)

\* beginRun: the claim.  A run that was suspended stays awaiting_approval.
BeginRun(r, w) ==
    /\ Len(grants) < MaxLeases
    /\ Claimable(r)
    /\ grants' = Append(grants, [run |-> r, holder |-> w])
    /\ lease' = [lease EXCEPT ![r] = [id |-> Len(grants) + 1, live |-> TRUE]]
    /\ status' = [status EXCEPT ![r] = IF @ = "awaiting_approval" THEN @ ELSE "running"]
    /\ session' = [session EXCEPT ![SessionOf[r]].status = "running"]
    /\ sandbox' = [sandbox EXCEPT ![SessionOf[r]] = "running"]
    /\ UNCHANGED <<cancelled, question, answer, parked, asked, endedBy>>

\* releaseRunLease: deletes the row that still carries this lease id.
ReleaseRunLease(id) ==
    LET r == grants[id].run IN
    /\ lease' = [lease EXCEPT ![r] = IF @.id = id THEN NoLease ELSE @]
    /\ UNCHANGED <<status, cancelled, question, answer, parked, grants, asked, session,
                   sandbox, endedBy>>

\* now() passes expires_at without a renewal.
LeaseLapses(r) ==
    /\ lease[r].live
    /\ lease' = [lease EXCEPT ![r].live = FALSE]
    /\ UNCHANGED <<status, cancelled, question, answer, parked, grants, asked, session,
                   sandbox, endedBy>>

\* The lease rows finishRun sees after deleting the caller's own.
LeaseAfterFinish(id) ==
    LET r == grants[id].run IN IF lease[r].id = id THEN NoLease ELSE lease[r]

\* finishRun's status update: refused once terminal, and while any live lease remains.
EndsRun_NoLeaseCheck(id) == Unfinished(grants[id].run)
EndsRun_NoStatusCheck(id) == status[grants[id].run] # "absent" /\ ~LeaseAfterFinish(id).live
EndsRun(id) == Unfinished(grants[id].run) /\ ~LeaseAfterFinish(id).live

StatusAfterFinish(id, o) ==
    IF EndsRun(id) THEN FinishedStatus[o] ELSE status[grants[id].run]

\* finishRun's answer to its caller.
FinishReturns(id, o) == StatusAfterFinish(id, o) = FinishedStatus[o]

\* The session row follows the run only while it is still the session's latest.
SessionRowOf_NoRunCheck(id) == session[SessionOf[grants[id].run]].run # None
SessionRowOf(id) == session[SessionOf[grants[id].run]].run = grants[id].run

\* finishRun: delete the own lease, end the run, then the session and sandbox rows.
FinishRun(id, o) ==
    LET r == grants[id].run
        s == SessionOf[r]
    IN
    /\ lease' = [lease EXCEPT ![r] = LeaseAfterFinish(id)]
    /\ status' = [status EXCEPT ![r] = StatusAfterFinish(id, o)]
    /\ endedBy' = [endedBy EXCEPT ![r] = IF EndsRun(id) THEN id ELSE @]
    /\ session' = IF FinishReturns(id, o) /\ SessionRowOf(id)
                  THEN [session EXCEPT ![s].status = IF o = "succeeded" THEN "ready" ELSE "blocked"]
                  ELSE session
    /\ sandbox' = IF FinishReturns(id, o) THEN [sandbox EXCEPT ![s] = "destroyed"] ELSE sandbox
    /\ UNCHANGED <<cancelled, question, answer, parked, grants, asked>>

-----------------------------------------------------------------------------
(* Questions and cancellation *)

\* appendRunEvent of a tool_suspended event: no lease fences it, the status does.
MaySuspend(r) == status[r] = "running"

SuspendForQuestion(r, c) ==
    /\ MaySuspend(r)
    /\ c \notin asked[r]
    /\ status' = [status EXCEPT ![r] = "awaiting_approval"]
    /\ question' = [question EXCEPT ![r] = c]
    /\ answer' = [answer EXCEPT ![r] = None]
    /\ asked' = [asked EXCEPT ![r] = @ \cup {c}]
    /\ UNCHANGED <<cancelled, parked, lease, grants, session, sandbox, endedBy>>

\* answerRunQuestion: only the first answer is stored; a repeat is replayed or refused.
AcceptsAnswer_Overwrites(r, c) == status[r] = "awaiting_approval" /\ question[r] = c
AcceptsAnswer(r, c) == status[r] = "awaiting_approval" /\ question[r] = c /\ answer[r] = None

AnswerRunQuestion(r, c, a) ==
    /\ AcceptsAnswer(r, c)
    /\ answer' = [answer EXCEPT ![r] = a]
    /\ UNCHANGED <<status, cancelled, question, parked, lease, grants, asked, session,
                   sandbox, endedBy>>

\* takeRunAnswer: consumes the answer and resumes the run; not fenced by a lease.
AnswerTakeable(r, c) ==
    status[r] = "awaiting_approval" /\ question[r] = c /\ answer[r] # None /\ ~cancelled[r]

ParkedAfterTake(r) == FALSE

TakeRunAnswer(r, c) ==
    /\ AnswerTakeable(r, c)
    /\ status' = [status EXCEPT ![r] = "running"]
    /\ question' = [question EXCEPT ![r] = None]
    /\ answer' = [answer EXCEPT ![r] = None]
    /\ parked' = [parked EXCEPT ![r] = ParkedAfterTake(r)]
    /\ UNCHANGED <<cancelled, lease, grants, asked, session, sandbox, endedBy>>

\* parkRunSuspension: conditional on the status, not on the lease.
ParkRunSuspension(r) ==
    /\ parked' = [parked EXCEPT ![r] = @ \/ status[r] = "awaiting_approval"]
    /\ UNCHANGED <<status, cancelled, question, answer, lease, grants, asked, session,
                   sandbox, endedBy>>

\* requestRunCancellation: refused for a terminal run, idempotent otherwise.
RequestRunCancellation(r) ==
    /\ Unfinished(r)
    /\ cancelled' = [cancelled EXCEPT ![r] = TRUE]
    /\ UNCHANGED <<status, question, answer, parked, lease, grants, asked, session,
                   sandbox, endedBy>>

-----------------------------------------------------------------------------
(* Specification *)

Admission(r) == AllocateBuildSession(r) \/ AppendConversationTurn(r)

UserRequest(r) ==
    \/ RequestRunCancellation(r)
    \/ \E c \in Calls, a \in Answers : AnswerRunQuestion(r, c, a)

RunWrite(r) ==
    \/ LeaseLapses(r)
    \/ ParkRunSuspension(r)
    \/ \E w \in Workers : BeginRun(r, w)
    \/ \E c \in Calls : SuspendForQuestion(r, c)
    \/ \E c \in Calls : TakeRunAnswer(r, c)

LeaseCall(id) ==
    \/ ReleaseRunLease(id)
    \/ \E o \in Outcome : FinishRun(id, o)

Next ==
    \/ \E r \in Runs : Admission(r)
    \/ \E r \in Runs : UserRequest(r)
    \/ \E r \in Runs : RunWrite(r)
    \/ \E id \in 1..Len(grants) : LeaseCall(id)

Spec == Init /\ [][Next]_vars

-----------------------------------------------------------------------------
(* Safety *)

\* A project never has two runs that are running or suspended, whoever claims,
\* resumes or ends them (the claim's check under the project lock; the unique
\* index runs_one_active_project_idx is its backstop).
OneActivePerProject ==
    \A r, q \in Runs :
        /\ status[r] \in Active
        /\ status[q] \in Active
        /\ ProjectOfRun(r) = ProjectOfRun(q)
        => r = q

\* Ending a run and releasing its lease are one commit: no ended run is still
\* covered by a live lease, whichever stale caller ended it.
NoLiveLeaseOnEndedRun == \A r \in Runs : status[r] \in Terminal => ~lease[r].live

\* A run is suspended exactly while it has a pending question; an answer or a
\* parked mark never outlives the question it belongs to (takeRunAnswer clears
\* them, appendRunEvent does not clear parked_at).
QuestionShape ==
    \A r \in Runs :
        /\ status[r] = "awaiting_approval" => question[r] # None
        /\ status[r] \in {"absent", "queued", "running"} =>
               question[r] = None /\ answer[r] = None /\ ~parked[r]
        /\ answer[r] # None => question[r] # None

\* The session row tells the state of its latest run: a late finishRun of an
\* earlier run of the session cannot change it.
SessionTellsLatestRun ==
    \A s \in Sessions :
        LET row == session[s] IN
        row.run # None =>
            /\ row.status = "provisioning" => status[row.run] = "queued"
            /\ row.status = "running" => status[row.run] \in Active
            /\ row.status = "ready" => status[row.run] \in {"queued", "completed"}
            /\ row.status = "blocked" => status[row.run] \in {"failed", "cancelled"}

\* Only the latest turn of a session can be unfinished, and the session row
\* names it: a turn is admitted only when no earlier one is pending.
OnlyLatestTurnPending ==
    \A r \in Runs : Unfinished(r) => session[SessionOf[r]].run = r

\* The lease row of a run carries an id that was granted for that run.
LeaseRowsMatchGrants ==
    \A r \in Runs :
        /\ lease[r].id \in 0..Len(grants)
        /\ lease[r].id # 0 => grants[lease[r].id].run = r
        /\ lease[r].live => lease[r].id # 0

\* A session row names a run of that session that exists.
SessionRowsMatchRuns ==
    \A s \in Sessions :
        LET q == session[s].run IN
        q # None => SessionOf[q] = s /\ status[q] # "absent"

\* The inductive invariant the proofs rest on.
IInv ==
    /\ TypeOK
    /\ LeaseRowsMatchGrants
    /\ SessionRowsMatchRuns
    /\ OnlyLatestTurnPending
    /\ OneActivePerProject
    /\ NoLiveLeaseOnEndedRun
    /\ QuestionShape
    /\ SessionTellsLatestRun

\* A live lease changes hands only through its own holder's release or finish,
\* or by lapsing first: no claim ever takes over a live lease.
LiveLeaseNotTaken ==
    [][\A r \in Runs : lease[r].live => lease'[r].id \in {lease[r].id, 0}]_vars

\* The first terminal status stands, and no call ends a run that somebody
\* else's live lease still covers.
FirstEndStands ==
    [][\A r \in Runs :
          /\ status[r] \in Terminal => status'[r] = status[r]
          /\ status[r] \notin Terminal /\ status'[r] \in Terminal /\ lease[r].live
                => endedBy'[r] = lease[r].id]_vars

\* An accepted answer is never replaced: it stays as submitted until the run
\* resumes with it, or for good when the run ends with it unread.
AcceptedAnswerStands ==
    [][\A r \in Runs : answer[r] # None /\ answer'[r] # answer[r] =>
          answer'[r] = None /\ status'[r] = "running"]_vars
=============================================================================
