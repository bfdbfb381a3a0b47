--------------------------- MODULE RunStoreProofs ---------------------------
(***************************************************************************)
(* Proofs about RunStore, for every set of runs, sessions, projects,       *)
(* workers and questions and every value of the bounds.                    *)
(***************************************************************************)
EXTENDS RunStoreRefinement, TLAPS

\* The initial state satisfies every conjunct of the inductive invariant.
LEMMA InitIInv == Init => IInv
<1> SUFFICES ASSUME Init PROVE IInv
  OBVIOUS
<1> USE SessionOfType, ProjectOfType, NoneIsNoValue DEF Init
<1>1. TypeOK
  BY DEF TypeOK, RunStatus, SessionStatus, SandboxStatus, Lease, NoLease, Grant, Active, Terminal
<1>2. LeaseRowsMatchGrants
  <2>1. Len(grants) = 0
    OBVIOUS
  <2>2. \A r \in Runs : lease[r].id = 0 /\ lease[r].live = FALSE
    BY DEF NoLease
  <2>3. QED
    <3> SUFFICES ASSUME NEW r \in Runs
                 PROVE  /\ lease[r].id \in 0..Len(grants)
                        /\ lease[r].id # 0 => grants[lease[r].id].run = r
                        /\ lease[r].live => lease[r].id # 0
      BY DEF LeaseRowsMatchGrants
    <3> HIDE DEF Init
    <3> QED
      BY <2>1, <2>2
<1>3. SessionRowsMatchRuns /\ OnlyLatestTurnPending
  BY DEF SessionRowsMatchRuns, OnlyLatestTurnPending, Unfinished, Terminal
<1>4. OneActivePerProject /\ NoLiveLeaseOnEndedRun /\ QuestionShape
  BY DEF OneActivePerProject, NoLiveLeaseOnEndedRun, QuestionShape, Active, Terminal
<1>5. SessionTellsLatestRun
  BY DEF SessionTellsLatestRun
<1>6. QED
  BY <1>1, <1>2, <1>3, <1>4, <1>5 DEF IInv

\* A lease id names a grant: a run, a holder and the run's session.
LEMMA GrantOf ==
  ASSUME TypeOK, NEW id \in 1..Len(grants)
  PROVE  /\ id \in Nat \ {0}
         /\ grants[id] \in Grant
         /\ grants[id].run \in Runs
         /\ SessionOf[grants[id].run] \in Sessions
<1>1. grants \in Seq(Grant)
  BY DEF TypeOK
<1>2. id \in Nat \ {0} /\ grants[id] \in Grant
  BY <1>1
<1>3. QED
  BY <1>2, SessionOfType DEF Grant

\* Writing the status column of one session row keeps the table's type.
LEMMA SessionRowType ==
  ASSUME NEW R, NEW st, NEW table \in [Sessions -> [run: R, status: SessionStatus]],
         NEW s \in Sessions, st \in SessionStatus
  PROVE  [table EXCEPT ![s].status = st] \in [Sessions -> [run: R, status: SessionStatus]]
  OBVIOUS

\* The types of the store's rows are kept by every transaction.
LEMMA StepType == TypeOK /\ [Next]_vars => TypeOK'
<1> SUFFICES ASSUME TypeOK, [Next]_vars PROVE TypeOK'
  OBVIOUS
<1> USE SessionOfType, NoneIsNoValue DEF TypeOK, RunStatus, SessionStatus, SandboxStatus,
        Lease, NoLease, Grant, Active, Terminal, Outcome
<1>1. ASSUME NEW r \in Runs, AllocateBuildSession(r) PROVE TypeOK'
  BY <1>1 DEF AllocateBuildSession
<1>2. ASSUME NEW r \in Runs, AppendConversationTurn(r) PROVE TypeOK'
  BY <1>2 DEF AppendConversationTurn
<1>3. ASSUME NEW r \in Runs, NEW w \in Workers, BeginRun(r, w) PROVE TypeOK'
  <2>1. grants' \in Seq(Grant) /\ Len(grants) + 1 \in Nat
    BY <1>3 DEF BeginRun
  <2>2. lease' \in [Runs -> Lease]
    BY <1>3, <2>1 DEF BeginRun
  <2>3. status' \in [Runs -> RunStatus]
    BY <1>3 DEF BeginRun
  <2>4. session' \in [Sessions -> [run: Runs \cup {None}, status: SessionStatus]]
    <3>1. session' = [session EXCEPT ![SessionOf[r]].status = "running"]
      BY <1>3 DEF BeginRun
    <3>2. QED
      BY <3>1, SessionRowType
  <2>5. sandbox' \in [Sessions -> SandboxStatus]
    BY <1>3 DEF BeginRun
  <2>6. QED
    BY <1>3, <2>1, <2>2, <2>3, <2>4, <2>5 DEF BeginRun
<1>4. ASSUME NEW id \in 1..Len(grants), ReleaseRunLease(id) PROVE TypeOK'
  BY <1>4 DEF ReleaseRunLease
<1>5. ASSUME NEW id \in 1..Len(grants), NEW o \in Outcome, FinishRun(id, o) PROVE TypeOK'
  <2> DEFINE r == grants[id].run
             s == SessionOf[r]
  <2>1. r \in Runs /\ s \in Sessions /\ id \in Nat
    BY GrantOf
  <2>2. LeaseAfterFinish(id) \in Lease
    BY <2>1 DEF LeaseAfterFinish
  <2>3. StatusAfterFinish(id, o) \in RunStatus
    BY <2>1 DEF StatusAfterFinish, FinishedStatus
  <2>4. lease' \in [Runs -> Lease]
    BY <1>5, <2>1, <2>2 DEF FinishRun
  <2>5. status' \in [Runs -> RunStatus]
    BY <1>5, <2>1, <2>3 DEF FinishRun
  <2>6. session' \in [Sessions -> [run: Runs \cup {None}, status: SessionStatus]]
    <3>1. \/ session' = session
          \/ session' = [session EXCEPT ![s].status = "ready"]
          \/ session' = [session EXCEPT ![s].status = "blocked"]
      BY <1>5 DEF FinishRun
    <3>2. session \in [Sessions -> [run: Runs \cup {None}, status: SessionStatus]]
      OBVIOUS
    <3>3. {"ready", "blocked"} \subseteq SessionStatus
      OBVIOUS
    <3> HIDE DEF s, r, TypeOK, SessionStatus
    <3>4. \A st \in SessionStatus : [session EXCEPT ![s].status = st]
            \in [Sessions -> [run: Runs \cup {None}, status: SessionStatus]]
      BY <2>1, <3>2, SessionRowType
    <3>5. QED
      BY <3>1, <3>2, <3>3, <3>4
  <2>7. sandbox' \in [Sessions -> SandboxStatus]
    BY <1>5, <2>1 DEF FinishRun
  <2>8. endedBy' \in [Runs -> Nat]
    BY <1>5, <2>1 DEF FinishRun
  <2>9. QED
    BY <1>5, <2>4, <2>5, <2>6, <2>7, <2>8 DEF FinishRun
<1>6. ASSUME NEW r \in Runs, LeaseLapses(r) PROVE TypeOK'
  BY <1>6 DEF LeaseLapses
<1>7. ASSUME NEW r \in Runs, NEW c \in Calls, SuspendForQuestion(r, c) PROVE TypeOK'
  BY <1>7 DEF SuspendForQuestion
<1>8. ASSUME NEW r \in Runs, NEW c \in Calls, NEW a \in Answers, AnswerRunQuestion(r, c, a)
      PROVE TypeOK'
  BY <1>8 DEF AnswerRunQuestion
<1>9. ASSUME NEW r \in Runs, NEW c \in Calls, TakeRunAnswer(r, c) PROVE TypeOK'
  BY <1>9 DEF TakeRunAnswer, ParkedAfterTake
<1>10. ASSUME NEW r \in Runs, ParkRunSuspension(r) PROVE TypeOK'
  BY <1>10 DEF ParkRunSuspension
<1>11. ASSUME NEW r \in Runs, RequestRunCancellation(r) PROVE TypeOK'
  BY <1>11 DEF RequestRunCancellation
<1>12. CASE UNCHANGED vars
  BY <1>12 DEF vars
<1> HIDE DEF TypeOK
<1>13. QED
  BY <1>1, <1>2, <1>3, <1>4, <1>5, <1>6, <1>7, <1>8, <1>9, <1>10, <1>11, <1>12
  DEF Next, Admission, UserRequest, RunWrite, LeaseCall

-----------------------------------------------------------------------------
(* What the two transactions with the widest effect do to each row *)

\* Writing the status column of one session row moves no row to another run.
LEMMA SessionRowWritten ==
  ASSUME NEW R, NEW table \in [Sessions -> [run: R, status: SessionStatus]],
         NEW s \in Sessions, NEW st \in SessionStatus, NEW t \in Sessions
  PROVE  /\ [table EXCEPT ![s].status = st][t].run = table[t].run
         /\ [table EXCEPT ![s].status = st][t].status = IF t = s THEN st ELSE table[t].status
  OBVIOUS

\* beginRun leaves every other run alone and points the session row at nothing new.
LEMMA BeginEffect ==
  ASSUME TypeOK, NEW r \in Runs, NEW w \in Workers, BeginRun(r, w)
  PROVE  /\ Claimable(r)
         /\ \A q \in Runs : q # r => status'[q] = status[q] /\ lease'[q] = lease[q]
         /\ status'[r] \in Active
         /\ status[r] = "awaiting_approval" => status'[r] = "awaiting_approval"
         /\ status[r] # "awaiting_approval" => status'[r] = "running"
         /\ lease'[r] = [id |-> Len(grants) + 1, live |-> TRUE]
         /\ grants' = Append(grants, [run |-> r, holder |-> w])
         /\ \A t \in Sessions :
               /\ session'[t].run = session[t].run
               /\ session'[t].status = IF t = SessionOf[r] THEN "running" ELSE session[t].status
         /\ UNCHANGED <<question, answer, parked>>
<1>1. /\ Claimable(r)
      /\ status' = [status EXCEPT ![r] = IF @ = "awaiting_approval" THEN @ ELSE "running"]
      /\ lease' = [lease EXCEPT ![r] = [id |-> Len(grants) + 1, live |-> TRUE]]
      /\ grants' = Append(grants, [run |-> r, holder |-> w])
      /\ session' = [session EXCEPT ![SessionOf[r]].status = "running"]
      /\ UNCHANGED <<question, answer, parked>>
  BY DEF BeginRun
<1>2. status \in [Runs -> RunStatus] /\ lease \in [Runs -> Lease]
  BY DEF TypeOK
<1>3. session \in [Sessions -> [run: Runs \cup {None}, status: SessionStatus]]
  BY DEF TypeOK
<1>4. "running" \in SessionStatus /\ SessionOf[r] \in Sessions
  BY SessionOfType DEF SessionStatus
<1>5. \A t \in Sessions :
        /\ session'[t].run = session[t].run
        /\ session'[t].status = IF t = SessionOf[r] THEN "running" ELSE session[t].status
  BY <1>1, <1>3, <1>4, SessionRowWritten
<1>6. QED
  BY <1>1, <1>2, <1>5 DEF Active

\* finishRun ends at most the run of the lease it was given, only when that
\* leaves no live lease, and writes the session row only while it is that run's.
LEMMA FinishEffect ==
  ASSUME TypeOK, NEW id \in 1..Len(grants), NEW o \in Outcome, FinishRun(id, o),
         NEW r \in Runs, r = grants[id].run
  PROVE  /\ \A q \in Runs : q # r => /\ status'[q] = status[q]
                                     /\ lease'[q] = lease[q]
                                     /\ endedBy'[q] = endedBy[q]
         /\ lease'[r] = LeaseAfterFinish(id)
         /\ \/ status'[r] = status[r] /\ endedBy'[r] = endedBy[r]
            \/ EndsRun(id) /\ status'[r] = FinishedStatus[o] /\ endedBy'[r] = id
         /\ \A t \in Sessions :
               /\ session'[t].run = session[t].run
               /\ \/ session'[t].status = session[t].status
                  \/ /\ t = SessionOf[r] /\ session[t].run = r
                     /\ status'[r] = FinishedStatus[o]
                     /\ session'[t].status = IF o = "succeeded" THEN "ready" ELSE "blocked"
               /\ t = SessionOf[r] /\ session[t].run = r /\ status'[r] # status[r] =>
                     session'[t].status = IF o = "succeeded" THEN "ready" ELSE "blocked"
         /\ UNCHANGED <<question, answer, parked, grants>>
<1> DEFINE s == SessionOf[r]
           st == IF o = "succeeded" THEN "ready" ELSE "blocked"
           row == FinishReturns(id, o) /\ SessionRowOf(id)
<1>1. /\ lease' = [lease EXCEPT ![r] = LeaseAfterFinish(id)]
      /\ status' = [status EXCEPT ![r] = StatusAfterFinish(id, o)]
      /\ endedBy' = [endedBy EXCEPT ![r] = IF EndsRun(id) THEN id ELSE @]
      /\ session' = IF row THEN [session EXCEPT ![s].status = st] ELSE session
      /\ UNCHANGED <<question, answer, parked, grants>>
  BY DEF FinishRun
<1>2. /\ status \in [Runs -> RunStatus]
      /\ lease \in [Runs -> Lease]
      /\ endedBy \in [Runs -> Nat]
      /\ session \in [Sessions -> [run: Runs \cup {None}, status: SessionStatus]]
  BY DEF TypeOK
<1>3. s \in Sessions /\ st \in SessionStatus
  BY SessionOfType DEF SessionStatus
<1>4. /\ status'[r] = StatusAfterFinish(id, o)
      /\ lease'[r] = LeaseAfterFinish(id)
      /\ endedBy'[r] = IF EndsRun(id) THEN id ELSE endedBy[r]
      /\ \A q \in Runs : q # r => /\ status'[q] = status[q]
                                  /\ lease'[q] = lease[q]
                                  /\ endedBy'[q] = endedBy[q]
  BY <1>1, <1>2
<1>5. \/ status'[r] = status[r] /\ endedBy'[r] = endedBy[r]
      \/ EndsRun(id) /\ status'[r] = FinishedStatus[o] /\ endedBy'[r] = id
  BY <1>4 DEF StatusAfterFinish
<1>6. /\ FinishReturns(id, o) <=> status'[r] = FinishedStatus[o]
      /\ SessionRowOf(id) <=> session[s].run = r
  BY <1>4 DEF FinishReturns, SessionRowOf
<1>7. ASSUME NEW t \in Sessions
      PROVE  /\ session'[t].run = session[t].run
             /\ session'[t].status = IF row /\ t = s THEN st ELSE session[t].status
  <2> HIDE DEF s, st, row
  <2>1. CASE row
    BY <2>1, <1>1, <1>2, <1>3, SessionRowWritten
  <2>2. CASE ~row
    BY <2>2, <1>1
  <2>3. QED
    BY <2>1, <2>2
<1>8. status'[r] # status[r] => status'[r] = FinishedStatus[o]
  BY <1>5
<1>9. QED
  BY <1>1, <1>4, <1>5, <1>6, <1>7, <1>8

-----------------------------------------------------------------------------
(* Every step keeps each conjunct of the inductive invariant *)

\* The rows the invariant speaks of.
storeRows == <<status, question, answer, parked, lease, grants, session, endedBy>>

\* A step is one of these transactions, or it touches none of the rows.
LEMMA StepCases ==
  ASSUME [Next]_vars
  PROVE  \/ \E r \in Runs : AllocateBuildSession(r)
         \/ \E r \in Runs : AppendConversationTurn(r)
         \/ \E r \in Runs, w \in Workers : BeginRun(r, w)
         \/ \E id \in 1..Len(grants) : ReleaseRunLease(id)
         \/ \E r \in Runs : LeaseLapses(r)
         \/ \E id \in 1..Len(grants), o \in Outcome : FinishRun(id, o)
         \/ \E r \in Runs, c \in Calls : SuspendForQuestion(r, c)
         \/ \E r \in Runs, c \in Calls, a \in Answers : AnswerRunQuestion(r, c, a)
         \/ \E r \in Runs, c \in Calls : TakeRunAnswer(r, c)
         \/ \E r \in Runs : ParkRunSuspension(r)
         \/ UNCHANGED storeRows
<1>1. ASSUME NEW r \in Runs, RequestRunCancellation(r) PROVE UNCHANGED storeRows
  BY <1>1 DEF RequestRunCancellation, storeRows
<1>2. ASSUME UNCHANGED vars PROVE UNCHANGED storeRows
  BY <1>2 DEF vars, storeRows
<1>3. QED
  BY <1>1, <1>2 DEF Next, Admission, UserRequest, RunWrite, LeaseCall

\* A granted lease stays granted, to the run it was granted for.
LEMMA GrantsStay ==
  ASSUME TypeOK, [Next]_vars, NEW id \in DOMAIN grants
  PROVE  id \in DOMAIN grants' /\ grants'[id] = grants[id]
<1>0. grants \in Seq(Grant)
  BY DEF TypeOK
<1>1. ASSUME UNCHANGED grants PROVE id \in DOMAIN grants' /\ grants'[id] = grants[id]
  BY <1>1
<1>2. ASSUME NEW r \in Runs, NEW w \in Workers, BeginRun(r, w)
      PROVE  id \in DOMAIN grants' /\ grants'[id] = grants[id]
  <2>1. grants' = Append(grants, [run |-> r, holder |-> w])
    BY <1>2 DEF BeginRun
  <2>2. QED
    BY <1>0, <2>1
<1>3. QED
  BY <1>1, <1>2, StepCases
  DEF storeRows, AllocateBuildSession, AppendConversationTurn, ReleaseRunLease, LeaseLapses,
      FinishRun, SuspendForQuestion, AnswerRunQuestion, TakeRunAnswer, ParkRunSuspension

\* Lease rows keep naming grants of their own run.
LEMMA StepLeaseRows == IInv /\ [Next]_vars => LeaseRowsMatchGrants'
<1> SUFFICES ASSUME IInv, [Next]_vars PROVE LeaseRowsMatchGrants'
  OBVIOUS
<1> USE DEF IInv
<1>0. /\ lease \in [Runs -> Lease] /\ grants \in Seq(Grant) /\ Len(grants) \in Nat
  BY DEF TypeOK
<1>1. ASSUME UNCHANGED grants, \A q \in Runs : lease'[q] \in {lease[q], NoLease}
      PROVE LeaseRowsMatchGrants'
  BY <1>0, <1>1 DEF LeaseRowsMatchGrants, NoLease
<1>2. ASSUME NEW r \in Runs, NEW w \in Workers, BeginRun(r, w) PROVE LeaseRowsMatchGrants'
  <2> DEFINE n == Len(grants) + 1
  <2>1. /\ lease'[r] = [id |-> n, live |-> TRUE]
        /\ \A q \in Runs : q # r => lease'[q] = lease[q]
        /\ grants' = Append(grants, [run |-> r, holder |-> w])
    BY <1>2, BeginEffect
  <2>2. /\ Len(grants') = n /\ grants'[n] = [run |-> r, holder |-> w]
        /\ \A i \in 1..Len(grants) : grants'[i] = grants[i]
    BY <1>0, <2>1
  <2>3. ASSUME NEW q \in Runs
        PROVE  /\ lease'[q].id \in 0..Len(grants')
               /\ lease'[q].id # 0 => grants'[lease'[q].id].run = q
               /\ lease'[q].live => lease'[q].id # 0
    <3>1. CASE q = r
      BY <3>1, <2>1, <2>2, <1>0
    <3>2. CASE q # r
      BY <3>2, <2>1, <2>2, <1>0 DEF LeaseRowsMatchGrants
    <3>3. QED
      BY <3>1, <3>2
  <2>4. QED
    BY <2>3 DEF LeaseRowsMatchGrants
<1>3. ASSUME NEW id \in 1..Len(grants), ReleaseRunLease(id) PROVE LeaseRowsMatchGrants'
  BY <1>0, <1>1, <1>3, GrantOf DEF ReleaseRunLease
<1>4. ASSUME NEW r \in Runs, LeaseLapses(r) PROVE LeaseRowsMatchGrants'
  BY <1>0, <1>4 DEF LeaseLapses, LeaseRowsMatchGrants, Lease
<1>5. ASSUME NEW id \in 1..Len(grants), NEW o \in Outcome, FinishRun(id, o)
      PROVE LeaseRowsMatchGrants'
  <2>1. LeaseAfterFinish(id) \in {lease[grants[id].run], NoLease}
    BY DEF LeaseAfterFinish
  <2>2. QED
    BY <1>1, <1>5, <2>1, GrantOf, FinishEffect
<1>6. ASSUME UNCHANGED <<lease, grants>> PROVE LeaseRowsMatchGrants'
  BY <1>6, <1>1
<1>7. QED
  BY <1>2, <1>3, <1>4, <1>5, <1>6, StepCases
  DEF AllocateBuildSession, AppendConversationTurn, SuspendForQuestion, AnswerRunQuestion,
      TakeRunAnswer, ParkRunSuspension, storeRows

\* An ended run stays free of live leases.
LEMMA StepNoLiveLease == IInv /\ [Next]_vars => NoLiveLeaseOnEndedRun'
<1> SUFFICES ASSUME IInv, [Next]_vars PROVE NoLiveLeaseOnEndedRun'
  OBVIOUS
<1> USE DEF IInv
<1>0. lease \in [Runs -> Lease] /\ status \in [Runs -> RunStatus]
  BY DEF TypeOK
<1>1. ASSUME \A q \in Runs : /\ status'[q] \in Terminal => status'[q] = status[q]
                             /\ lease'[q].live => lease[q].live
      PROVE NoLiveLeaseOnEndedRun'
  BY <1>1 DEF NoLiveLeaseOnEndedRun
<1>2. ASSUME NEW r \in Runs, NEW w \in Workers, BeginRun(r, w) PROVE NoLiveLeaseOnEndedRun'
  <2>1. status'[r] \notin Terminal
    BY <1>2, BeginEffect DEF Active, Terminal
  <2>2. \A q \in Runs : q # r => status'[q] = status[q] /\ lease'[q] = lease[q]
    BY <1>2, BeginEffect
  <2>3. QED
    BY <2>1, <2>2 DEF NoLiveLeaseOnEndedRun
<1>3. ASSUME NEW id \in 1..Len(grants), ReleaseRunLease(id) PROVE NoLiveLeaseOnEndedRun'
  <2>1. UNCHANGED status /\ \A q \in Runs : lease'[q] \in {lease[q], NoLease}
    BY <1>0, <1>3, GrantOf DEF ReleaseRunLease
  <2>2. QED
    BY <1>1, <2>1 DEF NoLease
<1>4. ASSUME NEW r \in Runs, LeaseLapses(r) PROVE NoLiveLeaseOnEndedRun'
  BY <1>0, <1>1, <1>4 DEF LeaseLapses, Lease
<1>5. ASSUME NEW id \in 1..Len(grants), NEW o \in Outcome, FinishRun(id, o)
      PROVE NoLiveLeaseOnEndedRun'
  <2> DEFINE r == grants[id].run
  <2>1. r \in Runs
    BY GrantOf
  <2>2. LeaseAfterFinish(id).live => lease[r].live
    BY DEF LeaseAfterFinish, NoLease
  <2>3. EndsRun(id) => ~LeaseAfterFinish(id).live
    BY DEF EndsRun
  <2>4. \A q \in Runs : q # r => status'[q] = status[q] /\ lease'[q] = lease[q]
    BY <1>5, <2>1, FinishEffect
  <2>5. /\ lease'[r] = LeaseAfterFinish(id)
        /\ status'[r] = status[r] \/ EndsRun(id)
    BY <1>5, <2>1, FinishEffect
  <2>6. QED
    BY <2>1, <2>2, <2>3, <2>4, <2>5 DEF NoLiveLeaseOnEndedRun
<1>6. ASSUME UNCHANGED lease, \A q \in Runs : status'[q] \in Terminal => status'[q] = status[q]
      PROVE NoLiveLeaseOnEndedRun'
  BY <1>6, <1>1
<1>7. ASSUME NEW r \in Runs, AllocateBuildSession(r) \/ AppendConversationTurn(r)
      PROVE NoLiveLeaseOnEndedRun'
  BY <1>0, <1>6, <1>7 DEF AllocateBuildSession, AppendConversationTurn, Terminal
<1>8. ASSUME NEW r \in Runs, NEW c \in Calls, SuspendForQuestion(r, c) \/ TakeRunAnswer(r, c)
      PROVE NoLiveLeaseOnEndedRun'
  BY <1>0, <1>6, <1>8 DEF SuspendForQuestion, TakeRunAnswer, Terminal
<1>9. ASSUME UNCHANGED <<lease, status>> PROVE NoLiveLeaseOnEndedRun'
  BY <1>9, <1>6
<1>10. QED
  BY <1>2, <1>3, <1>4, <1>5, <1>7, <1>8, <1>9, StepCases
  DEF AnswerRunQuestion, ParkRunSuspension, storeRows

\* A project keeps at most one active run.
LEMMA StepOneActive == IInv /\ [Next]_vars => OneActivePerProject'
<1> SUFFICES ASSUME IInv, [Next]_vars PROVE OneActivePerProject'
  OBVIOUS
<1> USE DEF IInv
<1>0. status \in [Runs -> RunStatus]
  BY DEF TypeOK
<1>1. ASSUME \A q \in Runs : status'[q] \in Active => status[q] \in Active
      PROVE OneActivePerProject'
  BY <1>1 DEF OneActivePerProject, ProjectOfRun
<1>2. ASSUME NEW r \in Runs, NEW w \in Workers, BeginRun(r, w) PROVE OneActivePerProject'
  <2>1. \A q \in Runs \ {r} : ProjectOfRun(q) = ProjectOfRun(r) => status[q] \notin Active
    BY <1>2, BeginEffect DEF Claimable, Competing
  <2>2. \A q \in Runs : q # r => status'[q] = status[q]
    BY <1>2, BeginEffect
  <2>3. QED
    BY <2>1, <2>2 DEF OneActivePerProject, ProjectOfRun
<1>3. ASSUME NEW id \in 1..Len(grants), NEW o \in Outcome, FinishRun(id, o)
      PROVE OneActivePerProject'
  <2> DEFINE r == grants[id].run
  <2>1. r \in Runs
    BY GrantOf
  <2>2. /\ \A q \in Runs : q # r => status'[q] = status[q]
        /\ status'[r] = status[r] \/ status'[r] = FinishedStatus[o]
    BY <1>3, <2>1, FinishEffect
  <2>3. FinishedStatus[o] \notin Active
    BY DEF FinishedStatus, Outcome, Active
  <2>4. QED
    BY <1>1, <2>1, <2>2, <2>3
<1>4. ASSUME NEW r \in Runs, AllocateBuildSession(r) \/ AppendConversationTurn(r)
      PROVE OneActivePerProject'
  BY <1>0, <1>1, <1>4 DEF AllocateBuildSession, AppendConversationTurn, Active
<1>5. ASSUME NEW r \in Runs, NEW c \in Calls, SuspendForQuestion(r, c) \/ TakeRunAnswer(r, c)
      PROVE OneActivePerProject'
  BY <1>0, <1>1, <1>5 DEF SuspendForQuestion, MaySuspend, TakeRunAnswer, AnswerTakeable, Active
<1>6. ASSUME UNCHANGED status PROVE OneActivePerProject'
  BY <1>6, <1>1
<1>7. QED
  BY <1>2, <1>3, <1>4, <1>5, <1>6, StepCases
  DEF ReleaseRunLease, LeaseLapses, AnswerRunQuestion, ParkRunSuspension, storeRows

\* Question, answer and parked mark keep fitting the status.
LEMMA StepQuestion == IInv /\ [Next]_vars => QuestionShape'
<1> SUFFICES ASSUME IInv, [Next]_vars PROVE QuestionShape'
  OBVIOUS
<1> USE NoneIsNoValue DEF IInv
<1>0. /\ status \in [Runs -> RunStatus]
      /\ question \in [Runs -> Calls \cup {None}]
      /\ answer \in [Runs -> Answers \cup {None}]
      /\ parked \in [Runs -> BOOLEAN]
  BY DEF TypeOK
<1>1. ASSUME UNCHANGED <<question, answer, parked>>,
             \A q \in Runs : \/ status'[q] = status[q]
                             \/ status'[q] \in Terminal
                             \/ /\ status[q] \in {"absent", "queued", "running"}
                                /\ status'[q] \in {"queued", "running"}
      PROVE QuestionShape'
  BY <1>1 DEF QuestionShape, Terminal
<1>2. ASSUME NEW r \in Runs, NEW w \in Workers, BeginRun(r, w) PROVE QuestionShape'
  <2>1. /\ UNCHANGED <<question, answer, parked>>
        /\ \A q \in Runs : q # r => status'[q] = status[q]
        /\ status[r] = "awaiting_approval" => status'[r] = "awaiting_approval"
        /\ status[r] # "awaiting_approval" => status'[r] = "running"
        /\ Unfinished(r)
    BY <1>2, BeginEffect DEF Claimable
  <2>2. status[r] \in {"queued", "running", "awaiting_approval"}
    BY <1>0, <2>1 DEF Unfinished, RunStatus, Active
  <2>3. QED
    BY <1>1, <2>1, <2>2
<1>3. ASSUME NEW id \in 1..Len(grants), NEW o \in Outcome, FinishRun(id, o) PROVE QuestionShape'
  <2> DEFINE r == grants[id].run
  <2>1. r \in Runs
    BY GrantOf
  <2>2. /\ UNCHANGED <<question, answer, parked>>
        /\ \A q \in Runs : q # r => status'[q] = status[q]
        /\ status'[r] = status[r] \/ status'[r] = FinishedStatus[o]
    BY <1>3, <2>1, FinishEffect
  <2>3. FinishedStatus[o] \in Terminal
    BY DEF FinishedStatus, Outcome, Terminal
  <2>4. QED
    BY <1>1, <2>1, <2>2, <2>3
<1>4. ASSUME NEW r \in Runs, AllocateBuildSession(r) \/ AppendConversationTurn(r)
      PROVE QuestionShape'
  BY <1>0, <1>1, <1>4 DEF AllocateBuildSession, AppendConversationTurn
<1>5. ASSUME NEW r \in Runs, NEW c \in Calls, SuspendForQuestion(r, c) PROVE QuestionShape'
  BY <1>0, <1>5 DEF SuspendForQuestion, MaySuspend, QuestionShape
<1>6. ASSUME NEW r \in Runs, NEW c \in Calls, TakeRunAnswer(r, c) PROVE QuestionShape'
  BY <1>0, <1>6 DEF TakeRunAnswer, AnswerTakeable, ParkedAfterTake, QuestionShape
<1>7. ASSUME NEW r \in Runs, NEW c \in Calls, NEW a \in Answers, AnswerRunQuestion(r, c, a)
      PROVE QuestionShape'
  BY <1>0, <1>7 DEF AnswerRunQuestion, AcceptsAnswer, QuestionShape
<1>8. ASSUME NEW r \in Runs, ParkRunSuspension(r) PROVE QuestionShape'
  BY <1>0, <1>8 DEF ParkRunSuspension, QuestionShape
<1>9. ASSUME UNCHANGED <<status, question, answer, parked>> PROVE QuestionShape'
  BY <1>9, <1>1
<1>10. QED
  BY <1>2, <1>3, <1>4, <1>5, <1>6, <1>7, <1>8, <1>9, StepCases
  DEF ReleaseRunLease, LeaseLapses, storeRows

\* Session rows keep naming an existing run of their session.
LEMMA StepSessionRows == IInv /\ [Next]_vars => SessionRowsMatchRuns'
<1> SUFFICES ASSUME IInv, [Next]_vars PROVE SessionRowsMatchRuns'
  OBVIOUS
<1> USE SessionOfType DEF IInv
<1>0. /\ status \in [Runs -> RunStatus]
      /\ session \in [Sessions -> [run: Runs \cup {None}, status: SessionStatus]]
  BY DEF TypeOK
<1>1. ASSUME \A t \in Sessions : session'[t].run = session[t].run,
             \A q \in Runs : status[q] # "absent" => status'[q] # "absent"
      PROVE SessionRowsMatchRuns'
  BY <1>0, <1>1 DEF SessionRowsMatchRuns
<1>2. ASSUME NEW r \in Runs, AllocateBuildSession(r) \/ AppendConversationTurn(r)
      PROVE SessionRowsMatchRuns'
  <2>1. /\ status' = [status EXCEPT ![r] = "queued"]
        /\ \A t \in Sessions : session'[t].run = IF t = SessionOf[r] THEN r ELSE session[t].run
    BY <1>0, <1>2 DEF AllocateBuildSession, AppendConversationTurn
  <2>2. QED
    BY <1>0, <2>1 DEF SessionRowsMatchRuns
<1>3. ASSUME NEW r \in Runs, NEW w \in Workers, BeginRun(r, w) PROVE SessionRowsMatchRuns'
  <2>1. /\ \A t \in Sessions : session'[t].run = session[t].run
        /\ \A q \in Runs : q # r => status'[q] = status[q]
        /\ status'[r] \in Active
    BY <1>3, BeginEffect
  <2>2. QED
    BY <1>1, <2>1 DEF Active
<1>4. ASSUME NEW id \in 1..Len(grants), NEW o \in Outcome, FinishRun(id, o)
      PROVE SessionRowsMatchRuns'
  <2> DEFINE r == grants[id].run
  <2>1. r \in Runs
    BY GrantOf
  <2>2. /\ \A t \in Sessions : session'[t].run = session[t].run
        /\ \A q \in Runs : q # r => status'[q] = status[q]
        /\ status'[r] = status[r] \/ status'[r] = FinishedStatus[o]
    BY <1>4, <2>1, FinishEffect
  <2>3. FinishedStatus[o] # "absent"
    BY DEF FinishedStatus, Outcome
  <2>4. QED
    BY <1>1, <2>1, <2>2, <2>3
<1>5. ASSUME NEW r \in Runs, NEW c \in Calls, SuspendForQuestion(r, c) \/ TakeRunAnswer(r, c)
      PROVE SessionRowsMatchRuns'
  BY <1>0, <1>1, <1>5 DEF SuspendForQuestion, TakeRunAnswer
<1>6. ASSUME UNCHANGED <<status, session>> PROVE SessionRowsMatchRuns'
  BY <1>6, <1>1
<1>7. QED
  BY <1>2, <1>3, <1>4, <1>5, <1>6, StepCases
  DEF ReleaseRunLease, LeaseLapses, AnswerRunQuestion, ParkRunSuspension, storeRows

\* Unfinished runs stay the latest of their session.
LEMMA StepLatestTurn == IInv /\ [Next]_vars => OnlyLatestTurnPending'
<1> SUFFICES ASSUME IInv, [Next]_vars PROVE OnlyLatestTurnPending'
  OBVIOUS
<1> USE SessionOfType, NoneIsNoValue DEF IInv
<1>0. /\ status \in [Runs -> RunStatus]
      /\ session \in [Sessions -> [run: Runs \cup {None}, status: SessionStatus]]
  BY DEF TypeOK
<1>1. ASSUME \A t \in Sessions : session'[t].run = session[t].run,
             \A q \in Runs : Unfinished(q)' => Unfinished(q)
      PROVE OnlyLatestTurnPending'
  BY <1>1 DEF OnlyLatestTurnPending
<1>2. ASSUME NEW r \in Runs, AllocateBuildSession(r) \/ AppendConversationTurn(r)
      PROVE OnlyLatestTurnPending'
  <2>1. /\ \A q \in Runs : status'[q] = IF q = r THEN "queued" ELSE status[q]
        /\ \A t \in Sessions : session'[t].run = IF t = SessionOf[r] THEN r ELSE session[t].run
    BY <1>0, <1>2 DEF AllocateBuildSession, AppendConversationTurn
  <2>2. \A q \in Runs : SessionOf[q] = SessionOf[r] => ~Unfinished(q)
    <3>1. CASE AllocateBuildSession(r)
      BY <3>1 DEF AllocateBuildSession, OnlyLatestTurnPending
    <3>2. CASE AppendConversationTurn(r)
      BY <3>2, <1>0 DEF AppendConversationTurn, SessionBusy, Unfinished, RunStatus
    <3>3. QED
      BY <1>2, <3>1, <3>2
  <2>3. QED
    BY <2>1, <2>2 DEF OnlyLatestTurnPending, Unfinished
<1>3. ASSUME NEW r \in Runs, NEW w \in Workers, BeginRun(r, w) PROVE OnlyLatestTurnPending'
  <2>1. /\ \A t \in Sessions : session'[t].run = session[t].run
        /\ \A q \in Runs : q # r => status'[q] = status[q]
        /\ Unfinished(r)
    BY <1>3, BeginEffect DEF Claimable
  <2>2. QED
    BY <1>1, <2>1 DEF Unfinished
<1>4. ASSUME NEW id \in 1..Len(grants), NEW o \in Outcome, FinishRun(id, o)
      PROVE OnlyLatestTurnPending'
  <2> DEFINE r == grants[id].run
  <2>1. r \in Runs
    BY GrantOf
  <2>2. /\ \A t \in Sessions : session'[t].run = session[t].run
        /\ \A q \in Runs : q # r => status'[q] = status[q]
        /\ status'[r] = status[r] \/ status'[r] = FinishedStatus[o]
    BY <1>4, <2>1, FinishEffect
  <2>3. FinishedStatus[o] \in Terminal
    BY DEF FinishedStatus, Outcome, Terminal
  <2>4. QED
    BY <1>1, <2>1, <2>2, <2>3 DEF Unfinished
<1>5. ASSUME NEW r \in Runs, NEW c \in Calls, SuspendForQuestion(r, c) \/ TakeRunAnswer(r, c)
      PROVE OnlyLatestTurnPending'
  <2>1. status[r] \in Active /\ UNCHANGED session /\ \A q \in Runs : q # r => status'[q] = status[q]
    BY <1>0, <1>5 DEF SuspendForQuestion, MaySuspend, TakeRunAnswer, AnswerTakeable, Active
  <2>2. QED
    BY <1>1, <2>1 DEF Unfinished, Active, Terminal
<1>6. ASSUME UNCHANGED <<status, session>> PROVE OnlyLatestTurnPending'
  BY <1>6, <1>1 DEF Unfinished
<1>7. QED
  BY <1>2, <1>3, <1>4, <1>5, <1>6, StepCases
  DEF ReleaseRunLease, LeaseLapses, AnswerRunQuestion, ParkRunSuspension, storeRows

\* What SessionTellsLatestRun says of one row.
RowTells(t) ==
    LET row == session[t] IN
    row.run # None =>
        /\ row.status = "provisioning" => status[row.run] = "queued"
        /\ row.status = "running" => status[row.run] \in Active
        /\ row.status = "ready" => status[row.run] \in {"queued", "completed"}
        /\ row.status = "blocked" => status[row.run] \in {"failed", "cancelled"}

\* Session rows keep telling the state of their latest run.
LEMMA StepSessionTells == IInv /\ [Next]_vars => SessionTellsLatestRun'
<1> SUFFICES ASSUME IInv, [Next]_vars PROVE SessionTellsLatestRun'
  OBVIOUS
<1> USE SessionOfType, NoneIsNoValue DEF IInv
<1>0. /\ status \in [Runs -> RunStatus]
      /\ session \in [Sessions -> [run: Runs \cup {None}, status: SessionStatus]]
      /\ \A t \in Sessions : session[t].run \in Runs \cup {None}
  BY DEF TypeOK
<1>1. /\ SessionTellsLatestRun <=> \A t \in Sessions : RowTells(t)
      /\ SessionTellsLatestRun' <=> \A t \in Sessions : RowTells(t)'
  BY DEF SessionTellsLatestRun, RowTells
\* A row of another session than the changed run's.
<1>2. ASSUME NEW r \in Runs, \A q \in Runs : q # r => status'[q] = status[q],
             NEW t \in Sessions, t # SessionOf[r],
             session'[t].run = session[t].run, session'[t].status = session[t].status
      PROVE RowTells(t)'
  <2>1. session[t].run # r
    BY <1>2 DEF SessionRowsMatchRuns
  <2>2. RowTells(t)
    BY <1>1
  <2>3. QED
    BY <1>0, <1>2, <2>1, <2>2 DEF RowTells
<1>3. ASSUME NEW r \in Runs, AllocateBuildSession(r) \/ AppendConversationTurn(r)
      PROVE SessionTellsLatestRun'
  <2>1. /\ \A q \in Runs : q # r => status'[q] = status[q]
        /\ status'[r] = "queued"
        /\ \A t \in Sessions : t # SessionOf[r] => session'[t] = session[t]
        /\ session'[SessionOf[r]].run = r
        /\ session'[SessionOf[r]].status \in {"provisioning", "ready"}
    BY <1>0, <1>3 DEF AllocateBuildSession, AppendConversationTurn
  <2>2. RowTells(SessionOf[r])'
    BY <2>1 DEF RowTells
  <2>3. QED
    BY <1>1, <1>2, <2>1, <2>2
<1>4. ASSUME NEW r \in Runs, NEW w \in Workers, BeginRun(r, w) PROVE SessionTellsLatestRun'
  <2>1. /\ \A q \in Runs : q # r => status'[q] = status[q]
        /\ status'[r] \in Active
        /\ \A t \in Sessions : /\ session'[t].run = session[t].run
                               /\ t # SessionOf[r] => session'[t].status = session[t].status
        /\ session'[SessionOf[r]].status = "running"
        /\ Unfinished(r)
    BY <1>4, BeginEffect DEF Claimable
  <2>2. session'[SessionOf[r]].run = r
    BY <2>1 DEF OnlyLatestTurnPending
  <2>3. RowTells(SessionOf[r])'
    BY <2>1, <2>2 DEF RowTells
  <2>4. QED
    BY <1>1, <1>2, <2>1, <2>3
<1>5. ASSUME NEW id \in 1..Len(grants), NEW o \in Outcome, FinishRun(id, o)
      PROVE SessionTellsLatestRun'
  <2> PICK r \in Runs : r = grants[id].run
    BY GrantOf
  <2> PICK s \in Sessions : s = SessionOf[r]
    OBVIOUS
  <2> DEFINE st == IF o = "succeeded" THEN "ready" ELSE "blocked"
  <2>1. r \in Runs /\ s \in Sessions /\ r = grants[id].run /\ s = SessionOf[r]
    OBVIOUS
  <2>2. \A q \in Runs : q # r => status'[q] = status[q]
    BY <1>5, <2>1, FinishEffect
  <2>3. \/ status'[r] = status[r] /\ endedBy'[r] = endedBy[r]
        \/ EndsRun(id) /\ status'[r] = FinishedStatus[o] /\ endedBy'[r] = id
    BY <1>5, <2>1, FinishEffect
  <2>4. \A t \in Sessions :
          /\ session'[t].run = session[t].run
          /\ \/ session'[t].status = session[t].status
             \/ /\ t = s /\ session[t].run = r
                /\ status'[r] = FinishedStatus[o]
                /\ session'[t].status = st
          /\ t = s /\ session[t].run = r /\ status'[r] # status[r] => session'[t].status = st
    BY <1>5, <2>1, FinishEffect
  <2>5. CASE session'[s].status = session[s].status /\ status'[r] = status[r]
    <3>1. \A q \in Runs : status'[q] = status[q]
      BY <2>2, <2>5
    <3>2. \A t \in Sessions : session'[t].status = session[t].status
      BY <2>4, <2>5
    <3>3. QED
      BY <1>0, <1>1, <2>4, <3>1, <3>2 DEF RowTells
  <2>6. CASE ~(session'[s].status = session[s].status /\ status'[r] = status[r])
    <3>1. session[s].run = r
      <4>1. CASE status'[r] # status[r]
        BY <2>1, <2>3, <4>1 DEF EndsRun, OnlyLatestTurnPending
      <4>2. CASE status'[r] = status[r]
        BY <2>1, <2>4, <2>6, <4>2
      <4>3. QED
        BY <4>1, <4>2
    <3>2. session'[s].status = st /\ status'[r] = FinishedStatus[o] /\ session'[s].run = r
      BY <2>1, <2>3, <2>4, <2>6, <3>1
    <3>3. RowTells(s)'
      BY <3>2 DEF RowTells, FinishedStatus, Outcome
    <3>4. \A t \in Sessions : t # s => RowTells(t)'
      BY <1>2, <2>1, <2>2, <2>4
    <3>5. QED
      BY <1>1, <3>3, <3>4
  <2>7. QED
    BY <2>5, <2>6
<1>6. ASSUME NEW r \in Runs, NEW c \in Calls, SuspendForQuestion(r, c) \/ TakeRunAnswer(r, c)
      PROVE SessionTellsLatestRun'
  <2>1. /\ \A q \in Runs : q # r => status'[q] = status[q]
        /\ status[r] \in Active /\ status'[r] \in Active
        /\ UNCHANGED session
    BY <1>0, <1>6 DEF SuspendForQuestion, MaySuspend, TakeRunAnswer, AnswerTakeable, Active
  <2>2. \A t \in Sessions : RowTells(t)
    BY <1>1
  <2>3. QED
    BY <1>0, <1>1, <2>1, <2>2 DEF RowTells, Active
<1>7. ASSUME UNCHANGED <<status, session>> PROVE SessionTellsLatestRun'
  BY <1>1, <1>7 DEF RowTells
<1>8. QED
  BY <1>3, <1>4, <1>5, <1>6, <1>7, StepCases
  DEF ReleaseRunLease, LeaseLapses, AnswerRunQuestion, ParkRunSuspension, storeRows

-----------------------------------------------------------------------------
(* The theorems *)

\* The inductive invariant holds in every reachable state.
THEOREM Invariance == Spec => []IInv
<1>1. IInv /\ [Next]_vars => IInv'
  BY StepType, StepLeaseRows, StepSessionRows, StepLatestTurn, StepOneActive, StepNoLiveLease,
     StepQuestion, StepSessionTells DEF IInv
<1>2. QED
  BY InitIInv, <1>1, PTL DEF Spec

\* Every row keeps its type.
THEOREM TypeCorrect == Spec => []TypeOK
<1>1. IInv => TypeOK
  BY DEF IInv
<1>2. QED
  BY Invariance, <1>1, PTL

\* Whoever claims, resumes, suspends or ends runs, and however late, a project
\* never has two active runs.
THEOREM ProjectExclusion == Spec => []OneActivePerProject
<1>1. IInv => OneActivePerProject
  BY DEF IInv
<1>2. QED
  BY Invariance, <1>1, PTL

\* Questions, answers and parked marks fit the status of their run.
THEOREM QuestionsFit == Spec => []QuestionShape
<1>1. IInv => QuestionShape
  BY DEF IInv
<1>2. QED
  BY Invariance, <1>1, PTL

\* The session row tells the state of its latest run, whatever a late finish of
\* an earlier turn does.
THEOREM SessionRowTruth == Spec => []SessionTellsLatestRun
<1>1. IInv => SessionTellsLatestRun
  BY DEF IInv
<1>2. QED
  BY Invariance, <1>1, PTL

\* Only the latest turn of a session can be unfinished.
THEOREM LatestTurn == Spec => []OnlyLatestTurnPending
<1>1. IInv => OnlyLatestTurnPending
  BY DEF IInv
<1>2. QED
  BY Invariance, <1>1, PTL

\* The first terminal status stands, and only the lease that covered the run
\* last may have ended it.
THEOREM FirstEnd == Spec => FirstEndStands
<1> DEFINE Stands(r) ==
      /\ status[r] \in Terminal => status'[r] = status[r]
      /\ status[r] \notin Terminal /\ status'[r] \in Terminal /\ lease[r].live
            => endedBy'[r] = lease[r].id
<1>1. ASSUME IInv, [Next]_vars, NEW r \in Runs PROVE Stands(r)
  <2> USE <1>1 DEF IInv
  <2>0. status \in [Runs -> RunStatus] /\ lease \in [Runs -> Lease]
    BY DEF TypeOK
  <2>1. ASSUME status'[r] = status[r] \/ (status[r] \notin Terminal /\ status'[r] \notin Terminal)
        PROVE Stands(r)
    BY <2>1
  <2>2. ASSUME NEW q \in Runs, AllocateBuildSession(q) \/ AppendConversationTurn(q)
        PROVE Stands(r)
    BY <2>0, <2>1, <2>2 DEF AllocateBuildSession, AppendConversationTurn, Terminal
  <2>3. ASSUME NEW q \in Runs, NEW w \in Workers, BeginRun(q, w) PROVE Stands(r)
    <3>1. /\ \A p \in Runs : p # q => status'[p] = status[p]
          /\ Unfinished(q) /\ status'[q] \in Active
      BY <2>3, BeginEffect DEF Claimable
    <3>2. QED
      BY <2>1, <3>1 DEF Unfinished, Active, Terminal
  <2>4. ASSUME NEW id \in 1..Len(grants), NEW o \in Outcome, FinishRun(id, o) PROVE Stands(r)
    <3> PICK q \in Runs : q = grants[id].run
      BY GrantOf
    <3>1. \A p \in Runs : p # q => status'[p] = status[p]
      BY <2>4, FinishEffect
    <3>2. \/ status'[q] = status[q] /\ endedBy'[q] = endedBy[q]
          \/ EndsRun(id) /\ status'[q] = FinishedStatus[o] /\ endedBy'[q] = id
      BY <2>4, FinishEffect
    <3>3. EndsRun(id) => /\ status[q] \notin Terminal
                         /\ lease[q].live => lease[q].id = id
      BY DEF EndsRun, Unfinished, LeaseAfterFinish
    <3>4. QED
      BY <2>1, <3>1, <3>2, <3>3
  <2>5. ASSUME NEW q \in Runs, NEW c \in Calls, SuspendForQuestion(q, c) \/ TakeRunAnswer(q, c)
        PROVE Stands(r)
    BY <2>0, <2>1, <2>5 DEF SuspendForQuestion, MaySuspend, TakeRunAnswer, AnswerTakeable, Terminal
  <2>6. ASSUME UNCHANGED status PROVE Stands(r)
    BY <2>1, <2>6
  <2>7. QED
    BY <2>2, <2>3, <2>4, <2>5, <2>6, StepCases
    DEF ReleaseRunLease, LeaseLapses, AnswerRunQuestion, ParkRunSuspension, storeRows
<1>2. IInv /\ [Next]_vars => [\A r \in Runs : Stands(r)]_vars
  BY <1>1
<1>3. QED
  BY Invariance, <1>2, PTL DEF Spec, FirstEndStands

\* No claim takes over a live lease: it goes only by its holder's own call or
\* by lapsing first.
THEOREM LeaseExclusion == Spec => LiveLeaseNotTaken
<1> DEFINE Kept(r) == lease[r].live => lease'[r].id \in {lease[r].id, 0}
<1>1. ASSUME IInv, [Next]_vars, NEW r \in Runs PROVE Kept(r)
  <2> USE <1>1 DEF IInv
  <2>0. lease \in [Runs -> Lease]
    BY DEF TypeOK
  <2>1. ASSUME NEW q \in Runs, NEW w \in Workers, BeginRun(q, w) PROVE Kept(r)
    <3>1. /\ \A p \in Runs : p # q => lease'[p] = lease[p]
          /\ ~lease[q].live
      BY <2>1, BeginEffect DEF Claimable
    <3>2. QED
      BY <3>1
  <2>2. ASSUME NEW id \in 1..Len(grants), ReleaseRunLease(id) PROVE Kept(r)
    BY <2>0, <2>2 DEF ReleaseRunLease, NoLease
  <2>3. ASSUME NEW id \in 1..Len(grants), NEW o \in Outcome, FinishRun(id, o) PROVE Kept(r)
    <3> PICK q \in Runs : q = grants[id].run
      BY GrantOf
    <3>1. /\ \A p \in Runs : p # q => lease'[p] = lease[p]
          /\ lease'[q] = LeaseAfterFinish(id)
      BY <2>3, FinishEffect
    <3>2. QED
      BY <3>1 DEF LeaseAfterFinish, NoLease
  <2>4. ASSUME NEW q \in Runs, LeaseLapses(q) PROVE Kept(r)
    BY <2>0, <2>4 DEF LeaseLapses, Lease
  <2>5. ASSUME UNCHANGED lease PROVE Kept(r)
    BY <2>5
  <2>6. QED
    BY <2>1, <2>2, <2>3, <2>4, <2>5, StepCases
    DEF AllocateBuildSession, AppendConversationTurn, SuspendForQuestion, AnswerRunQuestion,
        TakeRunAnswer, ParkRunSuspension, storeRows
<1>2. IInv /\ [Next]_vars => [\A r \in Runs : Kept(r)]_vars
  BY <1>1
<1>3. QED
  BY Invariance, <1>2, PTL DEF Spec, LiveLeaseNotTaken

\* An accepted answer is consumed by the resume or kept: no second submission
\* and no late suspension of the same run replaces it.
THEOREM AnswerKept == Spec => AcceptedAnswerStands
<1> DEFINE Stands(r) == answer[r] # None /\ answer'[r] # answer[r] =>
                           answer'[r] = None /\ status'[r] = "running"
<1>1. ASSUME IInv, [Next]_vars, NEW r \in Runs PROVE Stands(r)
  <2> USE <1>1 DEF IInv
  <2>0. status \in [Runs -> RunStatus] /\ answer \in [Runs -> Answers \cup {None}]
    BY DEF TypeOK
  <2>1. ASSUME UNCHANGED answer PROVE Stands(r)
    BY <2>1
  <2>2. ASSUME NEW q \in Runs, NEW w \in Workers, BeginRun(q, w) PROVE Stands(r)
    BY <2>1, <2>2, BeginEffect
  <2>3. ASSUME NEW id \in 1..Len(grants), NEW o \in Outcome, FinishRun(id, o) PROVE Stands(r)
    BY <2>1, <2>3 DEF FinishRun
  <2>4. ASSUME NEW q \in Runs, NEW c \in Calls, SuspendForQuestion(q, c) PROVE Stands(r)
    <3>1. answer[q] = None
      BY <2>4 DEF SuspendForQuestion, MaySuspend, QuestionShape
    <3>2. QED
      BY <2>0, <2>4, <3>1 DEF SuspendForQuestion
  <2>5. ASSUME NEW q \in Runs, NEW c \in Calls, NEW a \in Answers, AnswerRunQuestion(q, c, a)
        PROVE Stands(r)
    BY <2>0, <2>5 DEF AnswerRunQuestion, AcceptsAnswer
  <2>6. ASSUME NEW q \in Runs, NEW c \in Calls, TakeRunAnswer(q, c) PROVE Stands(r)
    BY <2>0, <2>6 DEF TakeRunAnswer, AnswerTakeable
  <2>7. QED
    BY <2>1, <2>2, <2>3, <2>4, <2>5, <2>6, StepCases
    DEF AllocateBuildSession, AppendConversationTurn, ReleaseRunLease, LeaseLapses,
        ParkRunSuspension, storeRows
<1>2. IInv /\ [Next]_vars => [\A r \in Runs : Stands(r)]_vars
  BY <1>1
<1>3. QED
  BY Invariance, <1>2, PTL DEF Spec, AcceptedAnswerStands

(***************************************************************************)
(* RunStore implements RunLifecycle, for every value of the constants.     *)
(***************************************************************************)

\* Only beginRun issues a lease, and it starts the run it claims; nothing takes a
\* run back to its queue.
LEMMA StepGranted == IInv /\ GrantedRunsStarted /\ [Next]_vars => GrantedRunsStarted'
<1> SUFFICES ASSUME IInv, GrantedRunsStarted, [Next]_vars PROVE GrantedRunsStarted'
  OBVIOUS
<1> DEFINE Waiting == {"absent", "queued"}
<1>0. /\ status \in [Runs -> RunStatus]
      /\ grants \in Seq(Grant) /\ Len(grants) \in Nat
      /\ \A id \in 1..Len(grants) : grants[id].run \in Runs /\ status[grants[id].run] \notin Waiting
  BY GrantOf DEF IInv, TypeOK, GrantedRunsStarted
<1>1. ASSUME UNCHANGED grants, \A q \in Runs : status[q] \notin Waiting => status'[q] \notin Waiting
      PROVE GrantedRunsStarted'
  BY <1>0, <1>1 DEF GrantedRunsStarted
<1>2. ASSUME NEW r \in Runs, NEW w \in Workers, BeginRun(r, w) PROVE GrantedRunsStarted'
  <2>1. /\ grants' = Append(grants, [run |-> r, holder |-> w])
        /\ status'[r] \in Active
        /\ \A q \in Runs : q # r => status'[q] = status[q]
    BY <1>2, BeginEffect DEF IInv
  <2>2. /\ Len(grants') = Len(grants) + 1
        /\ grants'[Len(grants) + 1] = [run |-> r, holder |-> w]
        /\ \A id \in 1..Len(grants) : grants'[id] = grants[id]
    BY <1>0, <2>1
  <2>3. status'[r] \notin Waiting
    BY <2>1 DEF Active
  <2>4. ASSUME NEW id \in 1..Len(grants') PROVE status'[grants'[id].run] \notin Waiting
    <3>1. CASE id = Len(grants) + 1
      BY <2>2, <2>3, <3>1
    <3>2. CASE id # Len(grants) + 1
      <4>1. id \in 1..Len(grants)
        BY <1>0, <2>2, <3>2
      <4>2. QED
        BY <1>0, <2>1, <2>2, <2>3, <4>1
    <3>3. QED
      BY <3>1, <3>2
  <2>5. QED
    BY <2>4 DEF GrantedRunsStarted
<1>3. ASSUME NEW id \in 1..Len(grants), NEW o \in Outcome, FinishRun(id, o)
      PROVE GrantedRunsStarted'
  <2> PICK r \in Runs : r = grants[id].run
    BY <1>0
  <2>1. /\ \A q \in Runs : q # r => status'[q] = status[q]
        /\ status'[r] \in {status[r], FinishedStatus[o]}
        /\ UNCHANGED grants
    BY <1>3, FinishEffect DEF IInv
  <2>2. FinishedStatus[o] \notin Waiting
    BY DEF FinishedStatus, Outcome
  <2>3. QED
    BY <1>1, <2>1, <2>2
<1>4. ASSUME NEW r \in Runs, AllocateBuildSession(r) \/ AppendConversationTurn(r)
      PROVE GrantedRunsStarted'
  BY <1>0, <1>1, <1>4 DEF AllocateBuildSession, AppendConversationTurn
<1>5. ASSUME NEW r \in Runs, NEW c \in Calls, SuspendForQuestion(r, c) \/ TakeRunAnswer(r, c)
      PROVE GrantedRunsStarted'
  BY <1>0, <1>1, <1>5 DEF SuspendForQuestion, TakeRunAnswer
<1>6. ASSUME UNCHANGED <<status, grants>> PROVE GrantedRunsStarted'
  BY <1>1, <1>6
<1>7. QED
  BY <1>2, <1>3, <1>4, <1>5, <1>6, StepCases
  DEF ReleaseRunLease, LeaseLapses, AnswerRunQuestion, ParkRunSuspension, storeRows

\* A run with a lease row of its own, live, has been claimed and has not ended.
LEMMA HeldRunIsActive ==
  ASSUME IInv, GrantedRunsStarted, NEW r \in Runs, lease[r].live
  PROVE  status[r] \in Active /\ lease[r].id # 0
<1>1. /\ lease[r].id \in 1..Len(grants)
      /\ grants[lease[r].id].run = r
  BY DEF IInv, TypeOK, LeaseRowsMatchGrants
<1>2. status[r] \notin Terminal \cup {"absent", "queued"}
  BY <1>1 DEF GrantedRunsStarted, IInv, NoLiveLeaseOnEndedRun
<1>3. status[r] \in RunStatus
  BY DEF IInv, TypeOK
<1>4. QED
  BY <1>1, <1>2, <1>3 DEF RunStatus

\* The mapped state before and after a step.
phaseMap == [r \in Runs |-> PhaseOf(status[r])]
holderMap == [r \in Runs |-> HolderOf(lease[r])]

\* A step that changes one run's rows changes the mapped functions at that run.
LEMMA OneRunMapped ==
  ASSUME NEW r \in Runs, \A q \in Runs : q # r => status'[q] = status[q] /\ lease'[q] = lease[q]
  PROVE  /\ phaseMap' = [phaseMap EXCEPT ![r] = PhaseOf(status'[r])]
         /\ holderMap' = [holderMap EXCEPT ![r] = HolderOf(lease'[r])]
  BY DEF phaseMap, holderMap

\* A step that changes no mapped value is a stutter of the lifecycle.
LEMMA Stutter ==
  ASSUME NEW r \in Runs,
         \A q \in Runs : q # r => status'[q] = status[q] /\ lease'[q] = lease[q],
         PhaseOf(status'[r]) = PhaseOf(status[r]), HolderOf(lease'[r]) = HolderOf(lease[r]),
         UNCHANGED grants
  PROVE  UNCHANGED Lifecycle!lifecycleVars
<1>1. phaseMap' = phaseMap /\ holderMap' = holderMap
  BY DEF phaseMap, holderMap
<1>2. QED
  BY <1>1 DEF Lifecycle!lifecycleVars, phaseMap, holderMap

\* A live lease row that goes while its run stays active is a Drop.
LEMMA Dropped ==
  ASSUME IInv, GrantedRunsStarted, NEW r \in Runs,
         \A q \in Runs : q # r => status'[q] = status[q] /\ lease'[q] = lease[q],
         status'[r] = status[r], ~lease'[r].live, UNCHANGED grants
  PROVE  Lifecycle!Drop(r) \/ UNCHANGED Lifecycle!lifecycleVars
<1>1. CASE lease[r].live
  <2>1. status[r] \in Active /\ lease[r].id # 0
    BY <1>1, HeldRunIsActive
  <2>2. phaseMap' = phaseMap
    BY DEF phaseMap
  <2>3. holderMap' = [holderMap EXCEPT ![r] = 0]
    BY OneRunMapped DEF HolderOf
  <2>4. phaseMap[r] = "active" /\ holderMap[r] # 0
    BY <1>1, <2>1 DEF phaseMap, holderMap, PhaseOf, HolderOf
  <2>5. QED
    BY <2>2, <2>3, <2>4 DEF Lifecycle!Drop, phaseMap, holderMap
<1>2. CASE ~lease[r].live
  BY <1>2, Stutter DEF HolderOf
<1>3. QED
  BY <1>1, <1>2

\* Every transaction maps to a step of the lifecycle or to a stutter.
LEMMA StepMaps ==
  IInv /\ GrantedRunsStarted /\ [Next]_vars =>
      [Lifecycle!LifecycleNext]_(Lifecycle!lifecycleVars)
<1> SUFFICES ASSUME IInv, GrantedRunsStarted, [Next]_vars
             PROVE  Lifecycle!LifecycleNext \/ UNCHANGED Lifecycle!lifecycleVars
  OBVIOUS
<1>0. /\ status \in [Runs -> RunStatus]
      /\ lease \in [Runs -> Lease]
      /\ TypeOK
  BY DEF IInv, TypeOK
<1>00. grants \in Seq(Grant)
  BY DEF IInv, TypeOK
<1>1. ASSUME NEW r \in Runs, AllocateBuildSession(r) \/ AppendConversationTurn(r)
      PROVE Lifecycle!Admit(r)
  <2>1. /\ status[r] = "absent" /\ status'[r] = "queued"
        /\ \A q \in Runs : q # r => status'[q] = status[q]
        /\ UNCHANGED <<lease, grants>>
    BY <1>0, <1>1 DEF AllocateBuildSession, AppendConversationTurn
  <2>2. phaseMap' = [phaseMap EXCEPT ![r] = "queued"] /\ phaseMap[r] = "absent"
    BY <2>1, OneRunMapped DEF phaseMap, PhaseOf, Active, Terminal
  <2>3. QED
    BY <2>1, <2>2 DEF Lifecycle!Admit, phaseMap
<1>2. ASSUME NEW r \in Runs, NEW w \in Workers, BeginRun(r, w) PROVE Lifecycle!Take(r)
  <2>1. /\ Claimable(r)
        /\ \A q \in Runs : q # r => status'[q] = status[q] /\ lease'[q] = lease[q]
        /\ status'[r] \in Active
        /\ lease'[r] = [id |-> Len(grants) + 1, live |-> TRUE]
        /\ grants' = Append(grants, [run |-> r, holder |-> w])
    BY <1>0, <1>2, BeginEffect
  <2> Len(grants') = Len(grants) + 1
    BY <1>00, <2>1
  <2>2. /\ phaseMap' = [phaseMap EXCEPT ![r] = "active"]
        /\ holderMap' = [holderMap EXCEPT ![r] = Len(grants) + 1]
    BY <2>1, OneRunMapped DEF PhaseOf, HolderOf
  <2>3. phaseMap[r] \in {"queued", "active"} /\ holderMap[r] = 0
    BY <1>0, <2>1 DEF phaseMap, holderMap, PhaseOf, HolderOf, Claimable, Unfinished, RunStatus
  <2>4. ASSUME NEW q \in Runs \ {r}, ProjectOfRun(q) = ProjectOfRun(r)
        PROVE phaseMap[q] # "active"
    <3>1. status[q] \notin Active
      BY <2>1, <2>4 DEF Claimable, Competing
    <3>2. QED
      BY <1>0, <3>1 DEF phaseMap, PhaseOf, RunStatus, Terminal
  <2>5. QED
    BY <2>1, <2>2, <2>3, <2>4 DEF Lifecycle!Take, phaseMap, holderMap
<1>3. ASSUME NEW id \in 1..Len(grants), ReleaseRunLease(id)
      PROVE \E r \in Runs : Lifecycle!Drop(r) \/ UNCHANGED Lifecycle!lifecycleVars
  <2> PICK r \in Runs : r = grants[id].run
    BY <1>0, GrantOf
  <2>1. /\ \A q \in Runs : q # r => status'[q] = status[q] /\ lease'[q] = lease[q]
        /\ status'[r] = status[r] /\ UNCHANGED grants
        /\ lease'[r] \in {lease[r], NoLease}
    BY <1>0, <1>3 DEF ReleaseRunLease
  <2>2. CASE lease'[r] = lease[r]
    BY <2>1, <2>2, Stutter
  <2>3. CASE lease'[r] = NoLease
    BY <2>1, <2>3, Dropped DEF NoLease
  <2>4. QED
    BY <2>1, <2>2, <2>3
<1>4. ASSUME NEW r \in Runs, LeaseLapses(r)
      PROVE Lifecycle!Drop(r) \/ UNCHANGED Lifecycle!lifecycleVars
  <2>1. /\ \A q \in Runs : q # r => status'[q] = status[q] /\ lease'[q] = lease[q]
        /\ status'[r] = status[r] /\ UNCHANGED grants
        /\ ~lease'[r].live
    BY <1>0, <1>4 DEF LeaseLapses, Lease
  <2>2. QED
    BY <2>1, Dropped
<1>5. ASSUME NEW id \in 1..Len(grants), NEW o \in Outcome, FinishRun(id, o)
      PROVE \E r \in Runs :
                Lifecycle!End(r) \/ Lifecycle!Drop(r) \/ UNCHANGED Lifecycle!lifecycleVars
  <2> PICK r \in Runs : r = grants[id].run
    BY <1>0, GrantOf
  <2>1. /\ \A q \in Runs : q # r => status'[q] = status[q] /\ lease'[q] = lease[q]
        /\ lease'[r] = LeaseAfterFinish(id)
        /\ \/ status'[r] = status[r]
           \/ EndsRun(id) /\ status'[r] = FinishedStatus[o]
        /\ UNCHANGED grants
    BY <1>0, <1>5, FinishEffect
  <2>2. CASE EndsRun(id) /\ status'[r] = FinishedStatus[o]
    <3>1. status[r] \in Active
      BY <1>0, <2>2 DEF EndsRun, Unfinished, GrantedRunsStarted, RunStatus
    <3>2. status'[r] \in Terminal /\ status'[r] \notin Active
      BY <2>2 DEF FinishedStatus, Outcome, Terminal, Active
    <3>3. ~lease'[r].live
      BY <2>1, <2>2 DEF EndsRun
    <3>4. /\ phaseMap' = [phaseMap EXCEPT ![r] = "ended"]
          /\ holderMap' = [holderMap EXCEPT ![r] = 0]
      BY <2>1, <3>2, <3>3, OneRunMapped DEF PhaseOf, HolderOf
    <3>5. phaseMap[r] = "active"
      BY <3>1 DEF phaseMap, PhaseOf
    <3>6. QED
      BY <2>1, <3>4, <3>5 DEF Lifecycle!End, phaseMap, holderMap
  <2>3. CASE status'[r] = status[r]
    <3>1. CASE lease'[r] = lease[r]
      BY <2>1, <2>3, <3>1, Stutter
    <3>2. CASE lease'[r] # lease[r]
      <4>1. ~lease'[r].live
        BY <2>1, <3>2 DEF LeaseAfterFinish, NoLease
      <4>2. QED
        BY <2>1, <2>3, <4>1, Dropped
    <3>3. QED
      BY <3>1, <3>2
  <2>4. QED
    BY <2>1, <2>2, <2>3
<1>6. ASSUME NEW r \in Runs, NEW c \in Calls, SuspendForQuestion(r, c) \/ TakeRunAnswer(r, c)
      PROVE UNCHANGED Lifecycle!lifecycleVars
  <2>1. /\ \A q \in Runs : q # r => status'[q] = status[q] /\ lease'[q] = lease[q]
        /\ status[r] \in Active /\ status'[r] \in Active
        /\ lease'[r] = lease[r] /\ UNCHANGED grants
    BY <1>0, <1>6 DEF SuspendForQuestion, MaySuspend, TakeRunAnswer, AnswerTakeable, Active
  <2>2. QED
    BY <2>1, Stutter DEF PhaseOf
<1>7. ASSUME UNCHANGED <<status, lease, grants>> PROVE UNCHANGED Lifecycle!lifecycleVars
  BY <1>7 DEF Lifecycle!lifecycleVars
<1>8. QED
  BY <1>1, <1>2, <1>3, <1>4, <1>5, <1>6, <1>7, StepCases
  DEF Lifecycle!LifecycleNext, AnswerRunQuestion, ParkRunSuspension, storeRows

\* The store starts with no run, no holder and no ticket.
LEMMA InitMaps == Init => Lifecycle!LifecycleInit
<1> SUFFICES ASSUME Init PROVE Lifecycle!LifecycleInit
  OBVIOUS
<1>1. /\ \A r \in Runs : PhaseOf(status[r]) = "absent" /\ HolderOf(lease[r]) = 0
      /\ Len(grants) = 0
  BY DEF Init, PhaseOf, HolderOf, NoLease, Active, Terminal
<1>2. QED
  BY <1>1 DEF Lifecycle!LifecycleInit

\* RunStore implements RunLifecycle: through every stale, repeated or late call, a
\* run is admitted, claimed, dropped and ended only as the lifecycle allows.
THEOREM Refinement == Spec => RefinesLifecycle
<1>1. Init => GrantedRunsStarted
  BY DEF Init, GrantedRunsStarted
<1>2. Spec => []GrantedRunsStarted
  BY <1>1, StepGranted, Invariance, PTL DEF Spec
<1>3. QED
  BY <1>2, InitMaps, StepMaps, Invariance, PTL DEF Spec, RefinesLifecycle, Lifecycle!LifecycleSpec
=============================================================================
