------------------------ MODULE ConversationsProofs ------------------------
(***************************************************************************)
(* Proofs about Conversations, for every set of runs, sessions, projects   *)
(* and workers and every value of the bounds: a conversation shows what is *)
(* at work in it, work that a retry or a branch discarded stays out of its *)
(* files, the other conversations keep theirs, and an attempt that was     *)
(* taken over publishes nothing.                                           *)
(***************************************************************************)
EXTENDS Conversations, RunStoreProofs, SequenceTheorems

-----------------------------------------------------------------------------
(* The inductive invariant *)

\* A live lease covers an unfinished run and is the newest lease of its session.
LeasesFit ==
    \A r \in Runs : lease[r].live =>
        /\ Unfinished(r)
        /\ \A j \in 1..Len(grants) : SessionOf[grants[j].run] = SessionOf[r] => j <= lease[r].id

RunsHaveSessions == \A r \in Runs : status[r] # "absent" => Exists(SessionOf[r])

\* A session that is yet to come has nothing.
Blank(s) == history[s] = <<>> /\ ~archived[s] /\ ~head[s].isolated /\ s \notin rewritten

\* What the conversation s with the turns h and the latest run q shows: runs of its
\* project, each once; those of the conversation it was branched from have ended.
Shows(h, s, q, st) ==
    /\ q # None => h # <<>> /\ Last(h) = q
    /\ \A i, j \in 1..Len(h) : h[i] = h[j] => i = j
    /\ \A i \in 1..Len(h) :
          /\ st[h[i]] # "absent"
          /\ ProjectOf[SessionOf[h[i]]] = ProjectOf[s]
          /\ SessionOf[h[i]] # s => st[h[i]] \in Terminal
ShowsTurns(s) == Shows(history[s], s, session[s].run, status)

TurnsFit ==
    /\ RunsHaveSessions
    /\ \A s \in Sessions : (~Exists(s) => Blank(s)) /\ ShowsTurns(s)
    /\ \A r \in Runs : archived[SessionOf[r]] => ~Unfinished(r)

\* Checkpoints that rows and attempts name are in the store.
Stored(p, cp) == cp \in 0..Len(saved[p])

HasSnapshot == {"saved", "recovered"}

CheckpointsFit ==
    /\ \A s \in Sessions : /\ Stored(ProjectOf[s], head[s].cp)
                           /\ head[s].isolated => head[s].cp # 0
                           /\ s \in rewritten => head[s].isolated
    /\ \A r \in Runs : /\ Stored(ProjectOfRun(r), boundary[r])
                       /\ Stored(ProjectOfRun(r), final[r])
                       /\ status[r] = "absent" => boundary[r] = 0 /\ final[r] = 0
    /\ \A id \in 1..MaxLeases : work[id].pc \in HasSnapshot =>
          LET p == ProjectOf[SessionOfLease(id)] IN
          /\ id \in 1..Len(grants)
          /\ work[id].cp \in 1..Len(saved[p])
          /\ saved[p][work[id].cp] = work[id].files

\* Files hold work of prepared runs only.
Prepared == {r \in Runs : boundary[r] # 0}

FilesFit ==
    /\ \A p \in Projects : \A k \in 1..Len(saved[p]) : saved[p][k] \subseteq Prepared
    /\ \A id \in 1..MaxLeases : work[id].files \subseteq Prepared

\* Of the runs that the conversation s with the turns h could show, the files hold only
\* its first n turns and what a restore or a recovery put into it.
Related(h, s, x) == SessionOf[x] = s \/ \E i \in 1..Len(h) : SessionOf[h[i]] = SessionOf[x]
Clean(h, s, pick, files, n) ==
    \A x \in files \ pick : Related(h, s, x) => \E i \in 1..n : h[i] = x

\* A conversation that follows its project shows every run it had, and no other.
FollowerShowsAll(s) ==
    /\ \A r \in Runs : SessionOf[r] = s /\ status[r] # "absent" =>
          \E i \in 1..Len(history[s]) : history[s][i] = r
    /\ \A i \in 1..Len(history[s]) : SessionOf[history[s][i]] = s

\* The head holds no discarded work; the boundary of a turn holds the turns before it, and
\* its final checkpoint those up to it.
Content(store, cp) == IF cp = 0 THEN {} ELSE store[cp]
SessionClean(h, s, pick, hd, store, start, end) ==
    /\ hd.isolated => Clean(h, s, pick, Content(store, hd.cp), Len(h))
    /\ \A i \in 1..Len(h) :
          /\ start[h[i]] # 0 => Clean(h, s, pick, Content(store, start[h[i]]), i - 1)
          /\ end[h[i]] # 0 => Clean(h, s, pick, Content(store, end[h[i]]), i)
HeadClean(s) ==
    SessionClean(history[s], s, picked[s], head[s], saved[ProjectOf[s]], boundary, final)

\* Nor does the workspace of an attempt that could publish.
AttemptClean(id) ==
    LET s == SessionOfLease(id) IN
    id \in 1..Len(grants) /\ work[id].pc \in {"ready", "saved"} /\ HoldsLiveLease(id) =>
        Clean(history[s], s, picked[s], work[id].files, Len(history[s]))

WorkFits ==
    /\ \A s \in Sessions : HeadClean(s) /\ (~head[s].isolated => FollowerShowsAll(s))
    /\ \A id \in 1..MaxLeases :
          /\ work[id].pc # "none" => id \in 1..Len(grants)
          /\ AttemptClean(id)

ConvInv ==
    /\ TypeOK
    /\ ConvTypeOK
    /\ OnlyLatestTurnPending
    /\ LeasesFit
    /\ TurnsFit
    /\ CheckpointsFit
    /\ FilesFit
    /\ WorkFits

-----------------------------------------------------------------------------
(* What clean files stay *)

Extends(store, old) ==
    Len(old) <= Len(store) /\ \A k \in 1..Len(old) : store[k] = old[k]

LEMMA CleanMore ==
  ASSUME NEW h, NEW s, NEW pick, NEW files, NEW n \in Int, NEW bigger, NEW less, NEW m \in Int,
         Clean(h, s, pick, files, n), pick \subseteq bigger, less \subseteq files, n <= m
  PROVE  Clean(h, s, bigger, less, m)
BY DEF Clean

LEMMA CleanAppend ==
  ASSUME NEW h \in Seq(Runs), NEW r \in Runs, NEW s, NEW pick, NEW files, NEW n \in Int,
         SessionOf[r] = s, n <= Len(h), Clean(h, s, pick, files, n)
  PROVE  Clean(Append(h, r), s, pick, files, n)
<1>1. /\ Len(h) \in Nat /\ Len(Append(h, r)) = Len(h) + 1
      /\ \A i \in 1..Len(h) : Append(h, r)[i] = h[i]
      /\ Append(h, r)[Len(h) + 1] = r
  BY AppendProperties
<1> DEFINE g == Append(h, r)
<1>2. ASSUME NEW x, Related(g, s, x) PROVE Related(h, s, x)
  <2>1. CASE SessionOf[x] = s
    BY <2>1 DEF Related
  <2>2. CASE SessionOf[x] # s
    <3>1. PICK i \in 1..Len(g) : SessionOf[g[i]] = SessionOf[x]
      BY <1>2, <2>2 DEF Related
    <3>2. i # Len(h) + 1
      BY <1>1, <2>2, <3>1
    <3>3. i \in 1..Len(h) /\ g[i] = h[i]
      BY <1>1, <3>2
    <3>4. QED
      BY <3>1, <3>3 DEF Related
  <2>3. QED
    BY <2>1, <2>2
<1>3. \A i \in 1..n : g[i] = h[i]
  BY <1>1
<1> HIDE DEF g
<1>4. Clean(g, s, pick, files, n)
  BY <1>2, <1>3 DEF Clean
<1>5. QED
  BY <1>4 DEF g

LEMMA PrefixIs ==
  ASSUME NEW h \in Seq(Runs), NEW k \in Int, 0 <= k, k <= Len(h)
  PROVE  /\ SubSeq(h, 1, k) \in Seq(Runs) /\ Len(SubSeq(h, 1, k)) = k
         /\ \A i \in 1..k : SubSeq(h, 1, k)[i] = h[i]
<1>1. Len(h) \in Nat /\ \A i \in 1..Len(h) : h[i] \in Runs
  BY ElementOfSeq, LenProperties
<1>2. \A i \in 1..k : h[i] \in Runs
  BY <1>1
<1>3. QED
  BY <1>2, SubSeqProperties

\* A prefix is related to less.
LEMMA CleanPrefix ==
  ASSUME NEW h \in Seq(Runs), NEW k \in Int, 0 <= k, k <= Len(h), NEW s, NEW t, NEW pick, NEW files,
         NEW n \in Int, n <= k, Clean(h, s, pick, files, n),
         t = s \/ \A x \in files : SessionOf[x] # t
  PROVE  Clean(SubSeq(h, 1, k), t, pick, files, n)
<1> DEFINE g == SubSeq(h, 1, k)
<1>1. Len(g) = k /\ (\A i \in 1..k : g[i] = h[i]) /\ Len(h) \in Nat
  BY PrefixIs, LenProperties
<1> HIDE DEF g
<1>2. ASSUME NEW x \in files, Related(g, t, x) PROVE Related(h, s, x)
  <2>1. CASE SessionOf[x] = t
    BY <2>1 DEF Related
  <2>2. CASE SessionOf[x] # t
    <3>1. PICK i \in 1..Len(g) : SessionOf[g[i]] = SessionOf[x]
      BY <1>2, <2>2 DEF Related
    <3>2. i \in 1..Len(h) /\ g[i] = h[i]
      BY <1>1, <3>1
    <3>3. QED
      BY <3>1, <3>2 DEF Related
  <2>3. QED
    BY <2>1, <2>2
<1>3. \A i \in 1..n : g[i] = h[i]
  BY <1>1
<1>4. Clean(g, t, pick, files, n)
  BY <1>2, <1>3 DEF Clean
<1>5. QED
  BY <1>4 DEF g

LEMMA SessionCleanKept ==
  ASSUME NEW h \in Seq(Runs), NEW s, NEW pick, NEW bigger, pick \subseteq bigger, NEW hd,
         NEW old, NEW store, Len(old) \in Nat, Extends(store, old), hd.cp \in 0..Len(old),
         NEW start, NEW start2, NEW end, NEW end2,
         \A i \in 1..Len(h) : /\ start2[h[i]] = start[h[i]] /\ start[h[i]] \in 0..Len(old)
                              /\ end2[h[i]] = end[h[i]] /\ end[h[i]] \in 0..Len(old),
         SessionClean(h, s, pick, hd, old, start, end)
  PROVE  SessionClean(h, s, bigger, hd, store, start2, end2)
<1>1. Len(h) \in Nat
  BY LenProperties
<1>2. \A cp \in 0..Len(old) : Content(store, cp) = Content(old, cp)
  BY DEF Content, Extends
<1>3. hd.isolated => Clean(h, s, bigger, Content(store, hd.cp), Len(h))
  <2> SUFFICES ASSUME hd.isolated PROVE Clean(h, s, bigger, Content(store, hd.cp), Len(h))
    OBVIOUS
  <2>1. Clean(h, s, pick, Content(old, hd.cp), Len(h))
    BY DEF SessionClean
  <2>2. QED
    BY <1>1, <1>2, <2>1, CleanMore
<1>4. ASSUME NEW i \in 1..Len(h)
      PROVE  /\ start2[h[i]] # 0 => Clean(h, s, bigger, Content(store, start2[h[i]]), i - 1)
             /\ end2[h[i]] # 0 => Clean(h, s, bigger, Content(store, end2[h[i]]), i)
  <2>0. i \in Int /\ i - 1 \in Int
    OBVIOUS
  <2>1. ASSUME start2[h[i]] # 0
        PROVE Clean(h, s, bigger, Content(store, start2[h[i]]), i - 1)
    <3>1. Clean(h, s, pick, Content(old, start[h[i]]), i - 1)
      BY <2>1 DEF SessionClean
    <3>2. Content(store, start2[h[i]]) = Content(old, start[h[i]])
      BY <1>2
    <3>3. QED
      BY <2>0, <3>1, <3>2, CleanMore
  <2>2. ASSUME end2[h[i]] # 0
        PROVE Clean(h, s, bigger, Content(store, end2[h[i]]), i)
    <3>1. Clean(h, s, pick, Content(old, end[h[i]]), i)
      BY <2>2 DEF SessionClean
    <3>2. Content(store, end2[h[i]]) = Content(old, end[h[i]])
      BY <1>2
    <3>3. QED
      BY <2>0, <3>1, <3>2, CleanMore
  <2>3. QED
    BY <2>1, <2>2
<1>5. QED
  BY <1>3, <1>4 DEF SessionClean

-----------------------------------------------------------------------------
(* What the steps do *)

LEMMA RowTypes ==
  ASSUME TypeOK, ConvTypeOK
  PROVE  /\ status \in [Runs -> RunStatus]
         /\ lease \in [Runs -> Lease]
         /\ grants \in Seq(Grant) /\ Len(grants) \in Nat /\ DOMAIN grants = 1..Len(grants)
         /\ session \in [Sessions -> [run: Runs \cup {None}, status: SessionStatus]]
         /\ \A s \in Sessions : /\ history[s] \in Seq(Runs) /\ Len(history[s]) \in Nat
                                /\ DOMAIN history[s] = 1..Len(history[s])
                                /\ \A i \in 1..Len(history[s]) : history[s][i] \in Runs
         /\ \A p \in Projects : /\ saved[p] \in Seq(SUBSET Runs) /\ Len(saved[p]) \in Nat
                                /\ DOMAIN saved[p] = 1..Len(saved[p])
                                /\ \A k \in 1..Len(saved[p]) : saved[p][k] \subseteq Runs
         /\ \A s \in Sessions : ProjectOf[s] \in Projects
         /\ \A r \in Runs : SessionOf[r] \in Sessions /\ ProjectOfRun(r) \in Projects
<1>1. /\ status \in [Runs -> RunStatus]
      /\ lease \in [Runs -> Lease]
      /\ grants \in Seq(Grant)
      /\ session \in [Sessions -> [run: Runs \cup {None}, status: SessionStatus]]
  BY DEF TypeOK
<1>2. \A s \in Sessions : history[s] \in Seq(Runs)
  BY DEF ConvTypeOK
<1>3. \A p \in Projects : saved[p] \in Seq(SUBSET Runs)
  BY DEF ConvTypeOK
<1>4. /\ \A s \in Sessions : ProjectOf[s] \in Projects
      /\ \A r \in Runs : SessionOf[r] \in Sessions /\ ProjectOfRun(r) \in Projects
  BY SessionOfType, ProjectOfType DEF ProjectOfRun
<1>5. \A S, q : q \in Seq(S) => /\ Len(q) \in Nat /\ DOMAIN q = 1..Len(q)
                                /\ \A i \in 1..Len(q) : q[i] \in S
  BY LenProperties, ElementOfSeq
<1>6. QED
  BY <1>1, <1>2, <1>3, <1>4, <1>5

LEMMA AttemptRun ==
  ASSUME TypeOK, ConvTypeOK, NEW id \in 1..Len(grants)
  PROVE  /\ RunOf(id) \in Runs /\ SessionOfLease(id) \in Sessions
         /\ ProjectOf[SessionOfLease(id)] \in Projects
         /\ SessionOfLease(id) = SessionOf[RunOf(id)]
         /\ ProjectOf[SessionOfLease(id)] = ProjectOfRun(RunOf(id))
BY GrantOf, RowTypes DEF RunOf, SessionOfLease, ProjectOfRun

\* What a claim, a lapse and an end leave of the rows that conversations rest on.
StoreMove ==
    /\ UNCHANGED convVars
    /\ \A t \in Sessions : session'[t].run = session[t].run
    /\ \A q \in Runs : /\ status'[q] = "absent" <=> status[q] = "absent"
                       /\ Unfinished(q)' => Unfinished(q)
    /\ Len(grants') \in Nat /\ Extends(grants', grants)
    /\ \A id \in 1..Len(grants) : HoldsLiveLease(id)' => HoldsLiveLease(id)

LEMMA ClaimMoves ==
  ASSUME TypeOK, ConvTypeOK, NEW r \in Runs, NEW w \in Workers, Claim(r, w) PROVE StoreMove
<1>1. BeginRun(r, w) /\ UNCHANGED convVars
  BY DEF Claim
<1>2. /\ Claimable(r)
      /\ \A q \in Runs : q # r => status'[q] = status[q] /\ lease'[q] = lease[q]
      /\ status'[r] \in Active
      /\ lease'[r] = [id |-> Len(grants) + 1, live |-> TRUE]
      /\ grants' = Append(grants, [run |-> r, holder |-> w])
      /\ \A t \in Sessions : session'[t].run = session[t].run
  BY <1>1, BeginEffect
<1>3. Len(grants) \in Nat /\ Len(grants') \in Nat /\ Extends(grants', grants)
  BY <1>2, RowTypes, AppendProperties DEF Extends, Grant
<1>4. ASSUME NEW id \in 1..Len(grants), HoldsLiveLease(id)' PROVE HoldsLiveLease(id)
  <2>1. /\ lease'[grants'[id].run] = [id |-> id, live |-> TRUE]
        /\ grants'[id] = grants[id] /\ grants[id].run \in Runs
    BY <1>3, <1>4, GrantOf DEF HoldsLiveLease, Extends
  <2>2. grants[id].run # r
    BY <1>2, <1>3, <2>1
  <2>3. QED
    BY <1>2, <2>1, <2>2 DEF HoldsLiveLease
<1>5. QED
  BY <1>1, <1>2, <1>3, <1>4 DEF StoreMove, Claimable, Unfinished, Active

LEMMA LapseMoves == ASSUME TypeOK, ConvTypeOK, NEW r \in Runs, Lapse(r) PROVE StoreMove
<1>1. LeaseLapses(r) /\ UNCHANGED convVars /\ lease \in [Runs -> Lease]
  BY RowTypes DEF Lapse
<1>2. UNCHANGED grants /\ \A q \in Runs : lease'[q].live => lease'[q] = lease[q]
  BY <1>1 DEF LeaseLapses, Lease
<1>3. \A id \in 1..Len(grants) : HoldsLiveLease(id)' => HoldsLiveLease(id)
  BY <1>2, GrantOf DEF HoldsLiveLease
<1>4. QED
  BY <1>1, <1>3, RowTypes DEF LeaseLapses, StoreMove, Extends, Unfinished

LEMMA EndMoves ==
  ASSUME TypeOK, ConvTypeOK, NEW id \in 1..MaxLeases, NEW o \in Outcome, End(id, o) PROVE StoreMove
<1>1. id \in 1..Len(grants) /\ FinishRun(id, o) /\ UNCHANGED convVars
  BY RowTypes DEF End
<1> PICK r \in Runs : r = grants[id].run
  BY <1>1, GrantOf
<1>2. /\ \A q \in Runs : q # r => status'[q] = status[q] /\ lease'[q] = lease[q]
      /\ lease'[r] = LeaseAfterFinish(id)
      /\ status'[r] = status[r] \/ (EndsRun(id) /\ status'[r] = FinishedStatus[o])
      /\ \A t \in Sessions : session'[t].run = session[t].run
      /\ UNCHANGED grants
  BY <1>1, FinishEffect
<1>3. FinishedStatus[o] \in Terminal /\ FinishedStatus[o] # "absent"
  BY DEF FinishedStatus, Outcome, Terminal
<1>4. EndsRun(id) => status[r] # "absent"
  BY DEF EndsRun, Unfinished
<1>5. \A q \in Runs : lease'[q].live => lease'[q] = lease[q]
  BY <1>2 DEF LeaseAfterFinish, NoLease
<1>6. \A j \in 1..Len(grants) : HoldsLiveLease(j)' => HoldsLiveLease(j)
  BY <1>2, <1>5, GrantOf DEF HoldsLiveLease
<1>7. QED
  BY <1>1, <1>2, <1>3, <1>4, <1>6, RowTypes DEF StoreMove, Extends, Unfinished

\* A turn, whether it begins its conversation or not.
NewTurn(r) ==
    LET s == SessionOf[r] IN
    /\ status[r] = "absent" /\ ~archived[s]
    /\ \A q \in Runs : SessionOf[q] = s => ~Unfinished(q)
    /\ \A q \in Runs : status'[q] = IF q = r THEN "queued" ELSE status[q]
    /\ \A t \in Sessions : session'[t].run = IF t = s THEN r ELSE session[t].run
    /\ \A t \in Sessions : history'[t] = IF t = s THEN Append(history[t], r) ELSE history[t]
    /\ UNCHANGED <<lease, grants, head, saved, boundary, final, archived, work, recorded, rewritten, picked>>

LEMMA TurnMoves ==
  ASSUME ConvInv, NEW r \in Runs, Allocate(r) \/ AppendTurn(r) PROVE NewTurn(r)
<1> DEFINE s == SessionOf[r]
<1>0. TypeOK /\ ConvTypeOK /\ OnlyLatestTurnPending /\ TurnsFit
  BY DEF ConvInv
<1>1. s \in Sessions /\ status \in [Runs -> RunStatus] /\ history \in [Sessions -> Seq(Runs)]
  BY <1>0, RowTypes DEF ConvTypeOK
<1>2. /\ status[r] = "absent"
      /\ status' = [status EXCEPT ![r] = "queued"]
      /\ \A t \in Sessions : session'[t].run = IF t = s THEN r ELSE session[t].run
      /\ UNCHANGED <<lease, grants, head, saved, boundary, final, archived, work, recorded, rewritten, picked>>
  BY <1>0, <1>1, RowTypes DEF Allocate, AppendTurn, AllocateBuildSession, AppendConversationTurn
<1>3. CASE Allocate(r)
  <2>1. ~Exists(s) /\ history' = [history EXCEPT ![s] = <<r>>]
    BY <1>3 DEF Allocate, AllocateBuildSession, Exists
  <2>2. history[s] = <<>> /\ ~archived[s]
    BY <1>0, <1>1, <2>1 DEF TurnsFit, Blank
  <2>3. history'[s] = Append(history[s], r)
    BY <1>1, <2>1, <2>2
  <2>4. \A q \in Runs : SessionOf[q] = s => ~Unfinished(q)
    BY <1>0, <2>1 DEF Exists, TurnsFit, RunsHaveSessions, Unfinished
  <2>5. QED
    BY <1>1, <1>2, <2>1, <2>2, <2>3, <2>4 DEF NewTurn
<1>4. CASE AppendTurn(r)
  <2>1. /\ ~archived[s] /\ ~SessionBusy(s)
        /\ history' = [history EXCEPT ![s] = Append(@, r)]
    BY <1>4 DEF AppendTurn, AppendConversationTurn
  <2>2. \A q \in Runs : SessionOf[q] = s => ~Unfinished(q)
    BY <1>1, <2>1 DEF SessionBusy, Unfinished, RunStatus
  <2>3. QED
    BY <1>1, <1>2, <2>1, <2>2 DEF NewTurn
<1>5. QED
  BY <1>3, <1>4

\* Where a run is in a history that shows it.
LEMMA PositionIs ==
  ASSUME TypeOK, ConvTypeOK, NEW s \in Sessions, NEW r \in Runs, Changeable(s, r)
  PROVE  Position(s, r) \in 1..Len(history[s]) /\ history[s][Position(s, r)] = r
<1>1. \E i \in DOMAIN history[s] : history[s][i] = r
  BY DEF Changeable
<1>2. QED
  BY <1>1, RowTypes DEF Position

\* A branch of s at r into t.
Branched(s, r, t) ==
    LET p == ProjectOf[s]
        k == Position(s, r)
    IN
    /\ Changeable(s, r) /\ ~Exists(t) /\ ProjectOf[t] = p /\ t # s
    /\ final[r] # 0
    /\ \A u \in Sessions :
          /\ session'[u].run = IF u = t THEN r ELSE session[u].run
          /\ history'[u] = IF u = t THEN SubSeq(history[s], 1, k) ELSE history[u]
          /\ head'[u] = IF u = t THEN [isolated |-> TRUE, cp |-> final[r]] ELSE Pinned(p)[u]
          /\ picked'[u] = IF u = t THEN picked[s] ELSE picked[u]
    /\ rewritten' = rewritten \cup RewrittenBy(p)
    /\ UNCHANGED <<status, lease, grants, saved, boundary, final, archived, work, recorded>>

LEMMA BranchMoves ==
  ASSUME TypeOK, ConvTypeOK, NEW s \in Sessions, NEW r \in Runs, NEW t \in Sessions, Branch(s, r, t)
  PROVE  Branched(s, r, t)
<1> DEFINE p == ProjectOf[s]
           k == Position(s, r)
<1>1. /\ Changeable(s, r) /\ ~Exists(t) /\ ProjectOf[t] = p /\ BranchPoint(r) # 0
      /\ session' = [session EXCEPT ![t] = [run |-> r, status |-> "ready"]]
      /\ history' = [history EXCEPT ![t] = SubSeq(history[s], 1, k)]
      /\ head' = [Pinned(p) EXCEPT ![t] = [isolated |-> TRUE, cp |-> BranchPoint(r)]]
      /\ picked' = [picked EXCEPT ![t] = picked[s]]
      /\ rewritten' = rewritten \cup RewrittenBy(p)
      /\ UNCHANGED <<status, lease, grants, saved, boundary, final, archived, work, recorded>>
  BY DEF Branch
<1>2. t # s
  BY <1>1 DEF Changeable
<1>3. BranchPoint(r) = final[r] /\ final[r] # 0
  BY <1>1 DEF BranchPoint
<1>4. \A u \in Sessions : session'[u].run = IF u = t THEN r ELSE session[u].run
  BY <1>1, RowTypes
<1>5. \A u \in Sessions : history'[u] = IF u = t THEN SubSeq(history[s], 1, k) ELSE history[u]
  BY <1>1 DEF ConvTypeOK
<1>6. \A u \in Sessions : picked'[u] = IF u = t THEN picked[s] ELSE picked[u]
  BY <1>1 DEF ConvTypeOK
<1>7. \A u \in Sessions :
        head'[u] = IF u = t THEN [isolated |-> TRUE, cp |-> final[r]] ELSE Pinned(p)[u]
  BY <1>1, <1>3 DEF Pinned
<1>8. QED
  BY <1>1, <1>2, <1>3, <1>4, <1>5, <1>6, <1>7 DEF Branched

\* A retry of r in s by q.
Retried(s, r, q) ==
    LET p == ProjectOf[s]
        k == Position(s, r)
    IN
    /\ Changeable(s, r) /\ status[q] = "absent" /\ SessionOf[q] = s
    /\ boundary[r] # 0
    /\ \A x \in Runs : status'[x] = IF x = q THEN "queued" ELSE status[x]
    /\ \A u \in Sessions :
          /\ session'[u].run = IF u = s THEN q ELSE session[u].run
          /\ history'[u] = IF u = s THEN Append(SubSeq(history[s], 1, k - 1), q) ELSE history[u]
          /\ head'[u] = IF u = s THEN [isolated |-> TRUE, cp |-> boundary[r]] ELSE Pinned(p)[u]
    /\ rewritten' = rewritten \cup RewrittenBy(p)
    /\ UNCHANGED <<lease, grants, saved, boundary, final, archived, work, recorded, picked>>

LEMMA RetryMoves ==
  ASSUME TypeOK, ConvTypeOK, NEW s \in Sessions, NEW r \in Runs, NEW q \in Runs, Retry(s, r, q)
  PROVE  Retried(s, r, q)
<1> DEFINE p == ProjectOf[s]
           k == Position(s, r)
<1>1. /\ Changeable(s, r) /\ status[q] = "absent" /\ SessionOf[q] = s /\ boundary[r] # 0
      /\ status' = [status EXCEPT ![q] = "queued"]
      /\ session' = [session EXCEPT ![s] = [run |-> q, status |-> "ready"]]
      /\ history' = [history EXCEPT ![s] = Append(SubSeq(@, 1, k - 1), q)]
      /\ head' = [Pinned(p) EXCEPT ![s] = [isolated |-> TRUE, cp |-> boundary[r]]]
      /\ rewritten' = rewritten \cup RewrittenBy(p)
      /\ UNCHANGED <<lease, grants, saved, boundary, final, archived, work, recorded, picked>>
  BY DEF Retry, Baseline
<1>2. \A x \in Runs : status'[x] = IF x = q THEN "queued" ELSE status[x]
  BY <1>1, RowTypes
<1>3. \A u \in Sessions : session'[u].run = IF u = s THEN q ELSE session[u].run
  BY <1>1, RowTypes
<1>4. \A u \in Sessions :
        history'[u] = IF u = s THEN Append(SubSeq(history[s], 1, k - 1), q) ELSE history[u]
  BY <1>1 DEF ConvTypeOK
<1>5. \A u \in Sessions :
        head'[u] = IF u = s THEN [isolated |-> TRUE, cp |-> boundary[r]] ELSE Pinned(p)[u]
  BY <1>1 DEF Pinned
<1>6. QED
  BY <1>1, <1>2, <1>3, <1>4, <1>5 DEF Retried

LEMMA Added ==
  ASSUME NEW S, NEW old \in Seq(S), NEW new \in Seq(S)
  PROVE  /\ old \o new \in Seq(S)
         /\ Extends(old \o new, old)
         /\ Len(old \o new) = Len(old) + Len(new)
         /\ \A i \in 1..Len(new) : (old \o new)[Len(old) + i] = new[i]
<1>1. Len(old) \in Nat /\ Len(new) \in Nat
  BY LenProperties
<1>2. /\ old \o new \in Seq(S)
      /\ Len(old \o new) = Len(old) + Len(new)
      /\ \A i \in 1..Len(old) + Len(new) :
            (old \o new)[i] = IF i <= Len(old) THEN old[i] ELSE new[i - Len(old)]
  BY ConcatProperties
<1> DEFINE all == old \o new
<1>3. Extends(all, old)
  BY <1>1, <1>2 DEF Extends
<1>4. ASSUME NEW i \in 1..Len(new) PROVE all[Len(old) + i] = new[i]
  <2>1. Len(old) + i \in 1..Len(old) + Len(new) /\ ~(Len(old) + i <= Len(old))
        /\ (Len(old) + i) - Len(old) = i
    BY <1>1
  <2>2. QED
    BY <1>2, <2>1
<1>5. QED
  BY <1>2, <1>3, <1>4

LEMMA AddedOne ==
  ASSUME NEW S, NEW old \in Seq(S), NEW c \in S
  PROVE  Append(old, c) \in Seq(S) /\ Extends(Append(old, c), old)
BY AppendProperties, LenProperties DEF Extends

LEMMA ExtendsTwice ==
  ASSUME NEW a, NEW b, NEW c, Len(a) \in Nat, Len(b) \in Nat, Len(c) \in Nat,
         Extends(b, a), Extends(c, b)
  PROVE  Extends(c, a)
BY DEF Extends

\* Checkpoints are added to the store of a project.
Stores(p, store) ==
    /\ store \in Seq(SUBSET Prepared')
    /\ Extends(store, saved[p])
    /\ saved' = [saved EXCEPT ![p] = store]

LEMMA SavedArePrepared ==
  ASSUME ConvInv, NEW p \in Projects PROVE saved[p] \in Seq(SUBSET Prepared)
<1>1. /\ saved[p] \in Seq(SUBSET Runs)
      /\ Len(saved[p]) \in Nat
      /\ saved[p] \in [1..Len(saved[p]) -> SUBSET Runs]
  BY RowTypes, LenProperties DEF ConvInv
<1>2. \A k \in 1..Len(saved[p]) : saved[p][k] \in SUBSET Prepared
  BY DEF ConvInv, FilesFit
<1>3. saved[p] \in [1..Len(saved[p]) -> SUBSET Prepared]
  BY <1>1, <1>2
<1>4. QED
  BY <1>1, <1>3, SeqDef

\* The files a session starts from, and those of its head, are of prepared runs.
LEMMA BaseFilesAre ==
  ASSUME ConvInv, NEW s \in Sessions
  PROVE  /\ BaseFiles(s) \subseteq Prepared
         /\ head[s] \in HeadRow
         /\ head[s].cp # 0 => Files(ProjectOf[s], head[s].cp) \subseteq Prepared
<1> DEFINE p == ProjectOf[s]
<1>1. p \in Projects /\ Len(saved[p]) \in Nat
  BY RowTypes DEF ConvInv
<1>2. head[s] \in HeadRow /\ head[s].cp \in 0..Len(saved[p])
  BY DEF ConvInv, ConvTypeOK, CheckpointsFit, Stored
<1>3. \A k \in 1..Len(saved[p]) : saved[p][k] \subseteq Prepared
  BY <1>1 DEF ConvInv, FilesFit
<1>4. \A cp \in 0..Len(saved[p]) : Files(p, cp) \subseteq Prepared
  BY <1>1, <1>3 DEF Files
<1>5. BaseOf(s) \in 0..Len(saved[p])
  BY <1>1, <1>2 DEF BaseOf, Latest
<1>6. QED
  BY <1>2, <1>4, <1>5 DEF BaseFiles

Restored(s, cp) ==
    LET p == ProjectOf[s]
        n == Len(saved[p])
    IN
    /\ Exists(s) /\ Quiet(p) /\ cp \in 1..n
    /\ \A u \in Sessions : u # s => head'[u] = head[u] /\ picked'[u] = picked[u]
    /\ \/ head'[s] = head[s] /\ picked'[s] = picked[s]
       \/ /\ n + 2 \in 1..Len(saved'[p]) /\ saved'[p][n + 2] = saved[p][cp]
          /\ head'[s] = [isolated |-> TRUE, cp |-> n + 2]
          /\ picked'[s] = picked[s] \cup saved[p][cp]
    /\ \E store : Stores(p, store)
    /\ UNCHANGED <<vars, history, boundary, final, archived, work, recorded, rewritten>>

LEMMA RestoreMoves ==
  ASSUME ConvInv, NEW s \in Sessions, NEW cp, RestoreWorkspace(s, cp) PROVE Restored(s, cp)
<1> DEFINE p == ProjectOf[s]
           n == Len(saved[p])
           a == BaseFiles(s)
           b == saved[p][cp]
<1>0. TypeOK /\ ConvTypeOK
  BY DEF ConvInv
<1>1. /\ Exists(s) /\ Quiet(p) /\ cp \in DOMAIN saved[p]
      /\ UNCHANGED <<vars, history, boundary, final, archived, work, recorded, rewritten>>
  BY DEF RestoreWorkspace
<1>2. /\ p \in Projects /\ cp \in 1..n /\ n \in Nat
      /\ saved \in [Projects -> Seq(SUBSET Runs)] /\ saved[p] \in Seq(SUBSET Runs)
  BY <1>0, <1>1, RowTypes DEF ConvTypeOK
<1>3. /\ a \subseteq Prepared /\ b \subseteq Prepared /\ Prepared \subseteq Runs
      /\ saved[p] \in Seq(SUBSET Prepared)
  BY <1>2, BaseFilesAre, SavedArePrepared DEF ConvInv, FilesFit, Prepared
<1>4. Prepared' = Prepared
  BY <1>1 DEF Prepared
<1>5. <<a, b>> \in Seq(SUBSET Prepared) /\ <<a, b>> \in Seq(SUBSET Runs)
  BY <1>3
<1>6. RestoreSaves(s, cp) = <<a, b>>
  BY DEF RestoreSaves
<1>7. CASE /\ saved' = [saved EXCEPT ![p] = @ \o RestoreSaves(s, cp)]
           /\ head' = [head EXCEPT ![s] = [isolated |-> TRUE, cp |-> Latest(p) + 2]]
           /\ picked' = [picked EXCEPT ![s] = @ \cup saved[p][cp]]
  <2>1. Stores(p, saved[p] \o <<a, b>>)
    BY <1>3, <1>4, <1>5, <1>6, <1>7, Added DEF Stores
  <2>2. saved'[p] = saved[p] \o <<a, b>>
    BY <1>2, <1>6, <1>7
  <2>3. Len(saved'[p]) = n + 2 /\ saved'[p][n + 2] = b
    <3>1. Len(<<a, b>>) = 2 /\ <<a, b>>[2] = b
      OBVIOUS
    <3>2. Len(saved[p] \o <<a, b>>) = n + 2 /\ (saved[p] \o <<a, b>>)[n + 2] = b
      BY <1>2, <1>5, <3>1, Added
    <3>3. QED
      BY <2>2, <3>2
  <2>4. n + 2 \in 1..Len(saved'[p])
    BY <1>2, <2>3
  <2>5. \A u \in Sessions : u # s => head'[u] = head[u] /\ picked'[u] = picked[u]
    BY <1>0, <1>7 DEF ConvTypeOK
  <2>6. head'[s] = [isolated |-> TRUE, cp |-> n + 2] /\ picked'[s] = picked[s] \cup saved[p][cp]
    BY <1>0, <1>7 DEF ConvTypeOK, Latest
  <2>7. QED
    BY <1>1, <1>2, <2>1, <2>3, <2>4, <2>5, <2>6 DEF Restored
<1>8. CASE /\ \E m \in 1..2 : saved' = [saved EXCEPT ![p] = @ \o SubSeq(RestoreSaves(s, cp), 1, m)]
           /\ UNCHANGED <<head, picked>>
  <2>1. PICK m \in 1..2 : saved' = [saved EXCEPT ![p] = @ \o SubSeq(<<a, b>>, 1, m)]
    BY <1>6, <1>8
  <2>2. SubSeq(<<a, b>>, 1, m) \in Seq(SUBSET Prepared)
    <3>1. \A i \in 1..m : <<a, b>>[i] \in SUBSET Prepared
      BY <1>3
    <3>2. QED
      BY <3>1, SubSeqProperties
  <2>3. Stores(p, saved[p] \o SubSeq(<<a, b>>, 1, m))
    <3> DEFINE new == SubSeq(<<a, b>>, 1, m)
    <3>1. saved[p] \o new \in Seq(SUBSET Prepared) /\ Extends(saved[p] \o new, saved[p])
      BY <1>3, <2>2, Added
    <3>2. saved' = [saved EXCEPT ![p] = saved[p] \o new]
      BY <2>1
    <3> HIDE DEF new
    <3>3. Stores(p, saved[p] \o new)
      BY <1>4, <3>1, <3>2 DEF Stores
    <3>4. QED
      BY <3>3 DEF new
  <2>4. QED
    BY <1>1, <1>2, <1>8, <2>3 DEF Restored
<1>9. QED
  BY <1>7, <1>8 DEF RestoreWorkspace

\* The preparation of the attempt id from the files base.
PreparedFrom(id, base) ==
    LET s == SessionOfLease(id)
        p == ProjectOf[s]
        r == RunOf(id)
    IN
    /\ HoldsLiveLease(id) /\ id \in 1..Len(grants)
    /\ base \subseteq Prepared
    /\ head[s].isolated /\ head[s].cp # 0 => base = Files(p, head[s].cp)
    /\ \E store : Stores(p, store)
    /\ Len(saved'[p]) # 0 /\ saved'[p][Len(saved'[p])] = base
    /\ boundary' = [boundary EXCEPT ![r] = IF boundary[r] = 0 THEN Len(saved'[p]) ELSE boundary[r]]
    /\ work' = [work EXCEPT ![id] = [pc |-> "ready", files |-> base \cup {r}, cp |-> 0]]
    /\ UNCHANGED <<vars, history, head, final, archived, recorded, rewritten, picked>>

LEMMA PrepareMoves ==
  ASSUME ConvInv, NEW id \in 1..MaxLeases, Prepare(id) PROVE \E base : PreparedFrom(id, base)
<1> DEFINE s == SessionOfLease(id)
           p == ProjectOf[s]
           r == RunOf(id)
           Based(store, base) ==
             base = IF head[s].isolated /\ head[s].cp # 0 THEN Files(p, head[s].cp)
                    ELSE IF store = <<>> THEN {} ELSE Last(store)
<1>0. TypeOK /\ ConvTypeOK
  BY DEF ConvInv
<1>1. /\ HoldsLiveLease(id) /\ id \in DOMAIN grants
      /\ UNCHANGED <<vars, history, head, final, archived, recorded, rewritten, picked>>
  BY DEF Prepare, AttemptAt
<1>2. id \in 1..Len(grants) /\ s \in Sessions /\ p \in Projects /\ r \in Runs
  BY <1>0, <1>1, RowTypes, AttemptRun
<1>3. \E left \in {<<>>} \cup {<<files>> : files \in Retained(id)} : \E base :
        LET store == saved[p] \o left IN
        /\ Based(store, base)
        /\ saved' = [saved EXCEPT ![p] = Append(store, base)]
        /\ boundary' = [boundary EXCEPT ![r] = BoundaryOf(r, Len(store) + 1)]
        /\ work' = [work EXCEPT ![id] = [pc |-> "ready", files |-> base \cup {r}, cp |-> 0]]
  BY DEF Prepare
<1>4a. PICK left \in {<<>>} \cup {<<files>> : files \in Retained(id)} :
       \E base :
        /\ Based(saved[p] \o left, base)
        /\ saved' = [saved EXCEPT ![p] = Append(saved[p] \o left, base)]
        /\ boundary' = [boundary EXCEPT ![r] = BoundaryOf(r, Len(saved[p] \o left) + 1)]
        /\ work' = [work EXCEPT ![id] = [pc |-> "ready", files |-> base \cup {r}, cp |-> 0]]
  BY <1>3
<1>4. PICK base :
        /\ Based(saved[p] \o left, base)
        /\ saved' = [saved EXCEPT ![p] = Append(saved[p] \o left, base)]
        /\ boundary' = [boundary EXCEPT ![r] = BoundaryOf(r, Len(saved[p] \o left) + 1)]
        /\ work' = [work EXCEPT ![id] = [pc |-> "ready", files |-> base \cup {r}, cp |-> 0]]
  BY <1>4a
<1> DEFINE store == saved[p] \o left
<1>5. \A files \in Retained(id) : files \subseteq Prepared
  <2>1. \A j \in 1..(id - 1) : j \in 1..MaxLeases
    BY ConvBoundsAreNatural
  <2>2. QED
    BY <2>1 DEF Retained, ConvInv, FilesFit
<1>6. left \in Seq(SUBSET Prepared) /\ saved[p] \in Seq(SUBSET Prepared)
  <2>1. \A files \in Retained(id) : <<files>> \in Seq(SUBSET Prepared)
    BY <1>5
  <2>2. QED
    BY <1>2, <2>1, SavedArePrepared, EmptySeq
<1>7. store \in Seq(SUBSET Prepared)
  BY <1>6, ConcatProperties
<1>8. base \subseteq Prepared
  <2>1. head[s].cp # 0 => Files(p, head[s].cp) \subseteq Prepared
    BY <1>2, BaseFilesAre
  <2>2. store # <<>> => Last(store) \in SUBSET Prepared
    <3>1. Len(store) \in Nat /\ (store # <<>> => Len(store) # 0)
      BY <1>7, EmptySeq, LenProperties
    <3>2. QED
      BY <1>7, <3>1, ElementOfSeq DEF Last
  <2>3. QED
    BY <1>4, <2>1, <2>2
<1>9. Prepared \subseteq Prepared'
  <2>1. boundary \in [Runs -> Nat] /\ Len(store) + 1 \in Nat \ {0}
    BY <1>0, <1>7, LenProperties DEF ConvTypeOK
  <2>2. QED
    BY <1>4, <2>1 DEF Prepared, BoundaryOf
<1>10. Append(store, base) \in Seq(SUBSET Prepared')
  <2>1. Append(store, base) \in Seq(SUBSET Prepared)
    BY <1>7, <1>8, AddedOne
  <2>2. SUBSET Prepared \subseteq SUBSET Prepared'
    BY <1>9
  <2>3. QED
    BY <2>1, <2>2, SeqMonotonic
<1>11. Stores(p, Append(store, base))
  <2>1. Extends(store, saved[p]) /\ Extends(Append(store, base), store)
    BY <1>6, <1>7, <1>8, Added, AddedOne
  <2>2. Len(saved[p]) \in Nat /\ Len(store) \in Nat /\ Len(Append(store, base)) \in Nat
    BY <1>6, <1>7, <1>10, LenProperties
  <2>3. Extends(Append(store, base), saved[p])
    BY <2>1, <2>2, ExtendsTwice
  <2>4. saved' = [saved EXCEPT ![p] = Append(store, base)]
    BY <1>4
  <2> HIDE DEF store, Based
  <2>5. QED
    BY <1>10, <2>3, <2>4 DEF Stores
<1>12. /\ Len(saved'[p]) = Len(store) + 1
       /\ saved'[p][Len(saved'[p])] = base /\ Len(store) \in Nat
  <2>1. saved'[p] = Append(store, base)
    BY <1>0, <1>2, <1>4 DEF ConvTypeOK
  <2>2. QED
    BY <1>7, <1>8, <2>1, AppendProperties, LenProperties
<1>13. head[s].isolated /\ head[s].cp # 0 => base = Files(p, head[s].cp)
  BY <1>4
<1>14. /\ boundary' = [boundary EXCEPT ![r] = IF boundary[r] = 0 THEN Len(saved'[p]) ELSE boundary[r]]
       /\ work' = [work EXCEPT ![id] = [pc |-> "ready", files |-> base \cup {r}, cp |-> 0]]
  BY <1>4, <1>12 DEF BoundaryOf
<1>15. \E list : Stores(p, list)
  BY <1>11
<1>16. Len(saved'[p]) # 0
  BY <1>12
<1> HIDE DEF store, Based
<1>17. PreparedFrom(id, base)
  BY <1>1, <1>2, <1>8, <1>12, <1>13, <1>14, <1>15, <1>16 DEF PreparedFrom
<1>18. QED
  BY <1>17

\* The snapshot of an attempt's work, or of what a recovery finds.
SavedBy(id) ==
    LET p == ProjectOf[SessionOfLease(id)]
        n == Len(saved[p])
    IN
    /\ id \in 1..Len(grants)
    /\ \E store : Stores(p, store)
    /\ n + 1 \in 1..Len(saved'[p]) /\ saved'[p][n + 1] = work'[id].files
    /\ work'[id].pc \in HasSnapshot /\ work'[id].cp = n + 1 /\ work'[id].files \subseteq Prepared
    /\ work'[id].pc = "saved" => work[id].pc = "ready" /\ work'[id].files = work[id].files
    /\ \A j \in 1..MaxLeases : j # id => work'[j] = work[j]
    /\ UNCHANGED <<vars, history, head, boundary, final, archived, recorded, rewritten, picked>>

LEMMA StoreOne ==
  ASSUME ConvInv, NEW p \in Projects, NEW files \in SUBSET Prepared, UNCHANGED boundary,
         saved' = [saved EXCEPT ![p] = Append(@, files)]
  PROVE  /\ Stores(p, Append(saved[p], files))
         /\ Len(saved[p]) + 1 \in 1..Len(saved'[p]) /\ saved'[p][Len(saved[p]) + 1] = files
<1>1. saved[p] \in Seq(SUBSET Runs) /\ Len(saved[p]) \in Nat
  BY RowTypes DEF ConvInv
<1>2. files \in SUBSET Runs /\ Prepared' = Prepared
  BY DEF Prepared
<1>3. Append(saved[p], files) \in Seq(SUBSET Prepared) /\ Extends(Append(saved[p], files), saved[p])
  BY <1>1, SavedArePrepared, AddedOne
<1>4. Stores(p, Append(saved[p], files))
  BY <1>2, <1>3 DEF Stores
<1>5. saved'[p] = Append(saved[p], files)
  BY DEF ConvInv, ConvTypeOK
<1>6. QED
  BY <1>1, <1>2, <1>4, <1>5, AppendProperties

LEMMA SaveMoves == ASSUME ConvInv, NEW id \in 1..MaxLeases, Save(id) PROVE SavedBy(id)
<1> DEFINE p == ProjectOf[SessionOfLease(id)]
           n == Len(saved[p])
           files == work[id].files
<1>0. TypeOK /\ ConvTypeOK
  BY DEF ConvInv
<1>1. /\ id \in DOMAIN grants /\ work[id].pc = "ready"
      /\ saved' = [saved EXCEPT ![p] = Append(@, files)]
      /\ work' = [work EXCEPT ![id] = [pc |-> "saved", files |-> @.files, cp |-> n + 1]]
      /\ UNCHANGED <<vars, history, head, boundary, final, archived, recorded, rewritten, picked>>
  BY DEF Save, AttemptAt, Latest
<1>2. id \in 1..Len(grants) /\ p \in Projects
  BY <1>0, <1>1, RowTypes, AttemptRun
<1>3. files \in SUBSET Prepared
  BY DEF ConvInv, FilesFit
<1>4. /\ Stores(p, Append(saved[p], files))
      /\ n + 1 \in 1..Len(saved'[p]) /\ saved'[p][n + 1] = files
  BY <1>1, <1>2, <1>3, StoreOne
<1>5. \A j \in 1..MaxLeases :
        work'[j] = IF j = id THEN [pc |-> "saved", files |-> files, cp |-> n + 1] ELSE work[j]
  BY <1>0, <1>1 DEF ConvTypeOK
<1>6. work'[id] = [pc |-> "saved", files |-> files, cp |-> n + 1]
  BY <1>5
<1>7. QED
  BY <1>1, <1>2, <1>3, <1>4, <1>5, <1>6 DEF SavedBy, HasSnapshot

\* A step of an attempt that saves and publishes nothing: its outcome is recorded, or it is over.
LeftBy(id) ==
    /\ work[id].pc # "none" \/ id \in 1..Len(grants)
    /\ recorded' \subseteq Runs
    /\ \A j \in 1..MaxLeases : \/ work'[j] = work[j]
                               \/ work'[j] = [work[j] EXCEPT !.pc = "over"] /\ j \in 1..Len(grants)
    /\ work' \in [1..MaxLeases -> Attempt]
    /\ UNCHANGED <<vars, history, head, saved, boundary, final, archived, rewritten, picked>>

LEMMA RecordMoves == ASSUME ConvInv, NEW id \in 1..MaxLeases, Record(id) PROVE LeftBy(id)
<1>0. TypeOK /\ ConvTypeOK
  BY DEF ConvInv
<1>1. /\ id \in DOMAIN grants /\ recorded' = recorded \cup {RunOf(id)}
      /\ work' = [work EXCEPT ![id].pc = "over"] \/ work' = work
      /\ UNCHANGED <<vars, history, head, saved, boundary, final, archived, rewritten, picked>>
  BY DEF Record, AttemptAt
<1>2. id \in 1..Len(grants) /\ RunOf(id) \in Runs
  BY <1>0, <1>1, RowTypes, AttemptRun
<1>3. work \in [1..MaxLeases -> Attempt]
  BY <1>0 DEF ConvTypeOK
<1>4. \A j \in 1..MaxLeases :
        work'[j] = work[j] \/ (work'[j] = [work[j] EXCEPT !.pc = "over"] /\ j = id)
  <2>1. CASE work' = work
    BY <2>1
  <2>2. CASE work' = [work EXCEPT ![id].pc = "over"]
    BY <1>3, <2>2
  <2>3. QED
    BY <1>1, <2>1, <2>2
<1>5. work' \in [1..MaxLeases -> Attempt]
  BY <1>1, <1>3 DEF Attempt
<1>6. recorded' \subseteq Runs
  BY <1>0, <1>1, <1>2 DEF ConvTypeOK
<1>7. QED
  BY <1>1, <1>2, <1>4, <1>5, <1>6 DEF LeftBy

LEMMA RecoverMoves ==
  ASSUME ConvInv, NEW id \in 1..MaxLeases, Recover(id) PROVE SavedBy(id) \/ LeftBy(id)
<1> DEFINE p == ProjectOf[SessionOfLease(id)]
           n == Len(saved[p])
<1>0. TypeOK /\ ConvTypeOK /\ work \in [1..MaxLeases -> Attempt]
  BY DEF ConvInv, ConvTypeOK
<1>1. /\ id \in DOMAIN grants
      /\ UNCHANGED <<vars, history, head, boundary, final, archived, recorded, rewritten, picked>>
  BY DEF Recover, AttemptAt
<1>2. id \in 1..Len(grants) /\ p \in Projects
  BY <1>0, <1>1, RowTypes, AttemptRun
<1>3. ASSUME NEW files \in Retained(id),
             saved' = [saved EXCEPT ![p] = Append(@, files)],
             work' = [work EXCEPT ![id] = [pc |-> "recovered", files |-> files, cp |-> n + 1]]
      PROVE  SavedBy(id)
  <2>1. files \in SUBSET Prepared
    <3>1. \A j \in 1..(id - 1) : j \in 1..MaxLeases
      BY ConvBoundsAreNatural
    <3>2. QED
      BY <1>3, <3>1 DEF Retained, ConvInv, FilesFit
  <2>2. /\ Stores(p, Append(saved[p], files))
        /\ n + 1 \in 1..Len(saved'[p]) /\ saved'[p][n + 1] = files
    BY <1>1, <1>2, <1>3, <2>1, StoreOne
  <2>3. \A j \in 1..MaxLeases :
          work'[j] = IF j = id THEN [pc |-> "recovered", files |-> files, cp |-> n + 1] ELSE work[j]
    BY <1>0, <1>3
  <2>4. work'[id] = [pc |-> "recovered", files |-> files, cp |-> n + 1]
    BY <2>3
  <2>5. QED
    BY <1>1, <1>2, <2>1, <2>2, <2>3, <2>4 DEF SavedBy, HasSnapshot
<1>4. ASSUME work' = [work EXCEPT ![id].pc = "over"], UNCHANGED saved PROVE LeftBy(id)
  <2>1. \A j \in 1..MaxLeases :
        work'[j] = work[j] \/ (work'[j] = [work[j] EXCEPT !.pc = "over"] /\ j = id)
    BY <1>0, <1>4
  <2>2. work' \in [1..MaxLeases -> Attempt] /\ recorded' \subseteq Runs
    BY <1>0, <1>1, <1>4 DEF Attempt, ConvTypeOK
  <2>3. QED
    BY <1>1, <1>2, <1>4, <2>1, <2>2 DEF LeftBy
<1>5. QED
  BY <1>3, <1>4 DEF Recover, Latest

\* The publication of a snapshot, or its refusal.
PublishedBy(id) ==
    LET s == SessionOfLease(id)
        r == RunOf(id)
    IN
    /\ id \in 1..Len(grants) /\ work[id].pc \in HasSnapshot
    /\ \/ /\ HoldsLiveLease(id)
          /\ \A u \in Sessions : head'[u] = IF u = s THEN [isolated |-> TRUE, cp |-> work[id].cp] ELSE head[u]
          /\ \A q \in Runs : final'[q] = IF q = r THEN work[id].cp ELSE final[q]
          /\ work[id].pc = "recovered" => work[id].files \subseteq picked'[s]
       \/ UNCHANGED <<head, final>>
    /\ \A u \in Sessions : picked[u] \subseteq picked'[u]
    /\ picked' \in [Sessions -> SUBSET Runs] /\ recorded' \subseteq Runs
    /\ \A j \in 1..MaxLeases : work'[j] = IF j = id THEN [work[id] EXCEPT !.pc = "over"] ELSE work[j]
    /\ UNCHANGED <<vars, history, saved, boundary, archived, rewritten>>

LEMMA PublishMoves ==
  ASSUME ConvInv, NEW id \in 1..MaxLeases, Publish(id) \/ PublishRecovered(id) PROVE PublishedBy(id)
<1> DEFINE s == SessionOfLease(id)
<1>0. TypeOK /\ ConvTypeOK
  BY DEF ConvInv
<1>1. /\ id \in DOMAIN grants /\ work[id].pc \in HasSnapshot
      /\ recorded' = recorded \cup {RunOf(id)}
      /\ work' = [work EXCEPT ![id].pc = "over"]
      /\ UNCHANGED <<vars, history, saved, boundary, archived, rewritten>>
      /\ \/ /\ MayPublish(id)
            /\ head' = [head EXCEPT ![s] = [isolated |-> TRUE, cp |-> work[id].cp]]
            /\ final' = [final EXCEPT ![RunOf(id)] = work[id].cp]
         \/ ~MayPublish(id) /\ UNCHANGED <<head, final>>
      /\ \/ work[id].pc = "saved" /\ UNCHANGED picked
         \/ picked' = IF MayPublish(id) THEN [picked EXCEPT ![s] = @ \cup work[id].files] ELSE picked
  BY DEF Publish, PublishRecovered, PublishCheckpoint, AttemptAt, HasSnapshot
<1>2. id \in 1..Len(grants) /\ s \in Sessions /\ RunOf(id) \in Runs
  BY <1>0, <1>1, RowTypes, AttemptRun
<1>3. \A j \in 1..MaxLeases : work'[j] = IF j = id THEN [work[id] EXCEPT !.pc = "over"] ELSE work[j]
  BY <1>0, <1>1 DEF ConvTypeOK
<1>4. /\ picked' \in [Sessions -> SUBSET Runs] /\ \A u \in Sessions : picked[u] \subseteq picked'[u]
      /\ MayPublish(id) /\ work[id].pc = "recovered" => work[id].files \subseteq picked'[s]
  <2>1. picked \in [Sessions -> SUBSET Runs] /\ work[id].files \subseteq Runs
    BY <1>0 DEF ConvTypeOK, Attempt
  <2>2. QED
    BY <1>1, <1>2, <2>1
<1>5. recorded' \subseteq Runs
  BY <1>0, <1>1, <1>2 DEF ConvTypeOK
<1>6. \/ /\ HoldsLiveLease(id)
         /\ \A u \in Sessions : head'[u] = IF u = s THEN [isolated |-> TRUE, cp |-> work[id].cp] ELSE head[u]
         /\ \A q \in Runs : final'[q] = IF q = RunOf(id) THEN work[id].cp ELSE final[q]
         /\ work[id].pc = "recovered" => work[id].files \subseteq picked'[s]
      \/ UNCHANGED <<head, final>>
  BY <1>0, <1>1, <1>4 DEF ConvTypeOK, MayPublish
<1>7. QED
  BY <1>1, <1>2, <1>3, <1>4, <1>5, <1>6 DEF PublishedBy

-----------------------------------------------------------------------------
(* Runs, leases and turns *)

\* Nothing of a project at rest is unfinished or covered by a live lease.
LEMMA AtRest ==
  ASSUME NEW p, Quiet(p), NEW q \in Runs, ProjectOf[SessionOf[q]] = p
  PROVE  ~Unfinished(q) /\ ~lease[q].live
BY DEF Quiet, ProjectOfRun

LEMMA LatestKept ==
  ASSUME OnlyLatestTurnPending, \A t \in Sessions : session'[t].run = session[t].run,
         \A q \in Runs : Unfinished(q)' => Unfinished(q)
  PROVE  OnlyLatestTurnPending'
BY SessionOfType DEF OnlyLatestTurnPending

LEMMA LatestAfterTurn ==
  ASSUME ConvInv, NEW r \in Runs, NewTurn(r) PROVE OnlyLatestTurnPending'
<1> SUFFICES ASSUME NEW q \in Runs, Unfinished(q)' PROVE session'[SessionOf[q]].run = q
  BY DEF OnlyLatestTurnPending
<1>1. CASE q = r
  BY <1>1, SessionOfType DEF NewTurn
<1>2. CASE q # r
  <2>1. Unfinished(q)
    BY <1>2 DEF NewTurn, Unfinished
  <2>2. SessionOf[q] # SessionOf[r]
    BY <2>1 DEF NewTurn
  <2>3. QED
    BY <2>1, <2>2, SessionOfType DEF NewTurn, ConvInv, OnlyLatestTurnPending
<1>3. QED
  BY <1>1, <1>2

LEMMA LatestAfterBranch ==
  ASSUME ConvInv, NEW s \in Sessions, NEW r \in Runs, NEW t \in Sessions, Branched(s, r, t)
  PROVE  OnlyLatestTurnPending'
<1> SUFFICES ASSUME NEW q \in Runs, Unfinished(q)' PROVE session'[SessionOf[q]].run = q
  BY DEF OnlyLatestTurnPending
<1>1. Unfinished(q)
  BY DEF Branched, Unfinished
<1>2. SessionOf[q] # t
  BY <1>1 DEF ConvInv, TurnsFit, RunsHaveSessions, Unfinished, Branched
<1>3. QED
  BY <1>1, <1>2, SessionOfType DEF Branched, ConvInv, OnlyLatestTurnPending

LEMMA LatestAfterRetry ==
  ASSUME ConvInv, NEW s \in Sessions, NEW r \in Runs, NEW n \in Runs, Retried(s, r, n)
  PROVE  OnlyLatestTurnPending'
<1> SUFFICES ASSUME NEW q \in Runs, Unfinished(q)' PROVE session'[SessionOf[q]].run = q
  BY DEF OnlyLatestTurnPending
<1>1. CASE q = n
  BY <1>1, SessionOfType DEF Retried
<1>2. CASE q # n
  <2>1. Unfinished(q)
    BY <1>2 DEF Retried, Unfinished
  <2>2. SessionOf[q] # s
    BY <2>1, AtRest DEF Retried, Changeable
  <2>3. QED
    BY <2>1, <2>2, SessionOfType DEF Retried, ConvInv, OnlyLatestTurnPending
<1>3. QED
  BY <1>1, <1>2

LEMMA LeasesKept ==
  ASSUME LeasesFit, UNCHANGED <<lease, grants>>, \A q \in Runs : Unfinished(q) => Unfinished(q)'
  PROVE  LeasesFit'
BY DEF LeasesFit

LEMMA LeasesAfterTurn ==
  ASSUME ConvInv, NEW r \in Runs, UNCHANGED <<lease, grants>>,
         \A q \in Runs : status'[q] = IF q = r THEN "queued" ELSE status[q]
  PROVE  LeasesFit'
<1>1. \A q \in Runs : Unfinished(q) => Unfinished(q)'
  BY DEF Unfinished, Terminal
<1>2. QED
  BY <1>1, LeasesKept DEF ConvInv

LEMMA LeasesAfterClaim ==
  ASSUME ConvInv, NEW r \in Runs, NEW w \in Workers, Claim(r, w) PROVE LeasesFit'
<1>0. TypeOK /\ ConvTypeOK
  BY DEF ConvInv
<1> DEFINE n == Len(grants) + 1
<1>1. BeginRun(r, w)
  BY DEF Claim
<1>2. /\ Unfinished(r) /\ status'[r] \in Active
      /\ \A q \in Runs : q # r => status'[q] = status[q] /\ lease'[q] = lease[q]
      /\ lease'[r] = [id |-> n, live |-> TRUE]
      /\ grants' = Append(grants, [run |-> r, holder |-> w])
  BY <1>0, <1>1, BeginEffect DEF Claimable
<1>3. Len(grants) \in Nat /\ Len(grants') = n /\ \A j \in 1..Len(grants) : grants'[j] = grants[j]
  BY <1>0, <1>2, RowTypes, AppendProperties DEF Grant
<1>4. ASSUME NEW q \in Runs, lease'[q].live
      PROVE  /\ Unfinished(q)'
             /\ \A j \in 1..Len(grants') :
                   SessionOf[grants'[j].run] = SessionOf[q] => j <= lease'[q].id
  <2>1. CASE q = r
    <3>1. lease'[q].id = n /\ status'[q] \in Active
      BY <1>2, <2>1
    <3>2. Unfinished(q)'
      BY <3>1 DEF Unfinished, Active, Terminal
    <3>3. \A j \in 1..Len(grants') : j <= lease'[q].id
      BY <1>3, <3>1
    <3>4. QED
      BY <3>2, <3>3
  <2>2. CASE q # r
    <3>1. lease'[q] = lease[q] /\ status'[q] = status[q]
      BY <1>2, <2>2
    <3>2. /\ Unfinished(q)
          /\ \A j \in 1..Len(grants) : SessionOf[grants[j].run] = SessionOf[q] => j <= lease[q].id
      BY <1>4, <3>1 DEF ConvInv, LeasesFit
    <3>3. SessionOf[q] # SessionOf[r]
      BY <1>2, <2>2, <3>2 DEF ConvInv, OnlyLatestTurnPending
    <3>4. grants'[n].run = r
      BY <1>0, <1>2, RowTypes, AppendProperties DEF Grant
    <3>5. \A j \in 1..Len(grants') : j = n \/ j \in 1..Len(grants)
      BY <1>3
    <3>6. QED
      BY <1>3, <3>1, <3>2, <3>3, <3>4, <3>5 DEF Unfinished
  <2>3. QED
    BY <2>1, <2>2
<1>5. QED
  BY <1>4 DEF LeasesFit

LEMMA LeasesAfterLapse ==
  ASSUME ConvInv, NEW r \in Runs, Lapse(r) PROVE LeasesFit'
<1>1. /\ \A q \in Runs : lease'[q].live => lease'[q] = lease[q]
      /\ UNCHANGED <<grants, status>>
  BY RowTypes DEF ConvInv, Lapse, LeaseLapses, Lease
<1>2. QED
  BY <1>1 DEF ConvInv, LeasesFit, Unfinished

LEMMA LeasesAfterEnd ==
  ASSUME ConvInv, NEW id \in 1..MaxLeases, NEW o \in Outcome, End(id, o) PROVE LeasesFit'
<1>0. TypeOK /\ ConvTypeOK
  BY DEF ConvInv
<1>1. id \in 1..Len(grants) /\ FinishRun(id, o)
  BY <1>0, RowTypes DEF End
<1> PICK r \in Runs : r = grants[id].run
  BY <1>0, <1>1, GrantOf
<1>2. /\ \A q \in Runs : q # r => status'[q] = status[q] /\ lease'[q] = lease[q]
      /\ lease'[r] = LeaseAfterFinish(id)
      /\ status'[r] = status[r] \/ EndsRun(id)
      /\ UNCHANGED grants
  BY <1>0, <1>1, FinishEffect
<1>3. \A q \in Runs : lease'[q].live => lease'[q] = lease[q] /\ status'[q] = status[q]
  BY <1>2 DEF EndsRun, LeaseAfterFinish, NoLease
<1>4. QED
  BY <1>2, <1>3 DEF ConvInv, LeasesFit, Unfinished

-----------------------------------------------------------------------------


LEMMA ShowsKept ==
  ASSUME NEW h \in Seq(Runs), NEW s, NEW q, NEW st, NEW st2, Shows(h, s, q, st),
         \A i \in 1..Len(h) : /\ st[h[i]] # "absent" => st2[h[i]] # "absent"
                              /\ st[h[i]] \in Terminal => st2[h[i]] \in Terminal
  PROVE  Shows(h, s, q, st2)
BY DEF Shows

\* One more turn.
LEMMA ShowsMore ==
  ASSUME NEW h \in Seq(Runs), NEW s, NEW q, NEW st, NEW st2, Shows(h, s, q, st),
         NEW r \in Runs, SessionOf[r] = s, st2[r] # "absent",
         \A i \in 1..Len(h) : h[i] # r /\ st2[h[i]] = st[h[i]]
  PROVE  Shows(Append(h, r), s, r, st2)
<1> DEFINE g == Append(h, r)
<1>1. /\ Len(h) \in Nat /\ g # <<>> /\ Len(g) = Len(h) + 1 /\ g[Len(g)] = r
      /\ \A i \in 1..Len(h) : g[i] = h[i]
  BY AppendProperties, LenProperties
<1>2. \A i \in 1..Len(g) : i \in 1..Len(h) \/ i = Len(g)
  BY <1>1
<1> HIDE DEF g
<1>3. ASSUME NEW i \in 1..Len(g), NEW j \in 1..Len(g), g[i] = g[j] PROVE i = j
  <2>1. \A k \in 1..Len(h) : g[k] = h[k] /\ h[k] # r
    BY <1>1
  <2>2. i \in 1..Len(h) /\ j \in 1..Len(h) => i = j
    BY <1>3, <2>1 DEF Shows
  <2>3. QED
    BY <1>1, <1>2, <1>3, <2>1, <2>2
<1>4. ASSUME NEW i \in 1..Len(g)
      PROVE  /\ st2[g[i]] # "absent"
             /\ ProjectOf[SessionOf[g[i]]] = ProjectOf[s]
             /\ SessionOf[g[i]] # s => st2[g[i]] \in Terminal
  <2>1. CASE i \in 1..Len(h)
    BY <1>1, <2>1 DEF Shows
  <2>2. CASE i = Len(g)
    BY <1>1, <2>2
  <2>3. QED
    BY <1>2, <2>1, <2>2
<1>5. Last(g) = r
  BY <1>1 DEF Last
<1>6. Shows(g, s, r, st2)
  BY <1>1, <1>3, <1>4, <1>5 DEF Shows
<1>7. QED
  BY <1>6 DEF g

\* The first turns, in the same conversation or a branch of it.
LEMMA ShowsFirst ==
  ASSUME NEW h \in Seq(Runs), NEW s, NEW q, NEW st, Shows(h, s, q, st),
         NEW k \in Int, 0 <= k, k <= Len(h), NEW t, ProjectOf[t] = ProjectOf[s],
         t = s \/ \A i \in 1..k : st[h[i]] \in Terminal,
         NEW r, r = None \/ (k # 0 /\ h[k] = r)
  PROVE  Shows(SubSeq(h, 1, k), t, r, st)
<1> DEFINE g == SubSeq(h, 1, k)
<1>1. g \in Seq(Runs) /\ Len(g) = k /\ (\A i \in 1..k : g[i] = h[i] /\ i \in 1..Len(h))
  BY PrefixIs, LenProperties
<1> HIDE DEF g
<1>2. k # 0 => g # <<>> /\ Last(g) = h[k]
  BY <1>1, EmptySeq DEF Last
<1>3. \A i, j \in 1..Len(g) : g[i] = g[j] => i = j
  BY <1>1 DEF Shows
<1>4. ASSUME NEW i \in 1..Len(g)
      PROVE  /\ st[g[i]] # "absent"
             /\ ProjectOf[SessionOf[g[i]]] = ProjectOf[t]
             /\ SessionOf[g[i]] # t => st[g[i]] \in Terminal
  <2>1. g[i] = h[i] /\ i \in 1..Len(h) /\ i \in 1..k
    BY <1>1
  <2>2. QED
    BY <2>1 DEF Shows
<1>5. Shows(g, t, r, st)
  BY <1>2, <1>3, <1>4 DEF Shows
<1>6. QED
  BY <1>5 DEF g

LEMMA TurnsKept ==
  ASSUME ConvInv, \A t \in Sessions : session'[t].run = session[t].run,
         \A q \in Runs : /\ status'[q] = "absent" <=> status[q] = "absent"
                         /\ Unfinished(q)' => Unfinished(q),
         UNCHANGED <<history, archived, rewritten>>,
         \A s \in Sessions : head'[s].isolated => head[s].isolated \/ Exists(s)
  PROVE  TurnsFit'
<1>1. \A s \in Sessions : Exists(s)' <=> Exists(s)
  BY DEF Exists
<1>2. RunsHaveSessions'
  BY <1>1, SessionOfType DEF ConvInv, TurnsFit, RunsHaveSessions
<1>3. ASSUME NEW s \in Sessions PROVE ~Exists(s)' => Blank(s)'
  BY <1>1 DEF ConvInv, TurnsFit, Blank
<1>4. ASSUME NEW s \in Sessions PROVE ShowsTurns(s)'
  <2>1. Shows(history[s], s, session[s].run, status)
    BY DEF ConvInv, TurnsFit, ShowsTurns
  <2>2. history[s] \in Seq(Runs) /\ \A i \in 1..Len(history[s]) : history[s][i] \in Runs
    BY RowTypes DEF ConvInv
  <2>3. \A q \in Runs : status[q] \in Terminal => status'[q] \in Terminal
    BY DEF Unfinished, Terminal
  <2>4. Shows(history[s], s, session[s].run, status')
    BY <2>1, <2>2, <2>3, ShowsKept
  <2>5. QED
    BY <2>4 DEF ShowsTurns
<1>5. QED
  BY <1>2, <1>3, <1>4 DEF ConvInv, TurnsFit

LEMMA TurnsAfterUpdate ==
  ASSUME ConvInv, NEW s \in Sessions, NEW on \in BOOLEAN, UpdateConversation(s, on) PROVE TurnsFit'
<1>1. /\ Exists(s) /\ (on => Archivable(s))
      /\ archived' = [archived EXCEPT ![s] = on]
      /\ UNCHANGED <<status, session, history, head, rewritten>>
  BY DEF UpdateConversation, vars
<1>2. archived \in [Sessions -> BOOLEAN]
  BY DEF ConvInv, ConvTypeOK
<1>3. RunsHaveSessions'
  BY <1>1 DEF ConvInv, TurnsFit, RunsHaveSessions, Exists
<1>4. ASSUME NEW t \in Sessions PROVE (~Exists(t)' => Blank(t)') /\ ShowsTurns(t)'
  BY <1>1, <1>2 DEF ConvInv, TurnsFit, Blank, ShowsTurns, Exists
<1>5. ASSUME NEW r \in Runs, archived'[SessionOf[r]] PROVE ~Unfinished(r)'
  <2>1. CASE SessionOf[r] = s
    BY <1>1, <1>2, <1>5, <2>1 DEF Archivable, Unfinished
  <2>2. CASE SessionOf[r] # s
    BY <1>1, <1>2, <1>5, <2>2, SessionOfType DEF ConvInv, TurnsFit, Unfinished
  <2>3. QED
    BY <2>1, <2>2
<1>6. QED
  BY <1>3, <1>4, <1>5 DEF TurnsFit

\* A run that is yet to come is in no conversation.
LEMMA NewRunIsUnseen ==
  ASSUME ConvInv, NEW r \in Runs, status[r] = "absent"
  PROVE  /\ \A s \in Sessions : \A i \in 1..Len(history[s]) : history[s][i] # r
         /\ boundary[r] = 0 /\ final[r] = 0 /\ r \notin Prepared
BY DEF ConvInv, TurnsFit, ShowsTurns, Shows, CheckpointsFit, Prepared

\* The conversations that a new run of another one leaves alone.
LEMMA OthersShow ==
  ASSUME ConvInv, NEW t \in Sessions, history'[t] = history[t], session'[t].run = session[t].run,
         NEW r \in Runs, status[r] = "absent",
         \A q \in Runs : status'[q] = IF q = r THEN "queued" ELSE status[q]
  PROVE  ShowsTurns(t)'
<1>1. Shows(history[t], t, session[t].run, status)
  BY DEF ConvInv, TurnsFit, ShowsTurns
<1>2. /\ history[t] \in Seq(Runs)
      /\ \A i \in 1..Len(history[t]) : history[t][i] \in Runs /\ history[t][i] # r
  BY RowTypes, NewRunIsUnseen DEF ConvInv
<1>3. Shows(history[t], t, session[t].run, status')
  BY <1>1, <1>2, ShowsKept
<1>4. QED
  BY <1>3 DEF ShowsTurns

LEMMA TurnsAfterTurn == ASSUME ConvInv, NEW r \in Runs, NewTurn(r) PROVE TurnsFit'
<1> DEFINE s == SessionOf[r]
           h == history[s]
<1>0. TypeOK /\ ConvTypeOK /\ TurnsFit
  BY DEF ConvInv
<1>1. s \in Sessions /\ h \in Seq(Runs) /\ r # None
  BY <1>0, RowTypes, NoneIsNoValue
<1>2. /\ \A t \in Sessions : t # s => Exists(t)' = Exists(t) /\ history'[t] = history[t]
                                      /\ session'[t].run = session[t].run
      /\ Exists(s)' /\ session'[s].run = r
      /\ history'[s] = Append(h, r)
      /\ status[r] = "absent"
      /\ \A q \in Runs : status'[q] = IF q = r THEN "queued" ELSE status[q]
      /\ UNCHANGED <<archived, head, rewritten>>
  BY <1>1 DEF NewTurn, Exists
<1>3. RunsHaveSessions'
  BY <1>0, <1>1, <1>2, SessionOfType DEF TurnsFit, RunsHaveSessions
<1>4. ASSUME NEW t \in Sessions PROVE ~Exists(t)' => Blank(t)'
  BY <1>0, <1>2 DEF TurnsFit, Blank
<1>5. ShowsTurns(s)'
  <2>1. Shows(h, s, session[s].run, status)
    BY <1>0, <1>1 DEF TurnsFit, ShowsTurns
  <2>2. \A i \in 1..Len(h) : h[i] # r /\ h[i] \in Runs
    BY <1>0, <1>1, <1>2, RowTypes, NewRunIsUnseen
  <2>3. Shows(Append(h, r), s, r, status')
    BY <1>1, <1>2, <2>1, <2>2, ShowsMore
  <2>4. QED
    BY <1>2, <2>3 DEF ShowsTurns
<1>6. \A t \in Sessions : t # s => ShowsTurns(t)'
  BY <1>2, OthersShow
<1>7. ASSUME NEW q \in Runs, archived'[SessionOf[q]] PROVE ~Unfinished(q)'
  BY <1>0, <1>2, <1>7 DEF TurnsFit, NewTurn, Unfinished
<1>8. QED
  BY <1>3, <1>4, <1>5, <1>6, <1>7 DEF TurnsFit

\* A branch or a retry isolates and marks only conversations that exist.
LEMMA PinnedExist ==
  ASSUME ConvInv, NEW p, NEW u \in Sessions
  PROVE  /\ Pinned(p)[u].isolated => head[u].isolated \/ Exists(u)
         /\ u \in RewrittenBy(p) => Exists(u)
         /\ Exists(u) /\ ProjectOf[u] = p => Pinned(p)[u].isolated
BY DEF Pinned, RewrittenBy

LEMMA TurnsAfterBranch ==
  ASSUME ConvInv, NEW s \in Sessions, NEW r \in Runs, NEW t \in Sessions, Branched(s, r, t)
  PROVE  TurnsFit'
<1> DEFINE p == ProjectOf[s]
           k == Position(s, r)
           h == history[s]
<1>0. TypeOK /\ ConvTypeOK /\ TurnsFit
  BY DEF ConvInv
<1>1. /\ h \in Seq(Runs) /\ Len(h) \in Nat /\ k \in 1..Len(h) /\ h[k] = r /\ r # None
      /\ \A i \in 1..Len(h) : h[i] \in Runs
  BY <1>0, RowTypes, PositionIs, NoneIsNoValue DEF Branched
<1>2. /\ \A u \in Sessions : u # t => /\ Exists(u)' = Exists(u) /\ history'[u] = history[u]
                                      /\ session'[u].run = session[u].run
                                      /\ head'[u] = Pinned(p)[u]
      /\ Exists(t)' /\ session'[t].run = r /\ history'[t] = SubSeq(h, 1, k)
      /\ rewritten' = rewritten \cup RewrittenBy(p)
      /\ UNCHANGED <<status, archived>>
  BY <1>1 DEF Branched, Exists
<1>3. RunsHaveSessions'
  BY <1>0, <1>2, SessionOfType DEF TurnsFit, RunsHaveSessions
<1>4. ASSUME NEW u \in Sessions PROVE ~Exists(u)' => Blank(u)'
  BY <1>0, <1>2, PinnedExist DEF TurnsFit, Blank
<1>5. ShowsTurns(t)'
  <2>1. Shows(h, s, session[s].run, status)
    BY <1>0 DEF TurnsFit, ShowsTurns
  <2>2. \A i \in 1..k : status[h[i]] \in Terminal
    <3>1. \A i \in 1..Len(h) : status[h[i]] # "absent" /\ ProjectOf[SessionOf[h[i]]] = p
      BY <2>1 DEF Shows
    <3>2. \A i \in 1..Len(h) : ~Unfinished(h[i])
      BY <1>1, <3>1, AtRest DEF Branched, Changeable
    <3>3. QED
      BY <1>1, <3>1, <3>2 DEF Unfinished
  <2>3. ProjectOf[t] = ProjectOf[s]
    BY DEF Branched
  <2>4. k # 0 /\ k \in Int /\ 0 <= k /\ k <= Len(h)
    BY <1>1
  <2>5. Shows(SubSeq(h, 1, k), t, r, status)
    BY <1>1, <2>1, <2>2, <2>3, <2>4, ShowsFirst
  <2>6. QED
    BY <1>2, <2>5 DEF ShowsTurns
<1>6. \A u \in Sessions : u # t => ShowsTurns(u)'
  BY <1>0, <1>2 DEF TurnsFit, ShowsTurns
<1>7. \A q \in Runs : archived'[SessionOf[q]] => ~Unfinished(q)'
  BY <1>0, <1>2 DEF TurnsFit, Unfinished
<1>8. QED
  BY <1>3, <1>4, <1>5, <1>6, <1>7 DEF TurnsFit

LEMMA TurnsAfterRetry ==
  ASSUME ConvInv, NEW s \in Sessions, NEW r \in Runs, NEW n \in Runs, Retried(s, r, n)
  PROVE  TurnsFit'
<1> DEFINE p == ProjectOf[s]
           k == Position(s, r) - 1
           h == history[s]
           f == SubSeq(h, 1, k)
<1>0. TypeOK /\ ConvTypeOK /\ TurnsFit
  BY DEF ConvInv
<1>1. /\ h \in Seq(Runs) /\ Len(h) \in Nat /\ k \in 0..Len(h) /\ n # None
      /\ \A i \in 1..Len(h) : h[i] \in Runs
  BY <1>0, RowTypes, PositionIs, NoneIsNoValue DEF Retried
<1>2. /\ \A u \in Sessions : u # s => /\ Exists(u)' = Exists(u) /\ history'[u] = history[u]
                                      /\ session'[u].run = session[u].run
                                      /\ head'[u] = Pinned(p)[u]
      /\ Exists(s)' /\ session'[s].run = n /\ history'[s] = Append(f, n) /\ Exists(s)
      /\ SessionOf[n] = s /\ status[n] = "absent"
      /\ \A q \in Runs : status'[q] = IF q = n THEN "queued" ELSE status[q]
      /\ rewritten' = rewritten \cup RewrittenBy(p)
      /\ UNCHANGED archived /\ ~archived[s]
  BY <1>1 DEF Retried, Exists, Changeable
<1>3. RunsHaveSessions'
  <2>1. RunsHaveSessions
    BY <1>0 DEF TurnsFit
  <2>2. \A q \in Runs : status'[q] # "absent" => q = n \/ status[q] # "absent"
    BY <1>2
  <2>3. \A u \in Sessions : Exists(u) => Exists(u)'
    BY <1>2
  <2>4. QED
    BY <1>2, <2>1, <2>2, <2>3, SessionOfType DEF RunsHaveSessions
<1>4. ASSUME NEW u \in Sessions PROVE ~Exists(u)' => Blank(u)'
  BY <1>0, <1>2, PinnedExist DEF TurnsFit, Blank
<1>5. ShowsTurns(s)'
  <2>1. Shows(h, s, session[s].run, status)
    BY <1>0 DEF TurnsFit, ShowsTurns
  <2>2. k \in Int /\ 0 <= k /\ k <= Len(h)
    BY <1>1
  <2>3. Shows(f, s, None, status)
    BY <1>1, <2>1, <2>2, ShowsFirst
  <2>4. f \in Seq(Runs) /\ \A i \in 1..Len(f) : f[i] # n /\ f[i] \in Runs
    BY <1>1, <1>2, <2>2, PrefixIs, NewRunIsUnseen
  <2> HIDE DEF f
  <2>5. Shows(Append(f, n), s, n, status')
    BY <1>2, <2>3, <2>4, ShowsMore
  <2>6. QED
    BY <1>2, <2>5 DEF ShowsTurns
<1>6. \A u \in Sessions : u # s => ShowsTurns(u)'
  BY <1>2, OthersShow
<1>7. ASSUME NEW q \in Runs, archived'[SessionOf[q]] PROVE ~Unfinished(q)'
  <2>1. archived[SessionOf[q]] /\ q # n
    BY <1>2, <1>7
  <2>2. status'[q] = status[q] /\ ~Unfinished(q)
    BY <1>0, <1>2, <2>1 DEF TurnsFit
  <2>3. QED
    BY <2>2 DEF Unfinished
<1>8. QED
  BY <1>3, <1>4, <1>5, <1>6, <1>7 DEF TurnsFit

-----------------------------------------------------------------------------
(* Checkpoints and files *)

LEMMA StoreGrows ==
  ASSUME TypeOK, ConvTypeOK, NEW p \in Projects, NEW store, Stores(p, store)
  PROVE  /\ \A q \in Projects : Extends(saved'[q], saved[q])
         /\ \A q \in Projects : saved'[q] = saved[q] \/ saved'[q] \in Seq(SUBSET Prepared')
         /\ saved'[p] = store
<1>1. saved \in [Projects -> Seq(SUBSET Runs)]
  BY DEF ConvTypeOK
<1>2. \A q \in Projects : saved'[q] = IF q = p THEN store ELSE saved[q]
  BY <1>1 DEF Stores
<1>3. \A q \in Projects : Extends(saved[q], saved[q])
  BY RowTypes DEF Extends
<1>4. QED
  BY <1>2, <1>3 DEF Stores

LEMMA NothingStored ==
  ASSUME TypeOK, ConvTypeOK, UNCHANGED saved
  PROVE  \A q \in Projects : Extends(saved'[q], saved[q])
BY RowTypes DEF Extends

LEMMA SameGrants == ASSUME TypeOK, ConvTypeOK, UNCHANGED grants PROVE Extends(grants', grants)
BY RowTypes DEF Extends

LEMMA CheckpointsKept ==
  ASSUME ConvInv,
         \A q \in Projects : Len(saved'[q]) \in Nat /\ Extends(saved'[q], saved[q]),
         Len(grants') \in Nat, Extends(grants', grants),
         \A s \in Sessions :
            /\ \/ head'[s] = head[s]
               \/ head'[s].isolated /\ head'[s].cp \in 1..Len(saved'[ProjectOf[s]])
            /\ s \in rewritten' => s \in rewritten \/ head'[s].isolated,
         \A r \in Runs :
            /\ status'[r] = "absent" => status[r] = "absent"
            /\ \/ boundary'[r] = boundary[r]
               \/ status'[r] # "absent" /\ boundary'[r] \in 1..Len(saved'[ProjectOfRun(r)])
            /\ \/ final'[r] = final[r]
               \/ status'[r] # "absent" /\ final'[r] \in 1..Len(saved'[ProjectOfRun(r)]),
         \A id \in 1..MaxLeases : work'[id].pc \in HasSnapshot =>
            \/ work'[id] = work[id]
            \/ LET p == ProjectOf[SessionOfLease(id)] IN
               /\ id \in 1..Len(grants) /\ work'[id].cp \in 1..Len(saved'[p])
               /\ saved'[p][work'[id].cp] = work'[id].files
  PROVE  CheckpointsFit'
<1>0. TypeOK /\ ConvTypeOK /\ CheckpointsFit
  BY DEF ConvInv
<1>1. ASSUME NEW p \in Projects, NEW cp, Stored(p, cp) PROVE cp \in 0..Len(saved'[p])
  BY <1>0, <1>1, RowTypes DEF Stored, Extends
<1>2. ASSUME NEW s \in Sessions
      PROVE  /\ head'[s].cp \in 0..Len(saved'[ProjectOf[s]])
             /\ head'[s].isolated => head'[s].cp # 0
             /\ s \in rewritten' => head'[s].isolated
  <2>1. ProjectOf[s] \in Projects
    BY <1>0, RowTypes
  <2>2. CASE head'[s] = head[s]
    BY <1>0, <1>1, <2>1, <2>2 DEF CheckpointsFit
  <2>3. CASE head'[s].isolated /\ head'[s].cp \in 1..Len(saved'[ProjectOf[s]])
    BY <2>1, <2>3
  <2>4. QED
    BY <2>2, <2>3
<1>3. ASSUME NEW r \in Runs
      PROVE  /\ boundary'[r] \in 0..Len(saved'[ProjectOfRun(r)])
             /\ final'[r] \in 0..Len(saved'[ProjectOfRun(r)])
             /\ status'[r] = "absent" => boundary'[r] = 0 /\ final'[r] = 0
  <2>1. ProjectOfRun(r) \in Projects
    BY <1>0, RowTypes
  <2>2. /\ Stored(ProjectOfRun(r), boundary[r]) /\ Stored(ProjectOfRun(r), final[r])
        /\ status[r] = "absent" => boundary[r] = 0 /\ final[r] = 0
    BY <1>0 DEF CheckpointsFit
  <2>3. boundary'[r] \in 0..Len(saved'[ProjectOfRun(r)])
    BY <1>1, <2>1, <2>2
  <2>4. final'[r] \in 0..Len(saved'[ProjectOfRun(r)])
    BY <1>1, <2>1, <2>2
  <2>5. QED
    BY <2>2, <2>3, <2>4
<1>4. ASSUME NEW id \in 1..MaxLeases, work'[id].pc \in HasSnapshot,
             NEW p, p = ProjectOf[SessionOf[grants'[id].run]]
      PROVE  /\ id \in 1..Len(grants')
             /\ work'[id].cp \in 1..Len(saved'[p])
             /\ saved'[p][work'[id].cp] = work'[id].files
  <2> DEFINE q == ProjectOf[SessionOfLease(id)]
  <2>1. /\ id \in 1..Len(grants)
        /\ \/ work'[id] = work[id] /\ work[id].cp \in 1..Len(saved[q])
              /\ saved[q][work[id].cp] = work[id].files
           \/ work'[id].cp \in 1..Len(saved'[q]) /\ saved'[q][work'[id].cp] = work'[id].files
    BY <1>0, <1>4 DEF CheckpointsFit
  <2>2. p = q /\ id \in 1..Len(grants')
    <3>1. Len(grants) \in Nat /\ id \in 1..Len(grants)
      BY <1>0, <2>1, RowTypes
    <3>2. id \in 1..Len(grants') /\ grants'[id] = grants[id]
      BY <3>1 DEF Extends
    <3>3. QED
      BY <1>4, <3>2 DEF SessionOfLease, RunOf
  <2>3. q \in Projects
    BY <1>0, <2>1, AttemptRun
  <2>4. Len(saved[q]) \in Nat /\ Extends(saved'[q], saved[q]) /\ Len(saved'[q]) \in Nat
    BY <1>0, <2>3, RowTypes
  <2> HIDE DEF q
  <2>5. QED
    BY <2>1, <2>2, <2>4 DEF Extends
<1>5. QED
  BY <1>2, <1>3, <1>4 DEF CheckpointsFit, Stored, ProjectOfRun, SessionOfLease, RunOf

LEMMA FilesKept ==
  ASSUME ConvInv, Prepared \subseteq Prepared',
         \A q \in Projects : saved'[q] = saved[q] \/ saved'[q] \in Seq(SUBSET Prepared'),
         \A id \in 1..MaxLeases : work'[id].files = work[id].files \/ work'[id].files \subseteq Prepared'
  PROVE  FilesFit'
<1>1. ASSUME NEW q \in Projects, NEW k \in 1..Len(saved'[q]) PROVE saved'[q][k] \subseteq Prepared'
  <2>1. CASE saved'[q] = saved[q]
    BY <1>1, <2>1 DEF ConvInv, FilesFit
  <2>2. CASE saved'[q] \in Seq(SUBSET Prepared')
    BY <1>1, <2>2, ElementOfSeq
  <2>3. QED
    BY <2>1, <2>2
<1>2. QED
  BY <1>1 DEF ConvInv, FilesFit

LEMMA CheckpointsAfterMove ==
  ASSUME ConvInv, UNCHANGED <<head, saved, boundary, final, work, rewritten>>,
         \A q \in Runs : status'[q] = "absent" => status[q] = "absent",
         Len(grants') \in Nat, Extends(grants', grants)
  PROVE  CheckpointsFit' /\ FilesFit'
<1>0. TypeOK /\ ConvTypeOK
  BY DEF ConvInv
<1>1. \A q \in Projects : Len(saved'[q]) \in Nat /\ Extends(saved'[q], saved[q])
  BY <1>0, RowTypes, NothingStored
<1>2. CheckpointsFit'
  BY <1>1, CheckpointsKept
<1>3. Prepared' = Prepared
  BY DEF Prepared
<1>4. QED
  BY <1>2, <1>3, FilesKept

LEMMA StoreLen ==
  ASSUME TypeOK, ConvTypeOK, NEW p \in Projects, NEW store, Stores(p, store)
  PROVE  \A q \in Projects : Len(saved'[q]) \in Nat /\ Extends(saved'[q], saved[q])
BY StoreGrows, RowTypes, LenProperties

LEMMA CheckpointsAfterRestore ==
  ASSUME ConvInv, NEW s \in Sessions, NEW cp, Restored(s, cp) PROVE CheckpointsFit' /\ FilesFit'
<1> DEFINE p == ProjectOf[s]
<1>0. TypeOK /\ ConvTypeOK /\ p \in Projects
  BY RowTypes DEF ConvInv
<1>1. PICK store : Stores(p, store)
  BY DEF Restored
<1>2. \A q \in Projects : Len(saved'[q]) \in Nat /\ Extends(saved'[q], saved[q])
  BY <1>0, <1>1, StoreLen
<1>3. /\ UNCHANGED <<status, grants, boundary, final, work, rewritten>>
      /\ Len(grants') \in Nat /\ Extends(grants', grants)
  BY <1>0, RowTypes, SameGrants DEF Restored, vars
<1>4. \A u \in Sessions : \/ head'[u] = head[u]
                          \/ head'[u].isolated /\ head'[u].cp \in 1..Len(saved'[ProjectOf[u]])
  BY DEF Restored
<1>5. CheckpointsFit'
  BY <1>2, <1>3, <1>4, CheckpointsKept
<1>6. Prepared' = Prepared
  BY <1>3 DEF Prepared
<1>7. \A q \in Projects : saved'[q] = saved[q] \/ saved'[q] \in Seq(SUBSET Prepared')
  BY <1>0, <1>1, StoreGrows
<1>8. FilesFit'
  BY <1>3, <1>6, <1>7, FilesKept
<1>9. QED
  BY <1>5, <1>8

\* A project with a run that was prepared or published has checkpoints, which a branch or
\* a retry pins the others to.
LEMMA PinnedStored ==
  ASSUME ConvInv, NEW r \in Runs, NEW cp, cp # 0, cp = boundary[r] \/ cp = final[r],
         NEW p, p = ProjectOfRun(r), NEW u \in Sessions
  PROVE  /\ cp \in 1..Len(saved[p])
         /\ \/ Pinned(p)[u] = head[u]
            \/ Pinned(p)[u].isolated /\ Pinned(p)[u].cp \in 1..Len(saved[ProjectOf[u]])
<1>1. p \in Projects /\ Len(saved[p]) \in Nat
  BY RowTypes DEF ConvInv
<1>2. cp \in 0..Len(saved[p])
  BY DEF ConvInv, CheckpointsFit, Stored
<1>3. cp \in 1..Len(saved[p]) /\ Latest(p) \in 1..Len(saved[p])
  BY <1>1, <1>2 DEF Latest
<1>4. QED
  BY <1>3 DEF Pinned

LEMMA CheckpointsAfterBranch ==
  ASSUME ConvInv, NEW s \in Sessions, NEW r \in Runs, NEW t \in Sessions, Branched(s, r, t)
  PROVE  CheckpointsFit' /\ FilesFit'
<1> DEFINE p == ProjectOf[s]
<1>0. TypeOK /\ ConvTypeOK /\ p \in Projects
  BY RowTypes DEF ConvInv
<1>1. p = ProjectOfRun(r)
  <2>1. \E i \in 1..Len(history[s]) : history[s][i] = r
    BY <1>0, RowTypes DEF Branched, Changeable
  <2>2. QED
    BY <2>1 DEF ConvInv, TurnsFit, ShowsTurns, Shows, ProjectOfRun
<1>2. /\ \A q \in Projects : Len(saved'[q]) \in Nat /\ Extends(saved'[q], saved[q])
      /\ UNCHANGED <<saved, status, grants, boundary, final, work>>
      /\ Len(grants') \in Nat /\ Extends(grants', grants)
  BY <1>0, RowTypes, SameGrants, NothingStored DEF Branched
<1>3. ASSUME NEW u \in Sessions
      PROVE  /\ \/ head'[u] = head[u]
                \/ head'[u].isolated /\ head'[u].cp \in 1..Len(saved'[ProjectOf[u]])
             /\ u \in rewritten' => u \in rewritten \/ head'[u].isolated
  <2>1. final[r] \in 1..Len(saved[p])
    BY <1>1, PinnedStored DEF Branched
  <2>2. CASE u = t
    BY <1>2, <2>1, <2>2 DEF Branched
  <2>3. CASE u # t
    <3>1. /\ head'[u] = Pinned(p)[u] /\ rewritten' = rewritten \cup RewrittenBy(p)
          /\ final[r] # 0
      BY <2>3 DEF Branched
    <3>2. \/ Pinned(p)[u] = head[u]
          \/ Pinned(p)[u].isolated /\ Pinned(p)[u].cp \in 1..Len(saved[ProjectOf[u]])
      BY <1>1, <3>1, PinnedStored
    <3>3. u \in RewrittenBy(p) => Pinned(p)[u].isolated
      BY PinnedExist DEF RewrittenBy
    <3>4. QED
      BY <1>2, <3>1, <3>2, <3>3
  <2>4. QED
    BY <2>2, <2>3
<1>4. CheckpointsFit'
  BY <1>2, <1>3, CheckpointsKept
<1>5. Prepared' = Prepared
  BY <1>2 DEF Prepared
<1>6. FilesFit'
  BY <1>2, <1>5, FilesKept
<1>7. QED
  BY <1>4, <1>6

LEMMA CheckpointsAfterRetry ==
  ASSUME ConvInv, NEW s \in Sessions, NEW r \in Runs, NEW n \in Runs, Retried(s, r, n)
  PROVE  CheckpointsFit' /\ FilesFit'
<1> DEFINE p == ProjectOf[s]
<1>0. TypeOK /\ ConvTypeOK /\ p \in Projects
  BY RowTypes DEF ConvInv
<1>1. p = ProjectOfRun(r)
  <2>1. \E i \in 1..Len(history[s]) : history[s][i] = r
    BY <1>0, RowTypes DEF Retried, Changeable
  <2>2. QED
    BY <2>1 DEF ConvInv, TurnsFit, ShowsTurns, Shows, ProjectOfRun
<1>2. /\ \A q \in Projects : Len(saved'[q]) \in Nat /\ Extends(saved'[q], saved[q])
      /\ UNCHANGED <<saved, grants, boundary, final, work>>
      /\ \A q \in Runs : status'[q] = "absent" => status[q] = "absent"
      /\ Len(grants') \in Nat /\ Extends(grants', grants)
  BY <1>0, RowTypes, SameGrants, NothingStored DEF Retried
<1>3. ASSUME NEW u \in Sessions
      PROVE  /\ \/ head'[u] = head[u]
                \/ head'[u].isolated /\ head'[u].cp \in 1..Len(saved'[ProjectOf[u]])
             /\ u \in rewritten' => u \in rewritten \/ head'[u].isolated
  <2>1. boundary[r] \in 1..Len(saved[p])
    BY <1>1, PinnedStored DEF Retried
  <2>2. CASE u = s
    BY <1>2, <2>1, <2>2 DEF Retried
  <2>3. CASE u # s
    <3>1. /\ head'[u] = Pinned(p)[u] /\ rewritten' = rewritten \cup RewrittenBy(p)
          /\ boundary[r] # 0
      BY <2>3 DEF Retried
    <3>2. \/ Pinned(p)[u] = head[u]
          \/ Pinned(p)[u].isolated /\ Pinned(p)[u].cp \in 1..Len(saved[ProjectOf[u]])
      BY <1>1, <3>1, PinnedStored
    <3>3. u \in RewrittenBy(p) => Pinned(p)[u].isolated
      BY PinnedExist DEF RewrittenBy
    <3>4. QED
      BY <1>2, <3>1, <3>2, <3>3
  <2>4. QED
    BY <2>2, <2>3
<1>4. CheckpointsFit'
  BY <1>2, <1>3, CheckpointsKept
<1>5. Prepared' = Prepared
  BY <1>2 DEF Prepared
<1>6. FilesFit'
  BY <1>2, <1>5, FilesKept
<1>7. QED
  BY <1>4, <1>6

\* The run of an attempt that holds its lease is the last turn of its conversation, and no
\* other one shows it.
LEMMA AtWork ==
  ASSUME ConvInv, NEW id \in 1..Len(grants), HoldsLiveLease(id),
         NEW r \in Runs, r = RunOf(id), NEW s \in Sessions, s = SessionOfLease(id)
  PROVE  /\ Unfinished(r) /\ status[r] # "absent" /\ lease[r].live
         /\ SessionOf[r] = s /\ ProjectOfRun(r) = ProjectOf[s] /\ Exists(s)
         /\ Len(history[s]) \in 1..Len(history[s]) /\ history[s][Len(history[s])] = r
         /\ \A t \in Sessions : \A i \in 1..Len(history[t]) :
               history[t][i] = r => t = s /\ i = Len(history[t])
<1>0. TypeOK /\ ConvTypeOK
  BY DEF ConvInv
<1>1. lease[r] = [id |-> id, live |-> TRUE] /\ SessionOf[r] = s
  BY DEF HoldsLiveLease, RunOf, SessionOfLease
<1>2. lease[r].live /\ Unfinished(r) /\ status[r] # "absent"
  BY <1>1 DEF ConvInv, LeasesFit, Unfinished
<1>3. session[s].run = r /\ r # None /\ Exists(s)
  BY <1>1, <1>2, NoneIsNoValue DEF ConvInv, OnlyLatestTurnPending, Exists
<1>4. \A t \in Sessions : Shows(history[t], t, session[t].run, status)
  BY DEF ConvInv, TurnsFit, ShowsTurns
<1>5. history[s] # <<>> /\ history[s][Len(history[s])] = r
  BY <1>3, <1>4 DEF Shows, Last
<1>6. Len(history[s]) \in 1..Len(history[s])
  BY <1>0, <1>5, RowTypes, EmptySeq
<1>7. ASSUME NEW t \in Sessions, NEW i \in 1..Len(history[t]), history[t][i] = r
      PROVE  t = s /\ i = Len(history[t])
  <2>1. t = s
    BY <1>1, <1>2, <1>4, <1>7 DEF Shows, Unfinished
  <2>2. QED
    BY <1>4, <1>5, <1>6, <1>7, <2>1 DEF Shows
<1>8. QED
  BY <1>1, <1>2, <1>3, <1>5, <1>6, <1>7 DEF ProjectOfRun

LEMMA CheckpointsAfterPrepare ==
  ASSUME ConvInv, NEW id \in 1..MaxLeases, NEW base, PreparedFrom(id, base)
  PROVE  CheckpointsFit' /\ FilesFit'
<1> DEFINE s == SessionOfLease(id)
           p == ProjectOf[s]
           r == RunOf(id)
<1>0. TypeOK /\ ConvTypeOK /\ id \in 1..Len(grants) /\ HoldsLiveLease(id)
  BY DEF ConvInv, PreparedFrom
<1>1. s \in Sessions /\ r \in Runs /\ p \in Projects /\ p = ProjectOfRun(r)
  BY <1>0, AttemptRun
<1>2. status[r] # "absent"
  BY <1>0, <1>1, AtWork
<1>3. PICK store : Stores(p, store)
  BY DEF PreparedFrom
<1>4. \A q \in Projects : Len(saved'[q]) \in Nat /\ Extends(saved'[q], saved[q])
  BY <1>0, <1>1, <1>3, StoreLen
<1>5. /\ UNCHANGED <<status, grants, head, final, rewritten>>
      /\ Len(grants') \in Nat /\ Extends(grants', grants)
  BY <1>0, RowTypes, SameGrants DEF PreparedFrom, vars
<1>6. \A q \in Runs : boundary'[q] = IF q = r /\ boundary[r] = 0 THEN Len(saved'[p]) ELSE boundary[q]
  BY <1>0, <1>1 DEF PreparedFrom, ConvTypeOK
<1>7. \A j \in 1..MaxLeases :
        work'[j] = IF j = id THEN [pc |-> "ready", files |-> base \cup {r}, cp |-> 0] ELSE work[j]
  BY <1>0 DEF PreparedFrom, ConvTypeOK
<1>8. Len(saved'[p]) \in 1..Len(saved'[p])
  BY <1>1, <1>4 DEF PreparedFrom
<1> HIDE DEF r, p, s
<1>9. \A q \in Runs : \/ boundary'[q] = boundary[q]
                      \/ status'[q] # "absent" /\ boundary'[q] \in 1..Len(saved'[ProjectOfRun(q)])
  BY <1>1, <1>2, <1>5, <1>6, <1>8
<1>10. \A j \in 1..MaxLeases : work'[j].pc \in HasSnapshot => work'[j] = work[j]
  BY <1>7 DEF HasSnapshot
<1>11. CheckpointsFit'
  BY <1>4, <1>5, <1>9, <1>10, CheckpointsKept
<1>12. Prepared \subseteq Prepared' /\ r \in Prepared'
  BY <1>1, <1>6, <1>8 DEF Prepared
<1>13. \A q \in Projects : saved'[q] = saved[q] \/ saved'[q] \in Seq(SUBSET Prepared')
  BY <1>0, <1>1, <1>3, StoreGrows
<1>14. \A j \in 1..MaxLeases : work'[j].files = work[j].files \/ work'[j].files \subseteq Prepared'
  <2>1. base \subseteq Prepared
    BY DEF PreparedFrom
  <2>2. QED
    BY <1>7, <1>12, <2>1
<1>15. FilesFit'
  BY <1>12, <1>13, <1>14, FilesKept
<1>16. QED
  BY <1>11, <1>15

LEMMA CheckpointsAfterSave ==
  ASSUME ConvInv, NEW id \in 1..MaxLeases, SavedBy(id) PROVE CheckpointsFit' /\ FilesFit'
<1> DEFINE p == ProjectOf[SessionOfLease(id)]
<1>0. TypeOK /\ ConvTypeOK /\ id \in 1..Len(grants)
  BY DEF ConvInv, SavedBy
<1>1. p \in Projects
  BY <1>0, AttemptRun
<1>2. PICK store : Stores(p, store)
  BY DEF SavedBy
<1>3. \A q \in Projects : Len(saved'[q]) \in Nat /\ Extends(saved'[q], saved[q])
  BY <1>0, <1>1, <1>2, StoreLen
<1>4. /\ UNCHANGED <<status, grants, head, boundary, final, rewritten>>
      /\ Len(grants') \in Nat /\ Extends(grants', grants)
  BY <1>0, RowTypes, SameGrants DEF SavedBy, vars
<1>5. \A j \in 1..MaxLeases : work'[j].pc \in HasSnapshot =>
        \/ work'[j] = work[j]
        \/ /\ j = id /\ work'[j].cp \in 1..Len(saved'[p])
           /\ saved'[p][work'[j].cp] = work'[j].files
  BY DEF SavedBy
<1>6. CheckpointsFit'
  BY <1>0, <1>3, <1>4, <1>5, CheckpointsKept
<1>7. Prepared' = Prepared
  BY <1>4 DEF Prepared
<1>8. \A q \in Projects : saved'[q] = saved[q] \/ saved'[q] \in Seq(SUBSET Prepared')
  BY <1>0, <1>1, <1>2, StoreGrows
<1>9. \A j \in 1..MaxLeases : work'[j].files = work[j].files \/ work'[j].files \subseteq Prepared'
  BY <1>7 DEF SavedBy
<1>10. FilesFit'
  BY <1>7, <1>8, <1>9, FilesKept
<1>11. QED
  BY <1>6, <1>10

LEMMA CheckpointsAfterLeft ==
  ASSUME ConvInv, NEW id \in 1..MaxLeases, LeftBy(id) PROVE CheckpointsFit' /\ FilesFit'
<1>0. TypeOK /\ ConvTypeOK /\ work \in [1..MaxLeases -> Attempt]
  BY DEF ConvInv, ConvTypeOK
<1>1. /\ UNCHANGED <<status, grants, head, saved, boundary, final, rewritten>>
      /\ Len(grants') \in Nat /\ Extends(grants', grants)
      /\ \A q \in Projects : Len(saved'[q]) \in Nat /\ Extends(saved'[q], saved[q])
  BY <1>0, RowTypes, SameGrants, NothingStored DEF LeftBy, vars
<1>2. \A j \in 1..MaxLeases : /\ work'[j].pc \in HasSnapshot => work'[j] = work[j]
                              /\ work'[j].files = work[j].files
  BY <1>0 DEF LeftBy, Attempt, HasSnapshot
<1>3. CheckpointsFit'
  BY <1>1, <1>2, CheckpointsKept
<1>4. Prepared' = Prepared
  BY <1>1 DEF Prepared
<1>5. QED
  BY <1>1, <1>2, <1>3, <1>4, FilesKept

LEMMA CheckpointsAfterPublish ==
  ASSUME ConvInv, NEW id \in 1..MaxLeases, PublishedBy(id) PROVE CheckpointsFit' /\ FilesFit'
<1> DEFINE s == SessionOfLease(id)
           p == ProjectOf[s]
           r == RunOf(id)
<1>0. TypeOK /\ ConvTypeOK /\ id \in 1..Len(grants)
  BY DEF ConvInv, PublishedBy
<1>1. s \in Sessions /\ r \in Runs /\ p \in Projects /\ p = ProjectOfRun(r)
  BY <1>0, AttemptRun
<1>2. work[id].cp \in 1..Len(saved[p])
  BY DEF ConvInv, CheckpointsFit, PublishedBy
<1>3. /\ UNCHANGED <<status, grants, saved, boundary, rewritten>>
      /\ Len(grants') \in Nat /\ Extends(grants', grants)
      /\ \A q \in Projects : Len(saved'[q]) \in Nat /\ Extends(saved'[q], saved[q])
  BY <1>0, RowTypes, SameGrants, NothingStored DEF PublishedBy, vars
<1>4. \A u \in Sessions : \/ head'[u] = head[u]
                          \/ head'[u].isolated /\ head'[u].cp \in 1..Len(saved'[ProjectOf[u]])
  BY <1>2, <1>3 DEF PublishedBy
<1>5. \A q \in Runs : \/ final'[q] = final[q]
                      \/ status'[q] # "absent" /\ final'[q] \in 1..Len(saved'[ProjectOfRun(q)])
  <2>1. CASE HoldsLiveLease(id)
    <3>1. status[r] # "absent"
      BY <1>0, <1>1, <2>1, AtWork
    <3>2. QED
      BY <1>1, <1>2, <1>3, <3>1 DEF PublishedBy
  <2>2. CASE ~HoldsLiveLease(id)
    BY <2>2 DEF PublishedBy
  <2>3. QED
    BY <2>1, <2>2
<1>6. /\ \A j \in 1..MaxLeases : work'[j].pc \in HasSnapshot => work'[j] = work[j]
      /\ \A j \in 1..MaxLeases : work'[j].files = work[j].files
  <2>1. work \in [1..MaxLeases -> Attempt]
    BY <1>0 DEF ConvTypeOK
  <2>2. QED
    BY <2>1 DEF PublishedBy, Attempt, HasSnapshot
<1>7. CheckpointsFit'
  BY <1>3, <1>4, <1>5, <1>6, CheckpointsKept
<1>8. Prepared' = Prepared
  BY <1>3 DEF Prepared
<1>9. FilesFit'
  BY <1>3, <1>6, <1>8, FilesKept
<1>10. QED
  BY <1>7, <1>9

-----------------------------------------------------------------------------
(* Work that was discarded *)

\* A conversation whose turns stay as they are, when its head or a checkpoint of one of its
\* turns moves.
LEMMA HeadCleanKept ==
  ASSUME ConvInv, NEW s \in Sessions, NEW h, h = history[s], NEW p, p = ProjectOf[s],
         history'[s] = h, picked[s] \subseteq picked'[s], Extends(saved'[p], saved[p]),
         \/ head'[s] = head[s]
         \/ Clean(h, s, picked'[s], Content(saved'[p], head'[s].cp), Len(h)),
         \A i \in 1..Len(h) :
            /\ \/ boundary'[h[i]] = boundary[h[i]]
               \/ Clean(h, s, picked'[s], Content(saved'[p], boundary'[h[i]]), i - 1)
            /\ \/ final'[h[i]] = final[h[i]]
               \/ Clean(h, s, picked'[s], Content(saved'[p], final'[h[i]]), i)
  PROVE  HeadClean(s)'
<1>0. TypeOK /\ ConvTypeOK
  BY DEF ConvInv
<1>1. /\ p \in Projects /\ Len(saved[p]) \in Nat /\ Len(h) \in Nat
      /\ \A i \in 1..Len(h) : h[i] \in Runs /\ ProjectOfRun(h[i]) = p
  <2>1. ShowsTurns(s)
    BY DEF ConvInv, TurnsFit
  <2>2. QED
    BY <1>0, <2>1, RowTypes DEF ShowsTurns, Shows, ProjectOfRun
<1>2. /\ head[s].cp \in 0..Len(saved[p])
      /\ \A i \in 1..Len(h) : /\ boundary[h[i]] \in 0..Len(saved[p])
                              /\ final[h[i]] \in 0..Len(saved[p])
  BY <1>1 DEF ConvInv, CheckpointsFit, Stored
<1>3. SessionClean(h, s, picked[s], head[s], saved[p], boundary, final)
  BY DEF ConvInv, WorkFits, HeadClean
<1>4. \A cp \in 0..Len(saved[p]) : Content(saved'[p], cp) = Content(saved[p], cp)
  BY <1>1 DEF Content, Extends
<1>5. head'[s].isolated => Clean(h, s, picked'[s], Content(saved'[p], head'[s].cp), Len(h))
  <2>1. CASE head'[s] = head[s] /\ head[s].isolated
    <3>1. Clean(h, s, picked[s], Content(saved'[p], head'[s].cp), Len(h))
      BY <1>2, <1>3, <1>4, <2>1 DEF SessionClean
    <3>2. QED
      BY <1>1, <3>1, CleanMore
  <2>2. QED
    BY <2>1
<1>6. ASSUME NEW i \in 1..Len(h), boundary'[h[i]] # 0
      PROVE  Clean(h, s, picked'[s], Content(saved'[p], boundary'[h[i]]), i - 1)
  <2>1. CASE boundary'[h[i]] = boundary[h[i]]
    <3>1. Clean(h, s, picked[s], Content(saved'[p], boundary'[h[i]]), i - 1)
      BY <1>2, <1>3, <1>4, <1>6, <2>1 DEF SessionClean
    <3>2. QED
      BY <1>1, <3>1, CleanMore
  <2>2. QED
    BY <2>1
<1>7. ASSUME NEW i \in 1..Len(h), final'[h[i]] # 0
      PROVE  Clean(h, s, picked'[s], Content(saved'[p], final'[h[i]]), i)
  <2>1. CASE final'[h[i]] = final[h[i]]
    <3>1. Clean(h, s, picked[s], Content(saved'[p], final'[h[i]]), i)
      BY <1>2, <1>3, <1>4, <1>7, <2>1 DEF SessionClean
    <3>2. QED
      BY <1>1, <3>1, CleanMore
  <2>2. QED
    BY <2>1
<1>8. SessionClean(h, s, picked'[s], head'[s], saved'[p], boundary', final')
  BY <1>5, <1>6, <1>7 DEF SessionClean
<1>9. QED
  BY <1>8 DEF HeadClean

LEMMA FollowerKept ==
  ASSUME ConvInv, NEW s \in Sessions, ~head[s].isolated, history'[s] = history[s],
         \A r \in Runs : SessionOf[r] = s /\ status'[r] # "absent" => status[r] # "absent"
  PROVE  FollowerShowsAll(s)'
BY DEF ConvInv, WorkFits, FollowerShowsAll

\* Attempts that hold their lease as before, over the turns they had.
LEMMA AttemptKept ==
  ASSUME ConvInv, NEW id \in 1..MaxLeases, Len(grants') \in Nat, Extends(grants', grants),
         work'[id].pc # "none" => work[id].pc # "none" \/ id \in 1..Len(grants),
         work'[id].pc \in {"ready", "saved"} =>
            work[id].pc \in {"ready", "saved"} /\ work'[id].files = work[id].files,
         NEW s, s = SessionOfLease(id),
         id \in 1..Len(grants) /\ HoldsLiveLease(id)' =>
            HoldsLiveLease(id) /\ history'[s] = history[s] /\ picked[s] \subseteq picked'[s]
  PROVE  (work'[id].pc # "none" => id \in 1..Len(grants')) /\ AttemptClean(id)'
<1>0. TypeOK /\ ConvTypeOK /\ Len(grants) \in Nat
  BY RowTypes DEF ConvInv
<1>1. work[id].pc # "none" => id \in 1..Len(grants)
  BY DEF ConvInv, WorkFits
<1>2. id \in 1..Len(grants) => id \in 1..Len(grants') /\ grants'[id] = grants[id]
  BY <1>0 DEF Extends
<1>3. ASSUME work'[id].pc \in {"ready", "saved"}, HoldsLiveLease(id)', id \in 1..Len(grants),
             NEW t, t = SessionOf[grants'[id].run]
      PROVE  Clean(history'[t], t, picked'[t], work'[id].files, Len(history'[t]))
  <2>1. t = s /\ s \in Sessions
    BY <1>0, <1>2, <1>3, AttemptRun DEF SessionOfLease, RunOf
  <2>2. Clean(history[s], s, picked[s], work[id].files, Len(history[s]))
    BY <1>3 DEF ConvInv, WorkFits, AttemptClean
  <2>3. Clean(history[s], s, picked'[s], work[id].files, Len(history[s]))
    BY <1>0, <1>3, <2>1, <2>2, RowTypes, CleanMore
  <2>4. QED
    BY <1>3, <2>1, <2>3
<1>4. QED
  BY <1>1, <1>2, <1>3 DEF AttemptClean, SessionOfLease, RunOf

LEMMA WorkAfterMove ==
  ASSUME ConvInv, UNCHANGED <<history, head, saved, boundary, final, work, picked>>,
         \A q \in Runs : status'[q] = "absent" <=> status[q] = "absent",
         Len(grants') \in Nat, Extends(grants', grants),
         \A id \in 1..Len(grants) : HoldsLiveLease(id)' => HoldsLiveLease(id)
  PROVE  WorkFits'
<1>1. ASSUME NEW s \in Sessions PROVE HeadClean(s)' /\ (~head'[s].isolated => FollowerShowsAll(s)')
  <2>1. Extends(saved'[ProjectOf[s]], saved[ProjectOf[s]])
    BY RowTypes, NothingStored DEF ConvInv
  <2>2. QED
    BY <2>1, HeadCleanKept, FollowerKept
<1>2. \A id \in 1..MaxLeases :
        (work'[id].pc # "none" => id \in 1..Len(grants')) /\ AttemptClean(id)'
  BY AttemptKept
<1>3. QED
  BY <1>1, <1>2 DEF WorkFits

LEMMA WorkAfterRestore ==
  ASSUME ConvInv, NEW s \in Sessions, NEW cp, Restored(s, cp) PROVE WorkFits'
<1> DEFINE p == ProjectOf[s]
           n == Len(saved[p])
<1>0. TypeOK /\ ConvTypeOK /\ p \in Projects /\ n \in Nat
  BY RowTypes DEF ConvInv
<1>1. PICK store : Stores(p, store)
  BY DEF Restored
<1>2. \A q \in Projects : Extends(saved'[q], saved[q])
  BY <1>0, <1>1, StoreLen
<1>3. /\ UNCHANGED <<status, lease, grants, history, boundary, final, work>>
      /\ Len(grants') \in Nat /\ Extends(grants', grants)
  BY <1>0, RowTypes, SameGrants DEF Restored, vars
<1>4. \A u \in Sessions : picked[u] \subseteq picked'[u] /\ (head[u].isolated => head'[u].isolated)
  BY DEF Restored
<1>5. ASSUME NEW u \in Sessions
      PROVE  HeadClean(u)' /\ (~head'[u].isolated => FollowerShowsAll(u)')
  <2>1. \/ head'[u] = head[u]
        \/ Clean(history[u], u, picked'[u], Content(saved'[ProjectOf[u]], head'[u].cp), Len(history[u]))
    <3>1. CASE u = s /\ head'[s] # head[s]
      <4>1. /\ saved'[p][n + 2] = saved[p][cp] /\ head'[s] = [isolated |-> TRUE, cp |-> n + 2]
            /\ picked'[s] = picked[s] \cup saved[p][cp]
        BY <3>1 DEF Restored
      <4>2. Content(saved'[p], head'[s].cp) \subseteq picked'[s]
        BY <1>0, <4>1 DEF Content
      <4>3. QED
        BY <3>1, <4>2 DEF Clean
    <3>2. QED
      BY <3>1 DEF Restored
  <2>2. ProjectOf[u] \in Projects
    BY <1>0, RowTypes
  <2>3. HeadClean(u)'
    BY <1>2, <1>3, <1>4, <2>1, <2>2, HeadCleanKept
  <2>4. QED
    BY <1>3, <1>4, <2>3, FollowerKept
<1>6. \A id \in 1..Len(grants) : HoldsLiveLease(id)' => HoldsLiveLease(id)
  BY <1>3 DEF HoldsLiveLease
<1>7. ASSUME NEW id \in 1..MaxLeases
      PROVE  (work'[id].pc # "none" => id \in 1..Len(grants')) /\ AttemptClean(id)'
  <2>1. id \in 1..Len(grants) => SessionOfLease(id) \in Sessions
    BY <1>0, AttemptRun
  <2>2. QED
    BY <1>3, <1>4, <1>6, <2>1, AttemptKept
<1>8. QED
  BY <1>5, <1>7 DEF WorkFits

\* Whatever files of the project a conversation takes that follows it, they are clean.
LEMMA FollowerClean ==
  ASSUME ConvInv, NEW s \in Sessions, ~head[s].isolated, NEW files, files \subseteq Prepared, NEW pick
  PROVE  Clean(history[s], s, pick, files, Len(history[s]))
<1>1. FollowerShowsAll(s)
  BY DEF ConvInv, WorkFits
<1>2. ASSUME NEW x \in files, Related(history[s], s, x)
      PROVE  \E i \in 1..Len(history[s]) : history[s][i] = x
  <2>1. SessionOf[x] = s
    BY <1>1, <1>2 DEF Related, FollowerShowsAll
  <2>2. x \in Runs /\ status[x] # "absent"
    BY DEF Prepared, ConvInv, CheckpointsFit
  <2>3. QED
    BY <1>1, <2>1, <2>2 DEF FollowerShowsAll
<1>3. QED
  BY <1>2 DEF Clean

\* The last turn of a conversation adds to clean files only itself.
LEMMA CleanUpToLast ==
  ASSUME NEW h, NEW s, NEW pick, NEW files, Len(h) \in Nat, Clean(h, s, pick, files, Len(h)),
         NEW r, r \notin files, Len(h) # 0 => h[Len(h)] = r
  PROVE  Clean(h, s, pick, files, Len(h) - 1)
<1> SUFFICES ASSUME NEW x \in files \ pick, Related(h, s, x)
             PROVE  \E i \in 1..Len(h) - 1 : h[i] = x
  BY DEF Clean
<1>1. PICK i \in 1..Len(h) : h[i] = x
  BY DEF Clean
<1>2. i # Len(h)
  BY <1>1
<1>3. i \in 1..Len(h) - 1
  BY <1>2
<1>4. QED
  BY <1>1, <1>3

LEMMA BaseClean ==
  ASSUME ConvInv, NEW id \in 1..MaxLeases, NEW base, PreparedFrom(id, base),
         NEW s \in Sessions, s = SessionOfLease(id)
  PROVE  Clean(history[s], s, picked[s], base, Len(history[s]))
<1>1. CASE head[s].isolated
  <2>1. head[s].cp # 0
    BY <1>1 DEF ConvInv, CheckpointsFit
  <2>2. base = Content(saved[ProjectOf[s]], head[s].cp)
    BY <1>1, <2>1 DEF PreparedFrom, Files, Content
  <2>3. HeadClean(s)
    BY DEF ConvInv, WorkFits
  <2>4. QED
    BY <1>1, <2>2, <2>3 DEF HeadClean, SessionClean
<1>2. CASE ~head[s].isolated
  BY <1>2, FollowerClean DEF PreparedFrom
<1>3. QED
  BY <1>1, <1>2

LEMMA WorkAfterPrepare ==
  ASSUME ConvInv, NEW id \in 1..MaxLeases, NEW base, PreparedFrom(id, base) PROVE WorkFits'
<1> DEFINE s == SessionOfLease(id)
           p == ProjectOf[s]
           r == RunOf(id)
           h == history[s]
<1>0. TypeOK /\ ConvTypeOK /\ id \in 1..Len(grants) /\ HoldsLiveLease(id)
  BY DEF ConvInv, PreparedFrom
<1>1. s \in Sessions /\ r \in Runs /\ p \in Projects /\ Len(h) \in Nat
  BY <1>0, AttemptRun, RowTypes
<1>2. PICK store : Stores(p, store)
  BY DEF PreparedFrom
<1>3. \A q \in Projects : Len(saved'[q]) \in Nat /\ Extends(saved'[q], saved[q])
  BY <1>0, <1>1, <1>2, StoreLen
<1>4. /\ UNCHANGED <<status, lease, grants, history, head, final, picked>>
      /\ Len(grants') \in Nat /\ Extends(grants', grants)
  BY <1>0, RowTypes, SameGrants DEF PreparedFrom, vars
<1>5. \A q \in Runs : boundary'[q] = IF q = r /\ boundary[r] = 0 THEN Len(saved'[p]) ELSE boundary[q]
  BY <1>0, <1>1 DEF PreparedFrom, ConvTypeOK
<1>6. \A j \in 1..MaxLeases :
        work'[j] = IF j = id THEN [pc |-> "ready", files |-> base \cup {r}, cp |-> 0] ELSE work[j]
  BY <1>0 DEF PreparedFrom, ConvTypeOK
<1>7. /\ Len(h) \in 1..Len(h) /\ h[Len(h)] = r
      /\ \A t \in Sessions : \A i \in 1..Len(history[t]) :
            history[t][i] = r => t = s /\ i = Len(history[t])
  BY <1>0, <1>1, AtWork
<1>8. Clean(h, s, picked[s], base, Len(h))
  BY <1>1, BaseClean
<1>9. ASSUME boundary[r] = 0
      PROVE  Clean(h, s, picked'[s], Content(saved'[p], Len(saved'[p])), Len(h) - 1)
  <2>1. r \notin base
    BY <1>9 DEF PreparedFrom, Prepared
  <2>2. Clean(h, s, picked[s], base, Len(h) - 1)
    BY <1>1, <1>7, <1>8, <2>1, CleanUpToLast
  <2>3. Content(saved'[p], Len(saved'[p])) = base
    BY DEF PreparedFrom, Content
  <2>4. QED
    BY <1>4, <2>2, <2>3
<1>10. ASSUME NEW u \in Sessions
       PROVE  HeadClean(u)' /\ (~head'[u].isolated => FollowerShowsAll(u)')
  <2>1. ASSUME NEW i \in 1..Len(history[u])
        PROVE  \/ boundary'[history[u][i]] = boundary[history[u][i]]
               \/ Clean(history[u], u, picked'[u],
                        Content(saved'[ProjectOf[u]], boundary'[history[u][i]]), i - 1)
    <3>1. history[u][i] \in Runs
      BY <1>0, RowTypes
    <3>2. CASE history[u][i] = r /\ boundary[r] = 0
      <4>1. u = s /\ i = Len(h) /\ boundary'[history[u][i]] = Len(saved'[p])
        BY <1>1, <1>5, <1>7, <3>2
      <4>2. QED
        BY <1>9, <3>2, <4>1
    <3>3. QED
      BY <1>5, <3>1, <3>2
  <2>2. ProjectOf[u] \in Projects
    BY <1>0, RowTypes
  <2>3. HeadClean(u)'
    BY <1>3, <1>4, <2>1, <2>2, HeadCleanKept
  <2>4. QED
    BY <1>4, <2>3, FollowerKept
<1>11. \A j \in 1..Len(grants) : HoldsLiveLease(j)' => HoldsLiveLease(j)
  BY <1>4 DEF HoldsLiveLease
<1>12. ASSUME NEW j \in 1..MaxLeases
       PROVE  (work'[j].pc # "none" => j \in 1..Len(grants')) /\ AttemptClean(j)'
  <2>1. CASE j = id
    <3>1. Clean(h, s, picked[s], base \cup {r}, Len(h))
      BY <1>7, <1>8 DEF Clean
    <3>2. work'[id].files = base \cup {r}
      BY <1>6
    <3>3. SessionOfLease(id)' = s
      BY <1>4 DEF SessionOfLease, RunOf
    <3>4. AttemptClean(id)'
      BY <1>4, <3>1, <3>2, <3>3 DEF AttemptClean
    <3>5. QED
      BY <1>0, <1>4, <2>1, <3>4
  <2>2. CASE j # id
    <3>1. work'[j] = work[j]
      BY <1>6, <2>2
    <3>2. QED
      BY <1>4, <1>11, <3>1, AttemptKept
  <2>3. QED
    BY <2>1, <2>2
<1>13. QED
  BY <1>10, <1>12 DEF WorkFits

LEMMA WorkAfterSave ==
  ASSUME ConvInv, NEW id \in 1..MaxLeases, SavedBy(id) PROVE WorkFits'
<1> DEFINE p == ProjectOf[SessionOfLease(id)]
<1>0. TypeOK /\ ConvTypeOK /\ id \in 1..Len(grants)
  BY DEF ConvInv, SavedBy
<1>1. p \in Projects
  BY <1>0, AttemptRun
<1>2. PICK store : Stores(p, store)
  BY DEF SavedBy
<1>3. \A q \in Projects : Extends(saved'[q], saved[q])
  BY <1>0, <1>1, <1>2, StoreLen
<1>4. /\ UNCHANGED <<status, lease, grants, history, head, boundary, final, picked>>
      /\ Len(grants') \in Nat /\ Extends(grants', grants)
  BY <1>0, RowTypes, SameGrants DEF SavedBy, vars
<1>5. ASSUME NEW u \in Sessions
      PROVE  HeadClean(u)' /\ (~head'[u].isolated => FollowerShowsAll(u)')
  <2>1. Extends(saved'[ProjectOf[u]], saved[ProjectOf[u]])
    BY <1>0, <1>3, RowTypes
  <2>2. QED
    BY <1>4, <2>1, HeadCleanKept, FollowerKept
<1>6. \A j \in 1..Len(grants) : HoldsLiveLease(j)' => HoldsLiveLease(j)
  BY <1>4 DEF HoldsLiveLease
<1>7. ASSUME NEW j \in 1..MaxLeases
      PROVE  (work'[j].pc # "none" => j \in 1..Len(grants')) /\ AttemptClean(j)'
  <2>1. /\ work'[j].pc # "none" => work[j].pc # "none" \/ j \in 1..Len(grants)
        /\ work'[j].pc \in {"ready", "saved"} =>
              work[j].pc \in {"ready", "saved"} /\ work'[j].files = work[j].files
    BY DEF SavedBy, HasSnapshot
  <2>2. QED
    BY <1>4, <1>6, <2>1, AttemptKept
<1>8. QED
  BY <1>5, <1>7 DEF WorkFits

LEMMA WorkAfterLeft ==
  ASSUME ConvInv, NEW id \in 1..MaxLeases, LeftBy(id) PROVE WorkFits'
<1>0. TypeOK /\ ConvTypeOK /\ work \in [1..MaxLeases -> Attempt]
  BY DEF ConvInv, ConvTypeOK
<1>1. /\ UNCHANGED <<status, lease, grants, history, head, saved, boundary, final, picked>>
      /\ Len(grants') \in Nat /\ Extends(grants', grants)
      /\ \A q \in Projects : Extends(saved'[q], saved[q])
  BY <1>0, RowTypes, SameGrants, NothingStored DEF LeftBy, vars
<1>2. ASSUME NEW u \in Sessions
      PROVE  HeadClean(u)' /\ (~head'[u].isolated => FollowerShowsAll(u)')
  <2>1. Extends(saved'[ProjectOf[u]], saved[ProjectOf[u]])
    BY <1>0, <1>1, RowTypes
  <2>2. QED
    BY <1>1, <2>1, HeadCleanKept, FollowerKept
<1>3. \A j \in 1..Len(grants) : HoldsLiveLease(j)' => HoldsLiveLease(j)
  BY <1>1 DEF HoldsLiveLease
<1>4. ASSUME NEW j \in 1..MaxLeases
      PROVE  (work'[j].pc # "none" => j \in 1..Len(grants')) /\ AttemptClean(j)'
  <2>1. /\ work'[j].pc # "none" => work[j].pc # "none" \/ j \in 1..Len(grants)
        /\ work'[j].pc \in {"ready", "saved"} =>
              work[j].pc \in {"ready", "saved"} /\ work'[j].files = work[j].files
    BY <1>0 DEF LeftBy, Attempt
  <2>2. QED
    BY <1>1, <1>3, <2>1, AttemptKept
<1>5. QED
  BY <1>2, <1>4 DEF WorkFits

LEMMA WorkAfterPublish ==
  ASSUME ConvInv, NEW id \in 1..MaxLeases, PublishedBy(id) PROVE WorkFits'
<1> DEFINE s == SessionOfLease(id)
           p == ProjectOf[s]
           r == RunOf(id)
           h == history[s]
<1>0. TypeOK /\ ConvTypeOK /\ id \in 1..Len(grants)
  BY DEF ConvInv, PublishedBy
<1>1. s \in Sessions /\ r \in Runs /\ p \in Projects
  BY <1>0, AttemptRun
<1>2. /\ UNCHANGED <<status, lease, grants, history, saved, boundary>>
      /\ Len(grants') \in Nat /\ Extends(grants', grants)
      /\ \A q \in Projects : Extends(saved'[q], saved[q])
      /\ \A u \in Sessions : picked[u] \subseteq picked'[u]
  BY <1>0, RowTypes, SameGrants, NothingStored DEF PublishedBy, vars
<1>3. ASSUME HoldsLiveLease(id), work[id].pc = "recovered" => work[id].files \subseteq picked'[s]
      PROVE  Clean(h, s, picked'[s], Content(saved[p], work[id].cp), Len(h))
  <2>1. Clean(h, s, picked'[s], work[id].files, Len(h))
    <3>1. CASE work[id].pc = "saved"
      <4>1. Clean(h, s, picked[s], work[id].files, Len(h))
        BY <1>0, <1>3, <3>1 DEF ConvInv, WorkFits, AttemptClean
      <4>2. QED
        BY <1>0, <1>1, <1>2, <4>1, RowTypes, CleanMore
    <3>2. CASE work[id].pc = "recovered"
      BY <1>3, <3>2 DEF Clean
    <3>3. QED
      BY <3>1, <3>2 DEF PublishedBy, HasSnapshot
  <2>2. work[id].cp # 0 /\ saved[p][work[id].cp] = work[id].files
    BY <1>0 DEF PublishedBy, ConvInv, CheckpointsFit
  <2>3. QED
    BY <2>1, <2>2 DEF Content
<1>4. ASSUME NEW u \in Sessions
      PROVE  /\ \/ head'[u] = head[u]
                \/ Clean(history[u], u, picked'[u], Content(saved'[ProjectOf[u]], head'[u].cp),
                         Len(history[u]))
             /\ \A i \in 1..Len(history[u]) :
                   \/ final'[history[u][i]] = final[history[u][i]]
                   \/ Clean(history[u], u, picked'[u],
                            Content(saved'[ProjectOf[u]], final'[history[u][i]]), i)
             /\ head[u].isolated => head'[u].isolated
  <2>0. \A i \in 1..Len(history[u]) : history[u][i] \in Runs
    BY <1>0, RowTypes
  <2>1. CASE /\ HoldsLiveLease(id)
             /\ \A v \in Sessions :
                   head'[v] = IF v = s THEN [isolated |-> TRUE, cp |-> work[id].cp] ELSE head[v]
             /\ \A q \in Runs : final'[q] = IF q = r THEN work[id].cp ELSE final[q]
             /\ work[id].pc = "recovered" => work[id].files \subseteq picked'[s]
    <3>1. \A i \in 1..Len(history[u]) : history[u][i] = r => u = s /\ i = Len(h)
      BY <1>0, <1>1, <2>1, AtWork
    <3>2. u = s => head'[u].isolated /\ head'[u].cp = work[id].cp
      BY <2>1
    <3>3. u # s => head'[u] = head[u]
      BY <2>1
    <3>4. ASSUME NEW i \in 1..Len(history[u])
          PROVE  \/ final'[history[u][i]] = final[history[u][i]]
                 \/ Clean(history[u], u, picked'[u],
                          Content(saved'[ProjectOf[u]], final'[history[u][i]]), i)
      <4>1. CASE history[u][i] = r
        <5>1. u = s /\ i = Len(h) /\ final'[history[u][i]] = work[id].cp
          BY <1>1, <2>1, <3>1, <4>1
        <5>2. QED
          BY <1>2, <1>3, <2>1, <5>1
      <4>2. CASE history[u][i] # r
        BY <2>0, <2>1, <4>2
      <4>3. QED
        BY <4>1, <4>2
    <3>5. QED
      BY <1>2, <1>3, <2>1, <3>2, <3>3, <3>4
  <2>2. CASE UNCHANGED <<head, final>>
    BY <2>2
  <2>3. QED
    BY <2>1, <2>2 DEF PublishedBy
<1>5. ASSUME NEW u \in Sessions
      PROVE  HeadClean(u)' /\ (~head'[u].isolated => FollowerShowsAll(u)')
  <2>1. Extends(saved'[ProjectOf[u]], saved[ProjectOf[u]])
    BY <1>0, <1>2, RowTypes
  <2>2. HeadClean(u)'
    BY <1>2, <1>4, <2>1, HeadCleanKept
  <2>3. QED
    BY <1>2, <1>4, <2>2, FollowerKept
<1>6. \A j \in 1..Len(grants) : HoldsLiveLease(j)' => HoldsLiveLease(j)
  BY <1>2 DEF HoldsLiveLease
<1>7. ASSUME NEW j \in 1..MaxLeases
      PROVE  (work'[j].pc # "none" => j \in 1..Len(grants')) /\ AttemptClean(j)'
  <2>1. /\ work'[j].pc # "none" => work[j].pc # "none"
        /\ work'[j].pc \in {"ready", "saved"} =>
              work[j].pc \in {"ready", "saved"} /\ work'[j].files = work[j].files
    <3>1. work \in [1..MaxLeases -> Attempt]
      BY <1>0 DEF ConvTypeOK
    <3>2. QED
      BY <3>1 DEF PublishedBy, Attempt, HasSnapshot
  <2>2. j \in 1..Len(grants) => SessionOfLease(j) \in Sessions
    BY <1>0, AttemptRun
  <2>3. QED
    BY <1>2, <1>6, <2>1, <2>2, AttemptKept
<1>8. QED
  BY <1>5, <1>7 DEF WorkFits

LEMMA SessionCleanAppend ==
  ASSUME NEW h \in Seq(Runs), NEW r \in Runs, NEW s, SessionOf[r] = s, NEW pick, NEW hd, NEW store,
         NEW start, NEW end, start[r] = 0, end[r] = 0,
         SessionClean(h, s, pick, hd, store, start, end)
  PROVE  SessionClean(Append(h, r), s, pick, hd, store, start, end)
<1> DEFINE g == Append(h, r)
<1>1. /\ Len(h) \in Nat /\ Len(g) = Len(h) + 1 /\ g[Len(h) + 1] = r
      /\ \A i \in 1..Len(h) : g[i] = h[i]
  BY AppendProperties, LenProperties
<1>2. ASSUME NEW files, NEW n \in Int, n <= Len(h), Clean(h, s, pick, files, n)
      PROVE  Clean(g, s, pick, files, n)
  BY <1>2, CleanAppend
<1> HIDE DEF g
<1>3. ASSUME hd.isolated PROVE Clean(g, s, pick, Content(store, hd.cp), Len(g))
  <2>1. Clean(g, s, pick, Content(store, hd.cp), Len(h))
    BY <1>1, <1>2, <1>3 DEF SessionClean
  <2>2. QED
    BY <1>1, <2>1, CleanMore
<1>4. ASSUME NEW i \in 1..Len(g)
      PROVE  /\ start[g[i]] # 0 => Clean(g, s, pick, Content(store, start[g[i]]), i - 1)
             /\ end[g[i]] # 0 => Clean(g, s, pick, Content(store, end[g[i]]), i)
  <2>1. CASE i = Len(h) + 1
    BY <1>1, <2>1
  <2>2. CASE i # Len(h) + 1
    <3>1. i \in 1..Len(h) /\ g[i] = h[i] /\ i \in Int /\ i - 1 \in Int /\ i - 1 <= Len(h)
      BY <1>1, <2>2
    <3>2. QED
      BY <1>2, <3>1 DEF SessionClean
  <2>3. QED
    BY <2>1, <2>2
<1>5. SessionClean(g, s, pick, hd, store, start, end)
  BY <1>3, <1>4 DEF SessionClean
<1>6. QED
  BY <1>5 DEF g

LEMMA SessionCleanFirst ==
  ASSUME NEW h \in Seq(Runs), NEW k \in Int, 0 <= k, k <= Len(h), NEW s, NEW t, NEW pick, NEW hd,
         NEW hd2, NEW store, NEW start, NEW end, SessionClean(h, s, pick, hd, store, start, end),
         hd2.cp \in 0..Len(store),
         \A i \in 1..Len(h) : start[h[i]] \in 0..Len(store) /\ end[h[i]] \in 0..Len(store),
         t = s \/ \A cp \in 0..Len(store) : \A x \in Content(store, cp) : SessionOf[x] # t,
         Clean(h, s, pick, Content(store, hd2.cp), k)
  PROVE  SessionClean(SubSeq(h, 1, k), t, pick, hd2, store, start, end)
<1> DEFINE g == SubSeq(h, 1, k)
<1>1. Len(g) = k /\ (\A i \in 1..k : g[i] = h[i] /\ i \in 1..Len(h)) /\ Len(h) \in Nat
  BY PrefixIs, LenProperties
<1>2. ASSUME NEW cp \in 0..Len(store), NEW n \in Int, n <= k, Clean(h, s, pick, Content(store, cp), n)
      PROVE  Clean(g, t, pick, Content(store, cp), n)
  <2>1. t = s \/ \A x \in Content(store, cp) : SessionOf[x] # t
    OBVIOUS
  <2>2. QED
    BY <1>2, <2>1, CleanPrefix
<1> HIDE DEF g
<1>3. Clean(g, t, pick, Content(store, hd2.cp), Len(g))
  BY <1>1, <1>2
<1>4. ASSUME NEW i \in 1..Len(g)
      PROVE  /\ start[g[i]] # 0 => Clean(g, t, pick, Content(store, start[g[i]]), i - 1)
             /\ end[g[i]] # 0 => Clean(g, t, pick, Content(store, end[g[i]]), i)
  <2>0. i \in 1..k
    BY <1>1
  <2>1. i \in 1..Len(h) /\ g[i] = h[i] /\ i \in Int /\ i - 1 \in Int /\ i <= k /\ i - 1 <= k
    <3>1. i \in 1..Len(h) /\ g[i] = h[i]
      BY <1>1, <2>0
    <3>2. QED
      BY <2>0, <3>1
  <2>2. start[h[i]] \in 0..Len(store) /\ end[h[i]] \in 0..Len(store)
    BY <2>1
  <2>3. start[h[i]] # 0 => Clean(h, s, pick, Content(store, start[h[i]]), i - 1)
    BY <2>1 DEF SessionClean
  <2>4. end[h[i]] # 0 => Clean(h, s, pick, Content(store, end[h[i]]), i)
    BY <2>1 DEF SessionClean
  <2>5. QED
    BY <1>2, <2>1, <2>2, <2>3, <2>4
<1>5. SessionClean(g, t, pick, hd2, store, start, end)
  BY <1>3, <1>4 DEF SessionClean
<1>6. QED
  BY <1>5 DEF g

LEMMA WorkAfterTurn == ASSUME ConvInv, NEW r \in Runs, NewTurn(r) PROVE WorkFits'
<1> DEFINE s == SessionOf[r]
           p == ProjectOf[s]
           h == history[s]
<1>0. TypeOK /\ ConvTypeOK /\ s \in Sessions /\ h \in Seq(Runs)
  BY RowTypes DEF ConvInv
<1>1. /\ UNCHANGED <<lease, grants, head, saved, boundary, final, work, picked>>
      /\ history'[s] = Append(h, r) /\ status[r] = "absent"
      /\ \A t \in Sessions : t # s => history'[t] = history[t]
      /\ \A q \in Runs : status'[q] = IF q = r THEN "queued" ELSE status[q]
      /\ \A q \in Runs : SessionOf[q] = s => ~Unfinished(q)
  BY <1>0 DEF NewTurn
<1>2. /\ Len(grants') \in Nat /\ Extends(grants', grants)
      /\ \A t \in Sessions : Extends(saved'[ProjectOf[t]], saved[ProjectOf[t]])
  BY <1>0, <1>1, RowTypes, SameGrants, NothingStored
<1>3. HeadClean(s)'
  <2>1. SessionClean(h, s, picked[s], head[s], saved[p], boundary, final)
    BY <1>0 DEF ConvInv, WorkFits, HeadClean
  <2>2. boundary[r] = 0 /\ final[r] = 0
    BY <1>1, NewRunIsUnseen
  <2>3. SessionClean(Append(h, r), s, picked[s], head[s], saved[p], boundary, final)
    BY <1>0, <2>1, <2>2, SessionCleanAppend
  <2>4. QED
    BY <1>1, <2>3 DEF HeadClean
<1>4. ASSUME ~head[s].isolated PROVE FollowerShowsAll(s)'
  <2>1. FollowerShowsAll(s)
    BY <1>0, <1>4 DEF ConvInv, WorkFits
  <2> DEFINE g == Append(h, r)
  <2>2. /\ Len(h) \in Nat /\ Len(g) = Len(h) + 1 /\ g[Len(h) + 1] = r
        /\ \A i \in 1..Len(h) : g[i] = h[i] /\ i \in 1..Len(g)
    BY <1>0, AppendProperties, LenProperties
  <2> HIDE DEF g
  <2>3. ASSUME NEW q \in Runs, SessionOf[q] = s, status'[q] # "absent"
        PROVE  \E i \in 1..Len(g) : g[i] = q
    <3>1. CASE q = r
      <4>1. Len(h) + 1 \in 1..Len(g)
        BY <2>2
      <4>2. QED
        BY <2>2, <3>1, <4>1
    <3>2. CASE q # r
      <4>1. PICK i \in 1..Len(h) : h[i] = q
        BY <1>1, <2>1, <2>3, <3>2 DEF FollowerShowsAll
      <4>2. QED
        BY <2>2, <4>1
    <3>3. QED
      BY <3>1, <3>2
  <2>4. ASSUME NEW i \in 1..Len(g) PROVE SessionOf[g[i]] = s
    <3>1. CASE i = Len(h) + 1
      BY <2>2, <3>1
    <3>2. CASE i # Len(h) + 1
      <4>1. i \in 1..Len(h)
        BY <2>2, <3>2
      <4>2. QED
        BY <2>1, <2>2, <4>1 DEF FollowerShowsAll
    <3>3. QED
      BY <3>1, <3>2
  <2>5. history'[s] = g
    BY <1>1 DEF g
  <2>6. QED
    BY <2>3, <2>4, <2>5 DEF FollowerShowsAll
<1>5. ASSUME NEW u \in Sessions, u # s
      PROVE  HeadClean(u)' /\ (~head'[u].isolated => FollowerShowsAll(u)')
  <2>1. HeadClean(u)'
    BY <1>1, <1>2, <1>5, HeadCleanKept
  <2>2. \A q \in Runs : SessionOf[q] = u /\ status'[q] # "absent" => status[q] # "absent"
    BY <1>1, <1>5
  <2>3. QED
    BY <1>1, <1>5, <2>1, <2>2, FollowerKept
<1>6. ASSUME NEW id \in 1..Len(grants), HoldsLiveLease(id)'
      PROVE  HoldsLiveLease(id) /\ SessionOfLease(id) \in Sessions /\ SessionOfLease(id) # s
  <2>1. HoldsLiveLease(id)
    BY <1>1, <1>6 DEF HoldsLiveLease
  <2>2. RunOf(id) \in Runs /\ SessionOfLease(id) \in Sessions
    BY <1>0, AttemptRun
  <2>3. Unfinished(RunOf(id)) /\ SessionOf[RunOf(id)] = SessionOfLease(id)
    BY <2>1, <2>2, AtWork
  <2>4. QED
    BY <1>1, <2>1, <2>2, <2>3
<1>7. ASSUME NEW id \in 1..MaxLeases
      PROVE  (work'[id].pc # "none" => id \in 1..Len(grants')) /\ AttemptClean(id)'
  <2>1. id \in 1..Len(grants) /\ HoldsLiveLease(id)' =>
          LET t == SessionOfLease(id) IN
          HoldsLiveLease(id) /\ history'[t] = history[t] /\ picked[t] \subseteq picked'[t]
    BY <1>1, <1>6
  <2>2. QED
    BY <1>1, <1>2, <2>1, AttemptKept
<1>8. QED
  BY <1>1, <1>3, <1>4, <1>5, <1>7 DEF WorkFits

\* A conversation that is pinned to the project's newest files has all its turns.
LEMMA PinnedClean ==
  ASSUME ConvInv, NEW p \in Projects, NEW u \in Sessions
  PROVE  \/ Pinned(p)[u] = head[u]
         \/ Clean(history[u], u, picked[u], Content(saved[ProjectOf[u]], Pinned(p)[u].cp),
                  Len(history[u]))
<1>1. CASE ProjectOf[u] = p /\ Exists(u) /\ ~head[u].isolated
  <2>1. Pinned(p)[u].cp = Latest(p)
    BY <1>1 DEF Pinned
  <2>2. Content(saved[p], Latest(p)) \subseteq Prepared
    <3>1. Len(saved[p]) \in Nat
      BY RowTypes DEF ConvInv
    <3>2. QED
      BY <3>1 DEF Content, Latest, ConvInv, FilesFit
  <2>3. QED
    BY <1>1, <2>1, <2>2, FollowerClean
<1>2. CASE ~(ProjectOf[u] = p /\ Exists(u) /\ ~head[u].isolated)
  BY <1>2 DEF Pinned
<1>3. QED
  BY <1>1, <1>2

\* The checkpoints that a conversation's head and turns name are in its project's store.
LEMMA NamedStored ==
  ASSUME ConvInv, NEW s \in Sessions
  PROVE  /\ head[s].cp \in 0..Len(saved[ProjectOf[s]])
         /\ \A i \in 1..Len(history[s]) :
               /\ boundary[history[s][i]] \in 0..Len(saved[ProjectOf[s]])
               /\ final[history[s][i]] \in 0..Len(saved[ProjectOf[s]])
<1>1. \A i \in 1..Len(history[s]) :
        history[s][i] \in Runs /\ ProjectOfRun(history[s][i]) = ProjectOf[s]
  <2>1. ShowsTurns(s)
    BY DEF ConvInv, TurnsFit
  <2>2. QED
    BY <2>1, RowTypes DEF ConvInv, ShowsTurns, Shows, ProjectOfRun
<1>2. QED
  BY <1>1 DEF ConvInv, CheckpointsFit, Stored

LEMMA WorkAfterBranch ==
  ASSUME ConvInv, NEW s \in Sessions, NEW r \in Runs, NEW t \in Sessions, Branched(s, r, t)
  PROVE  WorkFits'
<1> DEFINE p == ProjectOf[s]
           k == Position(s, r)
           h == history[s]
           hd == [isolated |-> TRUE, cp |-> final[r]]
<1>0. /\ TypeOK /\ ConvTypeOK /\ p \in Projects /\ h \in Seq(Runs) /\ Len(h) \in Nat
      /\ k \in 1..Len(h) /\ h[k] = r /\ Len(saved[p]) \in Nat
  BY RowTypes, PositionIs DEF ConvInv, Branched
<1>1. /\ UNCHANGED <<status, lease, grants, saved, boundary, final, work>>
      /\ history'[t] = SubSeq(h, 1, k) /\ head'[t] = hd /\ picked'[t] = picked[s]
      /\ \A u \in Sessions : u # t => /\ history'[u] = history[u] /\ head'[u] = Pinned(p)[u]
                                      /\ picked'[u] = picked[u]
      /\ ~Exists(t) /\ ProjectOf[t] = p /\ t # s /\ final[r] # 0
  BY DEF Branched
<1>2. /\ Len(grants') \in Nat /\ Extends(grants', grants)
      /\ \A u \in Sessions : Extends(saved'[ProjectOf[u]], saved[ProjectOf[u]])
  BY <1>0, <1>1, RowTypes, SameGrants, NothingStored
<1>3. ASSUME NEW cp \in 0..Len(saved[p]), NEW x \in Content(saved[p], cp) PROVE SessionOf[x] # t
  <2>1. x \in Prepared
    BY <1>0 DEF Content, ConvInv, FilesFit
  <2>2. x \in Runs /\ status[x] # "absent"
    BY <2>1 DEF Prepared, ConvInv, CheckpointsFit
  <2>3. Exists(SessionOf[x])
    BY <2>2 DEF ConvInv, TurnsFit, RunsHaveSessions
  <2>4. QED
    BY <1>1, <2>3
<1>4. HeadClean(t)'
  <2>1. SessionClean(h, s, picked[s], head[s], saved[p], boundary, final)
    BY DEF ConvInv, WorkFits, HeadClean
  <2>2. \A i \in 1..Len(h) : boundary[h[i]] \in 0..Len(saved[p]) /\ final[h[i]] \in 0..Len(saved[p])
    BY NamedStored
  <2>3. Clean(h, s, picked[s], Content(saved[p], final[r]), k)
    BY <1>0, <1>1, <2>1 DEF SessionClean
  <2>4. hd.cp = final[r] /\ hd.cp \in 0..Len(saved[p])
    BY <1>0, <2>2
  <2>5. k \in Int /\ 0 <= k /\ k <= Len(h)
    BY <1>0
  <2> HIDE DEF h, k, hd, p
  <2>6. SessionClean(SubSeq(h, 1, k), t, picked[s], hd, saved[p], boundary, final)
    BY <1>0, <1>3, <2>1, <2>2, <2>3, <2>4, <2>5, SessionCleanFirst
  <2>7. QED
    BY <1>1, <2>6 DEF HeadClean
<1>5. ASSUME NEW u \in Sessions, u # t
      PROVE  HeadClean(u)' /\ (~head'[u].isolated => FollowerShowsAll(u)')
  <2>1. /\ history'[u] = history[u] /\ head'[u] = Pinned(p)[u] /\ picked'[u] = picked[u]
        /\ UNCHANGED <<saved, status, boundary, final>>
    BY <1>1, <1>5
  <2>2. \/ head'[u] = head[u]
        \/ Clean(history[u], u, picked'[u], Content(saved'[ProjectOf[u]], head'[u].cp),
                 Len(history[u]))
    BY <1>0, <2>1, PinnedClean
  <2>3. HeadClean(u)'
    BY <1>2, <2>1, <2>2, HeadCleanKept
  <2>4. head[u].isolated => head'[u].isolated
    BY <2>1 DEF Pinned
  <2>5. QED
    BY <2>1, <2>3, <2>4, FollowerKept
<1>6. ASSUME NEW id \in 1..Len(grants), HoldsLiveLease(id)'
      PROVE  HoldsLiveLease(id) /\ SessionOfLease(id) \in Sessions /\ SessionOfLease(id) # t
  <2>1. HoldsLiveLease(id)
    BY <1>1, <1>6 DEF HoldsLiveLease
  <2>2. RunOf(id) \in Runs /\ SessionOfLease(id) \in Sessions
    BY <1>0, AttemptRun
  <2>3. Exists(SessionOfLease(id))
    BY <2>1, <2>2, AtWork
  <2>4. QED
    BY <1>1, <2>1, <2>2, <2>3
<1>7. ASSUME NEW id \in 1..MaxLeases
      PROVE  (work'[id].pc # "none" => id \in 1..Len(grants')) /\ AttemptClean(id)'
  <2>1. id \in 1..Len(grants) /\ HoldsLiveLease(id)' =>
          LET v == SessionOfLease(id) IN
          HoldsLiveLease(id) /\ history'[v] = history[v] /\ picked[v] \subseteq picked'[v]
    BY <1>1, <1>6
  <2>2. QED
    BY <1>1, <1>2, <2>1, AttemptKept
<1>8. head'[t].isolated
  BY <1>1
<1>9. QED
  BY <1>4, <1>5, <1>7, <1>8 DEF WorkFits

LEMMA WorkAfterRetry ==
  ASSUME ConvInv, NEW s \in Sessions, NEW r \in Runs, NEW n \in Runs, Retried(s, r, n)
  PROVE  WorkFits'
<1> DEFINE p == ProjectOf[s]
           k == Position(s, r) - 1
           h == history[s]
           hd == [isolated |-> TRUE, cp |-> boundary[r]]
<1>0. /\ TypeOK /\ ConvTypeOK /\ p \in Projects /\ h \in Seq(Runs) /\ Len(h) \in Nat
      /\ k + 1 \in 1..Len(h) /\ h[k + 1] = r /\ k \in Int
  BY RowTypes, PositionIs DEF ConvInv, Retried
<1>1. /\ UNCHANGED <<lease, grants, saved, boundary, final, work, picked>>
      /\ history'[s] = Append(SubSeq(h, 1, k), n) /\ head'[s] = hd
      /\ \A u \in Sessions : u # s => history'[u] = history[u] /\ head'[u] = Pinned(p)[u]
      /\ \A q \in Runs : status'[q] = IF q = n THEN "queued" ELSE status[q]
      /\ status[n] = "absent" /\ SessionOf[n] = s /\ Quiet(p) /\ boundary[r] # 0
  BY DEF Retried, Changeable
<1>2. /\ Len(grants') \in Nat /\ Extends(grants', grants)
      /\ \A u \in Sessions : Extends(saved'[ProjectOf[u]], saved[ProjectOf[u]])
  BY <1>0, <1>1, RowTypes, SameGrants, NothingStored
<1>3. HeadClean(s)'
  <2>1. SessionClean(h, s, picked[s], head[s], saved[p], boundary, final)
    BY DEF ConvInv, WorkFits, HeadClean
  <2>2. \A i \in 1..Len(h) : boundary[h[i]] \in 0..Len(saved[p]) /\ final[h[i]] \in 0..Len(saved[p])
    BY NamedStored
  <2>3. Clean(h, s, picked[s], Content(saved[p], boundary[r]), k)
    <3>1. Clean(h, s, picked[s], Content(saved[p], boundary[h[k + 1]]), (k + 1) - 1)
      BY <1>0, <1>1, <2>1 DEF SessionClean
    <3>2. (k + 1) - 1 = k
      BY <1>0
    <3>3. QED
      BY <1>0, <3>1, <3>2
  <2>4. hd.cp = boundary[r] /\ hd.cp \in 0..Len(saved[p])
    BY <1>0, <2>2
  <2>5. 0 <= k /\ k <= Len(h)
    BY <1>0
  <2>6. boundary[n] = 0 /\ final[n] = 0
    BY <1>1, NewRunIsUnseen
  <2> HIDE DEF h, k, hd, p
  <2>7. SessionClean(SubSeq(h, 1, k), s, picked[s], hd, saved[p], boundary, final)
    BY <1>0, <2>1, <2>2, <2>3, <2>4, <2>5, SessionCleanFirst
  <2>8. SubSeq(h, 1, k) \in Seq(Runs)
    BY <1>0, <2>5, PrefixIs
  <2>9. SessionClean(Append(SubSeq(h, 1, k), n), s, picked[s], hd, saved[p], boundary, final)
    BY <1>1, <2>6, <2>7, <2>8, SessionCleanAppend
  <2>10. QED
    BY <1>1, <2>9 DEF HeadClean, p
<1>4. ASSUME NEW u \in Sessions, u # s
      PROVE  HeadClean(u)' /\ (~head'[u].isolated => FollowerShowsAll(u)')
  <2>1. /\ history'[u] = history[u] /\ head'[u] = Pinned(p)[u]
        /\ UNCHANGED <<saved, boundary, final, picked>>
    BY <1>1, <1>4
  <2>2. \/ head'[u] = head[u]
        \/ Clean(history[u], u, picked'[u], Content(saved'[ProjectOf[u]], head'[u].cp),
                 Len(history[u]))
    BY <1>0, <2>1, PinnedClean
  <2>3. HeadClean(u)'
    BY <1>2, <2>1, <2>2, HeadCleanKept
  <2>4. head[u].isolated => head'[u].isolated
    BY <2>1 DEF Pinned
  <2>5. \A q \in Runs : SessionOf[q] = u /\ status'[q] # "absent" => status[q] # "absent"
    BY <1>1, <1>4
  <2>6. QED
    BY <2>1, <2>3, <2>4, <2>5, FollowerKept
<1>5. ASSUME NEW id \in 1..Len(grants), HoldsLiveLease(id)'
      PROVE  HoldsLiveLease(id) /\ SessionOfLease(id) \in Sessions /\ SessionOfLease(id) # s
  <2>1. HoldsLiveLease(id)
    BY <1>1, <1>5 DEF HoldsLiveLease
  <2>2. RunOf(id) \in Runs /\ SessionOfLease(id) \in Sessions
    BY <1>0, AttemptRun
  <2>3. lease[RunOf(id)].live /\ SessionOf[RunOf(id)] = SessionOfLease(id)
    BY <2>1, <2>2, AtWork
  <2>4. SessionOfLease(id) # s
    BY <1>1, <2>2, <2>3, AtRest
  <2>5. QED
    BY <2>1, <2>2, <2>4
<1>6. ASSUME NEW id \in 1..MaxLeases
      PROVE  (work'[id].pc # "none" => id \in 1..Len(grants')) /\ AttemptClean(id)'
  <2>1. id \in 1..Len(grants) /\ HoldsLiveLease(id)' =>
          LET v == SessionOfLease(id) IN
          HoldsLiveLease(id) /\ history'[v] = history[v] /\ picked[v] \subseteq picked'[v]
    BY <1>1, <1>5
  <2>2. QED
    BY <1>1, <1>2, <2>1, AttemptKept
<1>7. head'[s].isolated
  BY <1>1
<1>8. QED
  BY <1>3, <1>4, <1>6, <1>7 DEF WorkFits

-----------------------------------------------------------------------------
(* Types *)

\* The steps that leave the store's rows alone or write them by one of its transactions.
LEMMA RowTypesKept ==
  ASSUME TypeOK, ConvTypeOK,
         \/ UNCHANGED vars
         \/ \E r \in Runs : Allocate(r) \/ AppendTurn(r) \/ Lapse(r) \/ \E w \in Workers : Claim(r, w)
         \/ \E id \in 1..MaxLeases, o \in Outcome : End(id, o)
  PROVE  TypeOK'
<1>1. ASSUME NEW id \in 1..MaxLeases, NEW o \in Outcome, End(id, o) PROVE Next
  <2>1. id \in 1..Len(grants) /\ FinishRun(id, o)
    BY <1>1, RowTypes DEF End
  <2>2. QED
    BY <2>1 DEF Next, LeaseCall
<1>2. ASSUME NEW r \in Runs, Allocate(r) \/ AppendTurn(r) PROVE Next
  BY <1>2 DEF Allocate, AppendTurn, Next, Admission
<1>3. ASSUME NEW r \in Runs, Lapse(r) \/ \E w \in Workers : Claim(r, w) PROVE Next
  BY <1>3 DEF Lapse, Claim, Next, RunWrite
<1>4. [Next]_vars
  BY <1>1, <1>2, <1>3
<1>5. QED
  BY <1>4, StepType

LEMMA StoredType ==
  ASSUME TypeOK, ConvTypeOK, NEW p \in Projects, NEW store, Stores(p, store)
  PROVE  saved' \in [Projects -> Seq(SUBSET Runs)]
<1>1. SUBSET Prepared' \subseteq SUBSET Runs
  BY DEF Prepared
<1>2. store \in Seq(SUBSET Runs)
  BY <1>1, SeqMonotonic DEF Stores
<1>3. QED
  BY <1>2 DEF Stores, ConvTypeOK

LEMMA TypesAfterTurn ==
  ASSUME TypeOK, ConvTypeOK, NEW r \in Runs, Allocate(r) \/ AppendTurn(r) PROVE ConvTypeOK'
<1> DEFINE s == SessionOf[r]
<1>1. s \in Sessions /\ history[s] \in Seq(Runs)
  BY RowTypes
<1>2. <<r>> \in Seq(Runs) /\ Append(history[s], r) \in Seq(Runs)
  BY <1>1, AppendProperties
<1>3. history' \in [Sessions -> Seq(Runs)]
  BY <1>2 DEF Allocate, AppendTurn, ConvTypeOK
<1>4. UNCHANGED <<head, saved, boundary, final, archived, work, recorded, rewritten, picked>>
  BY DEF Allocate, AppendTurn
<1>5. QED
  BY <1>3, <1>4 DEF ConvTypeOK

LEMMA PinnedType ==
  ASSUME TypeOK, ConvTypeOK, NEW p \in Projects, NEW u \in Sessions, NEW cp \in Nat
  PROVE  [Pinned(p) EXCEPT ![u] = [isolated |-> TRUE, cp |-> cp]] \in [Sessions -> HeadRow]
<1>1. Latest(p) \in Nat /\ head \in [Sessions -> HeadRow]
  BY RowTypes DEF Latest, ConvTypeOK
<1>2. Pinned(p) \in [Sessions -> HeadRow]
  BY <1>1 DEF Pinned, HeadRow
<1>3. QED
  BY <1>2 DEF HeadRow

LEMMA TypesAfterBranch ==
  ASSUME TypeOK, ConvTypeOK, NEW s \in Sessions, NEW r \in Runs, NEW t \in Sessions, Branch(s, r, t)
  PROVE  TypeOK' /\ ConvTypeOK'
<1> DEFINE p == ProjectOf[s]
           k == Position(s, r)
<1>1. /\ session' = [session EXCEPT ![t] = [run |-> r, status |-> "ready"]]
      /\ sandbox' = [sandbox EXCEPT ![t] = "allocating"]
      /\ history' = [history EXCEPT ![t] = SubSeq(history[s], 1, k)]
      /\ head' = [Pinned(p) EXCEPT ![t] = [isolated |-> TRUE, cp |-> BranchPoint(r)]]
      /\ rewritten' = rewritten \cup RewrittenBy(p)
      /\ picked' = [picked EXCEPT ![t] = picked[s]]
      /\ UNCHANGED <<status, cancelled, question, answer, parked, lease, grants, asked, endedBy,
                     saved, boundary, final, archived, work, recorded>>
      /\ Changeable(s, r)
  BY DEF Branch
<1>2. TypeOK'
  BY <1>1 DEF TypeOK, SessionStatus, SandboxStatus
<1>3. SubSeq(history[s], 1, k) \in Seq(Runs)
  BY <1>1, RowTypes, PositionIs, PrefixIs
<1>4. history' \in [Sessions -> Seq(Runs)]
  BY <1>1, <1>3 DEF ConvTypeOK
<1>5. BranchPoint(r) \in Nat /\ p \in Projects
  BY RowTypes DEF BranchPoint, ConvTypeOK
<1>6. head' \in [Sessions -> HeadRow]
  BY <1>1, <1>5, PinnedType
<1>7. rewritten' \subseteq Sessions /\ picked' \in [Sessions -> SUBSET Runs]
  BY <1>1 DEF ConvTypeOK, RewrittenBy
<1>8. QED
  BY <1>1, <1>2, <1>4, <1>6, <1>7 DEF ConvTypeOK

LEMMA TypesAfterRetry ==
  ASSUME TypeOK, ConvTypeOK, NEW s \in Sessions, NEW r \in Runs, NEW q \in Runs, Retry(s, r, q)
  PROVE  TypeOK' /\ ConvTypeOK'
<1> DEFINE p == ProjectOf[s]
           k == Position(s, r) - 1
<1>1. /\ status' = [status EXCEPT ![q] = "queued"]
      /\ session' = [session EXCEPT ![s] = [run |-> q, status |-> "ready"]]
      /\ history' = [history EXCEPT ![s] = Append(SubSeq(@, 1, k), q)]
      /\ head' = [Pinned(p) EXCEPT ![s] = [isolated |-> TRUE, cp |-> Baseline(r)]]
      /\ rewritten' = rewritten \cup RewrittenBy(p)
      /\ UNCHANGED <<cancelled, question, answer, parked, lease, grants, asked, sandbox, endedBy,
                     saved, boundary, final, archived, work, recorded, picked>>
      /\ Changeable(s, r)
  BY DEF Retry
<1>2. TypeOK'
  BY <1>1 DEF TypeOK, SessionStatus, RunStatus
<1>3. k \in Int /\ 0 <= k /\ k <= Len(history[s]) /\ history[s] \in Seq(Runs)
  BY <1>1, RowTypes, PositionIs
<1>4. Append(SubSeq(history[s], 1, k), q) \in Seq(Runs)
  BY <1>3, PrefixIs, AppendProperties
<1>5. history' \in [Sessions -> Seq(Runs)]
  BY <1>1, <1>4 DEF ConvTypeOK
<1>6. Baseline(r) \in Nat /\ p \in Projects
  BY RowTypes DEF Baseline, ConvTypeOK
<1>7. head' \in [Sessions -> HeadRow]
  BY <1>1, <1>6, PinnedType
<1>8. rewritten' \subseteq Sessions
  BY <1>1 DEF ConvTypeOK, RewrittenBy
<1>9. QED
  BY <1>1, <1>2, <1>5, <1>7, <1>8 DEF ConvTypeOK

LEMMA TypesAfterRestore ==
  ASSUME ConvInv, NEW s \in Sessions, NEW cp, RestoreWorkspace(s, cp) PROVE ConvTypeOK'
<1> DEFINE p == ProjectOf[s]
<1>0. TypeOK /\ ConvTypeOK /\ p \in Projects
  BY RowTypes DEF ConvInv
<1>1. Restored(s, cp)
  BY RestoreMoves
<1>2. saved' \in [Projects -> Seq(SUBSET Runs)]
  BY <1>0, <1>1, StoredType DEF Restored
<1>3. \/ /\ head' = [head EXCEPT ![s] = [isolated |-> TRUE, cp |-> Latest(p) + 2]]
         /\ picked' = [picked EXCEPT ![s] = @ \cup saved[p][cp]]
      \/ UNCHANGED <<head, picked>>
  BY DEF RestoreWorkspace
<1>4. Latest(p) + 2 \in Nat /\ saved[p][cp] \subseteq Runs
  BY <1>0, <1>1, RowTypes DEF Restored, Latest
<1>5. head' \in [Sessions -> HeadRow]
  <2>1. head \in [Sessions -> HeadRow] /\ [isolated |-> TRUE, cp |-> Latest(p) + 2] \in HeadRow
    BY <1>0, <1>4 DEF ConvTypeOK, HeadRow
  <2>2. QED
    BY <1>3, <2>1
<1>6. picked' \in [Sessions -> SUBSET Runs]
  <2>1. picked \in [Sessions -> SUBSET Runs]
    BY <1>0 DEF ConvTypeOK
  <2>2. QED
    BY <1>3, <1>4, <2>1
<1>7. QED
  BY <1>0, <1>1, <1>2, <1>5, <1>6 DEF Restored, ConvTypeOK

LEMMA TypesAfterPrepare ==
  ASSUME ConvInv, NEW id \in 1..MaxLeases, NEW base, PreparedFrom(id, base) PROVE ConvTypeOK'
<1> DEFINE p == ProjectOf[SessionOfLease(id)]
           r == RunOf(id)
<1>0. TypeOK /\ ConvTypeOK /\ id \in 1..Len(grants)
  BY DEF ConvInv, PreparedFrom
<1>1. p \in Projects /\ r \in Runs
  BY <1>0, AttemptRun
<1>2. saved' \in [Projects -> Seq(SUBSET Runs)]
  BY <1>0, <1>1, StoredType DEF PreparedFrom
<1>3. Len(saved'[p]) \in Nat
  BY <1>1, <1>2, LenProperties
<1>4. boundary' \in [Runs -> Nat]
  BY <1>0, <1>1, <1>3 DEF PreparedFrom, ConvTypeOK
<1>5. base \cup {r} \subseteq Runs
  BY <1>1 DEF PreparedFrom, Prepared
<1>6. work' \in [1..MaxLeases -> Attempt]
  BY <1>0, <1>5 DEF PreparedFrom, ConvTypeOK, Attempt
<1>7. QED
  BY <1>0, <1>2, <1>4, <1>6 DEF PreparedFrom, ConvTypeOK

LEMMA TypesAfterSave ==
  ASSUME ConvInv, NEW id \in 1..MaxLeases, Save(id) \/ Recover(id), SavedBy(id) PROVE ConvTypeOK'
<1> DEFINE p == ProjectOf[SessionOfLease(id)]
<1>0. TypeOK /\ ConvTypeOK /\ id \in 1..Len(grants)
  BY DEF ConvInv, SavedBy
<1>1. p \in Projects /\ Latest(p) + 1 \in Nat
  BY <1>0, AttemptRun, RowTypes DEF Latest
<1>2. saved' \in [Projects -> Seq(SUBSET Runs)]
  BY <1>0, <1>1, StoredType DEF SavedBy
<1>3. work \in [1..MaxLeases -> Attempt] /\ work'[id].files \subseteq Runs
  BY <1>0 DEF ConvTypeOK, SavedBy, Prepared
<1>4. work' \in [1..MaxLeases -> Attempt]
  <2>1. CASE Save(id)
    BY <1>1, <1>3, <2>1 DEF Save, Attempt
  <2>2. CASE Recover(id)
    <3>1. ASSUME NEW files,
                 work' = [work EXCEPT ![id] = [pc |-> "recovered", files |-> files, cp |-> Latest(p) + 1]]
          PROVE  work' \in [1..MaxLeases -> Attempt]
      <4>1. work'[id].files = files
        BY <1>3, <3>1
      <4>2. QED
        BY <1>1, <1>3, <3>1, <4>1 DEF Attempt
    <3>2. ASSUME work' = [work EXCEPT ![id].pc = "over"] PROVE work' \in [1..MaxLeases -> Attempt]
      BY <1>3, <3>2 DEF Attempt
    <3>3. QED
      BY <2>2, <3>1, <3>2 DEF Recover
  <2>3. QED
    BY <2>1, <2>2
<1>5. UNCHANGED <<history, head, boundary, final, archived, recorded, rewritten, picked>>
  BY DEF SavedBy
<1>6. QED
  BY <1>0, <1>2, <1>4, <1>5 DEF ConvTypeOK

LEMMA TypesAfterPublish ==
  ASSUME ConvInv, NEW id \in 1..MaxLeases, Publish(id) \/ PublishRecovered(id) PROVE ConvTypeOK'
<1>0. TypeOK /\ ConvTypeOK
  BY DEF ConvInv
<1>1. /\ work' = [work EXCEPT ![id].pc = "over"]
      /\ UNCHANGED <<history, saved, boundary, archived, rewritten>>
      /\ \/ /\ head' = [head EXCEPT ![SessionOfLease(id)] = [isolated |-> TRUE, cp |-> work[id].cp]]
            /\ final' = [final EXCEPT ![RunOf(id)] = work[id].cp]
         \/ UNCHANGED <<head, final>>
  BY DEF Publish, PublishRecovered, PublishCheckpoint
<1>2. work[id] \in Attempt
  BY <1>0 DEF ConvTypeOK
<1>3. work' \in [1..MaxLeases -> Attempt]
  BY <1>0, <1>1, <1>2 DEF ConvTypeOK, Attempt
<1>4. work[id].cp \in Nat
  BY <1>2 DEF Attempt
<1>5. head' \in [Sessions -> HeadRow]
  <2>1. head \in [Sessions -> HeadRow] /\ [isolated |-> TRUE, cp |-> work[id].cp] \in HeadRow
    BY <1>0, <1>4 DEF ConvTypeOK, HeadRow
  <2>2. QED
    BY <1>1, <2>1
<1>6. final' \in [Runs -> Nat]
  BY <1>0, <1>1, <1>4 DEF ConvTypeOK
<1>7. picked' \in [Sessions -> SUBSET Runs] /\ recorded' \subseteq Runs
  BY PublishMoves DEF PublishedBy
<1>8. QED
  BY <1>0, <1>1, <1>3, <1>5, <1>6, <1>7 DEF ConvTypeOK

-----------------------------------------------------------------------------
(* The invariant *)

LEMMA ConvInitInv == ConvInit => ConvInv
<1> SUFFICES ASSUME ConvInit PROVE ConvInv
  OBVIOUS
<1>1. Init /\ TypeOK /\ OnlyLatestTurnPending
  BY InitIInv DEF ConvInit, IInv
<1>2. /\ history = [s \in Sessions |-> <<>>]
      /\ head = [s \in Sessions |-> [isolated |-> FALSE, cp |-> 0]]
      /\ saved = [p \in Projects |-> <<>>]
      /\ boundary = [r \in Runs |-> 0] /\ final = [r \in Runs |-> 0]
      /\ archived = [s \in Sessions |-> FALSE]
      /\ work = [id \in 1..MaxLeases |-> [pc |-> "none", files |-> {}, cp |-> 0]]
      /\ recorded = {} /\ rewritten = {} /\ picked = [s \in Sessions |-> {}]
  BY DEF ConvInit
<1>3. /\ \A r \in Runs : status[r] = "absent" /\ ~lease[r].live
      /\ \A s \in Sessions : session[s].run = None
  BY <1>1 DEF Init, NoLease
<1>4. /\ \A s \in Sessions : history[s] = <<>> /\ Len(history[s]) = 0 /\ head[s].cp = 0
                             /\ ~head[s].isolated /\ ~archived[s] /\ s \notin rewritten
      /\ \A p \in Projects : saved[p] = <<>> /\ Len(saved[p]) = 0
      /\ \A r \in Runs : boundary[r] = 0 /\ final[r] = 0
      /\ \A id \in 1..MaxLeases : work[id].pc = "none" /\ work[id].files = {}
  BY <1>2
<1>5. ConvTypeOK
  BY <1>2 DEF ConvTypeOK, HeadRow, Attempt
<1>6. LeasesFit
  BY <1>3 DEF LeasesFit
<1>7. TurnsFit
  BY <1>3, <1>4, SessionOfType
     DEF TurnsFit, RunsHaveSessions, Exists, Blank, ShowsTurns, Shows, Unfinished
<1>8. CheckpointsFit
  BY <1>3, <1>4, RowTypes, <1>1, <1>5 DEF CheckpointsFit, Stored, HasSnapshot
<1>9. FilesFit
  BY <1>4 DEF FilesFit
<1>10. WorkFits
  BY <1>3, <1>4 DEF WorkFits, HeadClean, SessionClean, FollowerShowsAll, AttemptClean
<1>11. QED
  BY <1>1, <1>5, <1>6, <1>7, <1>8, <1>9, <1>10 DEF ConvInv

LEMMA InvAfterMove ==
  ASSUME ConvInv, StoreMove, TypeOK', LeasesFit' PROVE ConvInv'
<1>1. /\ UNCHANGED <<history, head, saved, boundary, final, archived, work, recorded, rewritten, picked>>
      /\ \A t \in Sessions : session'[t].run = session[t].run
      /\ \A q \in Runs : (status'[q] = "absent" <=> status[q] = "absent") /\ (Unfinished(q)' => Unfinished(q))
      /\ Len(grants') \in Nat /\ Extends(grants', grants)
      /\ \A id \in 1..Len(grants) : HoldsLiveLease(id)' => HoldsLiveLease(id)
  BY DEF StoreMove, convVars
<1>2. ConvTypeOK'
  BY <1>1 DEF ConvInv, ConvTypeOK
<1>3. OnlyLatestTurnPending'
  BY <1>1, LatestKept DEF ConvInv
<1>4. TurnsFit'
  BY <1>1, TurnsKept
<1>5. CheckpointsFit' /\ FilesFit'
  BY <1>1, CheckpointsAfterMove
<1>6. WorkFits'
  BY <1>1, WorkAfterMove
<1>7. QED
  BY <1>2, <1>3, <1>4, <1>5, <1>6 DEF ConvInv

\* Steps that leave the store's rows alone.
LEMMA RowsStill ==
  ASSUME ConvInv, UNCHANGED vars PROVE TypeOK' /\ OnlyLatestTurnPending' /\ LeasesFit'
<1>1. UNCHANGED <<status, session, lease, grants>>
  BY DEF vars
<1>2. \A q \in Runs : Unfinished(q)' = Unfinished(q)
  BY <1>1 DEF Unfinished
<1>3. QED
  BY <1>1, <1>2, RowTypesKept, LatestKept, LeasesKept DEF ConvInv

LEMMA TurnsStill ==
  ASSUME ConvInv, UNCHANGED <<vars, history, archived, rewritten>>,
         \A s \in Sessions : head'[s].isolated => head[s].isolated \/ Exists(s)
  PROVE  TurnsFit'
<1>1. UNCHANGED <<status, session>>
  BY DEF vars
<1>2. \A q \in Runs : Unfinished(q)' = Unfinished(q)
  BY <1>1 DEF Unfinished
<1>3. QED
  BY <1>1, <1>2, TurnsKept

LEMMA InvAfterTurn ==
  ASSUME ConvInv, NEW r \in Runs, Allocate(r) \/ AppendTurn(r) PROVE ConvInv'
<1>1. NewTurn(r)
  BY TurnMoves
<1>2. /\ UNCHANGED <<head, saved, boundary, final, work, rewritten, lease, grants>>
      /\ \A q \in Runs : status'[q] = IF q = r THEN "queued" ELSE status[q]
  BY <1>1 DEF NewTurn
<1>3. TypeOK' /\ ConvTypeOK'
  BY RowTypesKept, TypesAfterTurn DEF ConvInv
<1>4. CheckpointsFit' /\ FilesFit'
  <2>1. Len(grants') \in Nat /\ Extends(grants', grants)
    BY <1>2, RowTypes, SameGrants DEF ConvInv
  <2>2. QED
    BY <1>2, <2>1, CheckpointsAfterMove
<1>5. QED
  BY <1>1, <1>2, <1>3, <1>4, LatestAfterTurn, LeasesAfterTurn, TurnsAfterTurn, WorkAfterTurn
     DEF ConvInv

LEMMA InvAfterUpdate ==
  ASSUME ConvInv, NEW s \in Sessions, NEW on \in BOOLEAN, UpdateConversation(s, on) PROVE ConvInv'
<1>1. /\ UNCHANGED <<vars, history, head, saved, boundary, final, work, recorded, rewritten, picked>>
      /\ archived' = [archived EXCEPT ![s] = on]
  BY DEF UpdateConversation
<1>2. UNCHANGED <<status, lease, grants>>
  BY <1>1 DEF vars
<1>3. ConvTypeOK'
  BY <1>1 DEF ConvInv, ConvTypeOK
<1>4. Len(grants') \in Nat /\ Extends(grants', grants)
  BY <1>2, RowTypes, SameGrants DEF ConvInv
<1>5. CheckpointsFit' /\ FilesFit'
  BY <1>1, <1>2, <1>4, CheckpointsAfterMove
<1>6. WorkFits'
  BY <1>1, <1>2, <1>4, WorkAfterMove DEF HoldsLiveLease
<1>7. QED
  BY <1>1, <1>3, <1>5, <1>6, RowsStill, TurnsAfterUpdate DEF ConvInv

LEMMA InvAfterRestore ==
  ASSUME ConvInv, NEW s \in Sessions, NEW cp, RestoreWorkspace(s, cp) PROVE ConvInv'
<1>1. Restored(s, cp)
  BY RestoreMoves
<1>2. UNCHANGED <<vars, history, archived, rewritten>>
  BY <1>1 DEF Restored
<1>3. \A u \in Sessions : head'[u].isolated => head[u].isolated \/ Exists(u)
  BY <1>1 DEF Restored
<1>4. QED
  BY <1>1, <1>2, <1>3, RowsStill, TurnsStill, TypesAfterRestore, CheckpointsAfterRestore,
     WorkAfterRestore DEF ConvInv

LEMMA InvAfterBranch ==
  ASSUME ConvInv, NEW s \in Sessions, NEW r \in Runs, NEW t \in Sessions, Branch(s, r, t)
  PROVE  ConvInv'
<1>1. Branched(s, r, t)
  BY BranchMoves DEF ConvInv
<1>2. TypeOK' /\ ConvTypeOK'
  BY TypesAfterBranch DEF ConvInv
<1>3. LeasesFit'
  <2>1. UNCHANGED <<status, lease, grants>>
    BY <1>1 DEF Branched
  <2>2. QED
    BY <2>1, LeasesKept DEF ConvInv, Unfinished
<1>4. QED
  BY <1>1, <1>2, <1>3, LatestAfterBranch, TurnsAfterBranch, CheckpointsAfterBranch, WorkAfterBranch
     DEF ConvInv

LEMMA InvAfterRetry ==
  ASSUME ConvInv, NEW s \in Sessions, NEW r \in Runs, NEW q \in Runs, Retry(s, r, q) PROVE ConvInv'
<1>1. Retried(s, r, q)
  BY RetryMoves DEF ConvInv
<1>2. TypeOK' /\ ConvTypeOK'
  BY TypesAfterRetry DEF ConvInv
<1>3. LeasesFit'
  <2>1. /\ UNCHANGED <<lease, grants>>
        /\ \A x \in Runs : status'[x] = IF x = q THEN "queued" ELSE status[x]
    BY <1>1 DEF Retried
  <2>2. QED
    BY <2>1, LeasesAfterTurn
<1>4. QED
  BY <1>1, <1>2, <1>3, LatestAfterRetry, TurnsAfterRetry, CheckpointsAfterRetry, WorkAfterRetry
     DEF ConvInv

LEMMA InvAfterPrepare == ASSUME ConvInv, NEW id \in 1..MaxLeases, Prepare(id) PROVE ConvInv'
<1>1. PICK base : PreparedFrom(id, base)
  BY PrepareMoves
<1>2. UNCHANGED <<vars, history, head, archived, rewritten>>
  BY <1>1 DEF PreparedFrom
<1>3. QED
  BY <1>1, <1>2, RowsStill, TurnsStill, TypesAfterPrepare, CheckpointsAfterPrepare, WorkAfterPrepare
     DEF ConvInv

LEMMA InvAfterSave ==
  ASSUME ConvInv, NEW id \in 1..MaxLeases, Save(id) \/ Recover(id), SavedBy(id) PROVE ConvInv'
<1>1. UNCHANGED <<vars, history, head, archived, rewritten>>
  BY DEF SavedBy
<1>2. QED
  BY <1>1, RowsStill, TurnsStill, TypesAfterSave, CheckpointsAfterSave, WorkAfterSave DEF ConvInv

LEMMA InvAfterLeft == ASSUME ConvInv, NEW id \in 1..MaxLeases, LeftBy(id) PROVE ConvInv'
<1>1. UNCHANGED <<vars, history, head, archived, rewritten>>
  BY DEF LeftBy
<1>2. ConvTypeOK'
  BY DEF LeftBy, ConvInv, ConvTypeOK
<1>3. QED
  BY <1>1, <1>2, RowsStill, TurnsStill, CheckpointsAfterLeft, WorkAfterLeft DEF ConvInv

LEMMA InvAfterPublish ==
  ASSUME ConvInv, NEW id \in 1..MaxLeases, Publish(id) \/ PublishRecovered(id) PROVE ConvInv'
<1>1. PublishedBy(id)
  BY PublishMoves
<1>2. UNCHANGED <<vars, history, archived, rewritten>>
  BY <1>1 DEF PublishedBy
<1>3. \A u \in Sessions : head'[u].isolated => head[u].isolated \/ Exists(u)
  <2>1. HoldsLiveLease(id) => Exists(SessionOfLease(id))
    BY <1>1, AttemptRun, AtWork DEF PublishedBy, ConvInv
  <2>2. QED
    BY <1>1, <2>1 DEF PublishedBy
<1>4. QED
  BY <1>1, <1>2, <1>3, RowsStill, TurnsStill, TypesAfterPublish, CheckpointsAfterPublish,
     WorkAfterPublish DEF ConvInv

LEMMA ConvStepInv == ConvInv /\ [ConvNext]_convState => ConvInv'
<1> SUFFICES ASSUME ConvInv, [ConvNext]_convState PROVE ConvInv'
  OBVIOUS
<1>0. TypeOK /\ ConvTypeOK
  BY DEF ConvInv
<1>1. ASSUME NEW r \in Runs, NEW w \in Workers, Claim(r, w) PROVE ConvInv'
  BY <1>0, <1>1, ClaimMoves, RowTypesKept, LeasesAfterClaim, InvAfterMove
<1>2. ASSUME NEW r \in Runs, Lapse(r) PROVE ConvInv'
  BY <1>0, <1>2, LapseMoves, RowTypesKept, LeasesAfterLapse, InvAfterMove
<1>3. ASSUME NEW id \in 1..MaxLeases, NEW o \in Outcome, End(id, o) PROVE ConvInv'
  BY <1>0, <1>3, EndMoves, RowTypesKept, LeasesAfterEnd, InvAfterMove
<1>4. CASE UserStep
  BY <1>4, InvAfterUpdate, InvAfterRestore DEF UserStep
<1>5. CASE ChangeStep
  BY <1>5, InvAfterTurn, InvAfterBranch, InvAfterRetry DEF ChangeStep
<1>6. CASE WorkerStep
  <2>1. ASSUME NEW id \in 1..MaxLeases, Save(id) \/ Recover(id) \/ Record(id) PROVE ConvInv'
    BY <2>1, SaveMoves, RecoverMoves, RecordMoves, InvAfterSave, InvAfterLeft
  <2>2. QED
    BY <1>1, <1>2, <1>3, <1>6, <2>1, InvAfterPrepare, InvAfterPublish DEF WorkerStep
<1>7. CASE UNCHANGED convState
  <2>1. UNCHANGED vars /\ UNCHANGED convVars
    BY <1>7 DEF convState
  <2>2. UNCHANGED <<status, session, lease, grants>>
    BY <2>1 DEF vars
  <2>3. StoreMove
    BY <1>0, <2>1, <2>2, RowTypes, SameGrants DEF StoreMove, Unfinished, HoldsLiveLease
  <2>4. QED
    BY <2>1, <2>3, RowsStill, InvAfterMove
<1>8. QED
  BY <1>4, <1>5, <1>6, <1>7 DEF ConvNext

\* What a conversation shows, starts from and publishes fits the store at every step.
THEOREM ConvInvariance == ConvSpec => []ConvInv
<1>1. QED
  BY ConvInitInv, ConvStepInv, PTL DEF ConvSpec

\* A conversation shows its latest run last, each run once, and nothing is at work that it
\* does not show: over turns, branches, retries, archiving and stale ends.
THEOREM ConversationsShowTheirWork == ConvSpec => []TurnsFitHistory
<1>1. ConvInv => TurnsFitHistory
  <2> SUFFICES ASSUME ConvInv PROVE TurnsFitHistory
    OBVIOUS
  <2>0. TypeOK /\ ConvTypeOK /\ TurnsFit
    BY DEF ConvInv
  <2>1. ASSUME NEW s \in Sessions
        PROVE  /\ Exists(s) => history[s] # <<>> /\ Last(history[s]) = session[s].run
               /\ \A i, j \in DOMAIN history[s] : history[s][i] = history[s][j] => i = j
               /\ \A r \in Runs : SessionOf[r] = s /\ Unfinished(r) =>
                      ~archived[s] /\ r = Last(history[s])
    <3>1. Shows(history[s], s, session[s].run, status)
      BY <2>0 DEF TurnsFit, ShowsTurns
    <3>2. DOMAIN history[s] = 1..Len(history[s])
      BY <2>0, RowTypes
    <3>3. ASSUME NEW r \in Runs, SessionOf[r] = s, Unfinished(r)
          PROVE  ~archived[s] /\ r = Last(history[s])
      <4>1. session[s].run = r /\ r # None
        BY <3>3, NoneIsNoValue DEF ConvInv, OnlyLatestTurnPending
      <4>2. QED
        BY <2>0, <3>1, <3>3, <4>1 DEF Shows, TurnsFit
    <3>4. QED
      BY <3>1, <3>2, <3>3 DEF Shows, Exists
  <2>2. QED
    BY <2>0, <2>1 DEF TurnsFitHistory
<1>2. QED
  BY ConvInvariance, <1>1, PTL

\* The work of a turn that a retry discarded, or that came after the point a branch started
\* from, is not in the conversation's files unless its user restored it or a worker recovered
\* it for a run that had its outcome, whatever late attempts save and publish.
THEOREM DiscardedWork == ConvSpec => []DiscardedWorkStaysOut
<1>1. ConvInv => DiscardedWorkStaysOut
  <2> SUFFICES ASSUME ConvInv, NEW s \in Sessions, head[s].isolated,
                      NEW x \in Files(ProjectOf[s], head[s].cp) \ picked[s],
                      SessionOf[x] = s \/ \E i \in DOMAIN history[s] : SessionOf[history[s][i]] = SessionOf[x]
               PROVE  \E i \in DOMAIN history[s] : history[s][i] = x
    BY DEF DiscardedWorkStaysOut, FilesFitTurns
  <2>1. DOMAIN history[s] = 1..Len(history[s])
    BY RowTypes DEF ConvInv
  <2>2. Clean(history[s], s, picked[s], Content(saved[ProjectOf[s]], head[s].cp), Len(history[s]))
    BY DEF ConvInv, WorkFits, HeadClean, SessionClean
  <2>3. x \in Content(saved[ProjectOf[s]], head[s].cp)
    BY DEF Files, Content
  <2>4. QED
    BY <2>1, <2>2, <2>3 DEF Clean, Related
<1>2. QED
  BY ConvInvariance, <1>1, PTL

\* Checkpoints stand once they are saved, so an isolated conversation whose head stays keeps
\* its files.
LEMMA BaseStands ==
  ASSUME ConvInv, NEW s \in Sessions, s \in rewritten, head'[s] = head[s],
         \A q \in Projects : Extends(saved'[q], saved[q])
  PROVE  BaseFiles(s)' = BaseFiles(s)
<1> DEFINE p == ProjectOf[s]
           cp == head[s].cp
<1>1. p \in Projects /\ Len(saved[p]) \in Nat
  BY RowTypes DEF ConvInv
<1>2. head[s].isolated /\ cp # 0 /\ cp \in 1..Len(saved[p])
  BY <1>1 DEF ConvInv, CheckpointsFit, Stored
<1>3. BaseOf(s) = cp /\ BaseOf(s)' = cp
  BY <1>2 DEF BaseOf
<1>4. saved'[p][cp] = saved[p][cp]
  BY <1>1, <1>2 DEF Extends
<1>5. QED
  BY <1>2, <1>3, <1>4 DEF BaseFiles, Files

\* Once a conversation of the project was branched or retried, the files of the others
\* change only with their own turns, retries and restores.
THEOREM OthersKeepTheirFiles == ConvSpec => OthersFilesStand
<1> DEFINE Own(s) == \/ \E id \in DOMAIN grants : SessionOfLease(id) = s /\ (Publish(id) \/ PublishRecovered(id))
                     \/ \E r, q \in Runs : Retry(s, r, q)
                     \/ \E cp \in 1..Latest(ProjectOf[s]) : RestoreWorkspace(s, cp)
           Stands(s) == BaseFiles(s)' # BaseFiles(s) => Own(s)
<1>1. ASSUME ConvInv, [ConvNext]_convState, NEW s \in Sessions, s \in rewritten PROVE Stands(s)
  <2> USE <1>1
  <2>0. /\ TypeOK /\ ConvTypeOK /\ Exists(s) /\ head[s].isolated
        /\ \A p \in Projects : Pinned(p)[s] = head[s]
    BY DEF ConvInv, TurnsFit, Blank, CheckpointsFit, Pinned
  <2>1. ASSUME head'[s] = head[s], UNCHANGED saved PROVE Stands(s)
    BY <2>0, <2>1, NothingStored, BaseStands
  <2>2. ASSUME head'[s] = head[s], NEW p \in Projects, \E store : Stores(p, store) PROVE Stands(s)
    BY <2>0, <2>2, StoreLen, BaseStands
  <2>3. CASE UserStep
    <3>1. ASSUME NEW u \in Sessions, NEW on \in BOOLEAN, UpdateConversation(u, on) PROVE Stands(s)
      BY <2>1, <3>1 DEF UpdateConversation
    <3>2. ASSUME NEW u \in Sessions, NEW cp \in 1..Latest(ProjectOf[u]), RestoreWorkspace(u, cp)
          PROVE  Stands(s)
      <4>1. CASE u = s
        BY <3>2, <4>1
      <4>2. CASE u # s
        <5>1. Restored(u, cp)
          BY <3>2, RestoreMoves
        <5>2. head'[s] = head[s] /\ \E store : Stores(ProjectOf[u], store)
          BY <4>2, <5>1 DEF Restored
        <5>3. QED
          BY <2>0, <2>2, <5>2, RowTypes
      <4>3. QED
        BY <4>1, <4>2
    <3> HIDE DEF Stands
    <3>3. QED
      BY <2>3, <3>1, <3>2 DEF UserStep
  <2>4. CASE ChangeStep
    <3>1. ASSUME NEW r \in Runs, Allocate(r) \/ AppendTurn(r) PROVE Stands(s)
      BY <2>1, <3>1 DEF Allocate, AppendTurn
    <3>2. ASSUME NEW u \in Sessions, NEW r \in Runs, NEW t \in Sessions, Branch(u, r, t)
          PROVE  Stands(s)
      <4>1. Branched(u, r, t)
        BY <2>0, <3>2, BranchMoves
      <4>2. s # t
        BY <2>0, <4>1 DEF Branched
      <4>3. head'[s] = head[s] /\ UNCHANGED saved
        BY <2>0, <4>1, <4>2, RowTypes DEF Branched
      <4>4. QED
        BY <2>1, <4>3
    <3>3. ASSUME NEW u \in Sessions, NEW r \in Runs, NEW q \in Runs, Retry(u, r, q)
          PROVE  Stands(s)
      <4>1. CASE u = s
        BY <3>3, <4>1
      <4>2. CASE u # s
        <5>1. Retried(u, r, q)
          BY <2>0, <3>3, RetryMoves
        <5>2. head'[s] = head[s] /\ UNCHANGED saved
          BY <2>0, <4>2, <5>1, RowTypes DEF Retried
        <5>3. QED
          BY <2>1, <5>2
      <4>3. QED
        BY <4>1, <4>2
    <3> HIDE DEF Stands
    <3>4. QED
      BY <2>4, <3>1, <3>2, <3>3 DEF ChangeStep
  <2>5. CASE WorkerStep
    <3>1. ASSUME UNCHANGED convVars PROVE Stands(s)
      BY <2>1, <3>1 DEF convVars
    <3>2. ASSUME NEW id \in 1..MaxLeases, Prepare(id) PROVE Stands(s)
      <4>1. PICK base : PreparedFrom(id, base)
        BY <3>2, PrepareMoves
      <4>2. /\ head'[s] = head[s] /\ \E store : Stores(ProjectOf[SessionOfLease(id)], store)
            /\ ProjectOf[SessionOfLease(id)] \in Projects
        BY <2>0, <4>1, AttemptRun DEF PreparedFrom
      <4>3. QED
        BY <2>2, <4>2
    <3>3. ASSUME NEW id \in 1..MaxLeases, SavedBy(id) PROVE Stands(s)
      <4>2. /\ head'[s] = head[s] /\ \E store : Stores(ProjectOf[SessionOfLease(id)], store)
            /\ ProjectOf[SessionOfLease(id)] \in Projects
        BY <2>0, <3>3, AttemptRun DEF SavedBy
      <4>3. QED
        BY <2>2, <4>2
    <3>4. ASSUME NEW id \in 1..MaxLeases, Publish(id) \/ PublishRecovered(id) PROVE Stands(s)
      <4>1. PublishedBy(id)
        BY <3>4, PublishMoves
      <4>2. CASE SessionOfLease(id) = s
        <5>1. id \in DOMAIN grants
          BY <2>0, <4>1, RowTypes DEF PublishedBy
        <5>2. QED
          BY <3>4, <4>2, <5>1
      <4>3. CASE SessionOfLease(id) # s
        <5>1. head'[s] = head[s] /\ UNCHANGED saved
          BY <4>1, <4>3 DEF PublishedBy
        <5>2. QED
          BY <2>1, <5>1
      <4>4. QED
        BY <4>2, <4>3
    <3>5. ASSUME NEW id \in 1..MaxLeases, LeftBy(id) PROVE Stands(s)
      BY <2>1, <3>5 DEF LeftBy
    <3> HIDE DEF Stands
    <3>6. ASSUME NEW id \in 1..MaxLeases, Save(id) \/ Recover(id) \/ Record(id) PROVE Stands(s)
      BY <3>3, <3>5, <3>6, SaveMoves, RecoverMoves, RecordMoves
    <3>7. QED
      BY <2>5, <3>1, <3>2, <3>4, <3>6 DEF WorkerStep, Claim, Lapse, End
  <2>6. CASE UNCHANGED convState
    BY <2>1, <2>6 DEF convState, convVars
  <2>7. QED
    BY <2>3, <2>4, <2>5, <2>6 DEF ConvNext
<1>2. ASSUME ConvInv, [ConvNext]_convState PROVE \A s \in rewritten : Stands(s)
  BY <1>1, <1>2 DEF ConvInv, ConvTypeOK
<1>3. QED
  BY ConvInvariance, <1>2, PTL DEF ConvSpec, OthersFilesStand

\* An attempt whose run was taken over, or whose session went on to another run, never moves
\* the conversation's head, however late it comes with the snapshot it saved.
THEOREM LateAttemptsPublishNothing == ConvSpec => TakenOverNeverPublishes
<1> DEFINE Newest(id) == (Publish(id) \/ PublishRecovered(id)) /\ head' # head =>
             \A j \in (id + 1)..Len(grants) : SessionOfLease(j) # SessionOfLease(id)
<1>1. ASSUME ConvInv, NEW id \in DOMAIN grants PROVE Newest(id)
  <2> SUFFICES ASSUME Publish(id) \/ PublishRecovered(id), head' # head, NEW j \in (id + 1)..Len(grants),
                      SessionOfLease(j) = SessionOfLease(id)
               PROVE  FALSE
    OBVIOUS
  <2>0. TypeOK /\ ConvTypeOK
    BY <1>1 DEF ConvInv
  <2>1. id \in 1..Len(grants) /\ Len(grants) \in Nat /\ j \in 1..Len(grants)
    BY <1>1, <2>0, RowTypes
  <2>2. HoldsLiveLease(id) /\ RunOf(id) \in Runs
    BY <2>0, <2>1, AttemptRun DEF Publish, PublishRecovered, PublishCheckpoint, MayPublish
  <2>3. lease[RunOf(id)].live /\ lease[RunOf(id)].id = id
    BY <2>2 DEF HoldsLiveLease, RunOf
  <2>4. j <= id
    BY <1>1, <2>1, <2>2, <2>3 DEF ConvInv, LeasesFit, SessionOfLease, RunOf
  <2>5. QED
    BY <2>1, <2>4
<1>2. ConvInv => \A id \in DOMAIN grants : Newest(id)
  BY <1>1
<1>3. QED
  BY ConvInvariance, <1>2, PTL DEF TakenOverNeverPublishes
=============================================================================
