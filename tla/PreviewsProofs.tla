--------------------------- MODULE PreviewsProofs ---------------------------
(***************************************************************************)
(* Proofs about Previews, for every set of runs, sessions, workers and API *)
(* calls and every value of the bounds: the store under the previews       *)
(* behaves as RunStore says, the last owner of a container takes it along  *)
(* unless a noted reason kept it, and a stopped preview becomes active     *)
(* again only for somebody who was at work with it when it was stopped.    *)
(***************************************************************************)
EXTENDS Previews, RunStoreProofs, FiniteSetTheorems, FunctionTheorems, SequenceTheorems,
        WellFoundedInduction

-----------------------------------------------------------------------------
(* The inductive invariant *)

\* What the rows, records, operations and calls hold names rows and records there are.
Row == [run: Runs, status: PreviewStatus]
RowsTyped(table) == table \in Seq(Row) /\ Len(table) <= MaxPreviews
RecordsTyped(table, records) ==
    /\ records \in Seq(Record) /\ Len(records) <= MaxRecords
    /\ \A k \in 1..Len(records) : records[k].row \in 1..Len(table)
RegistryTyped(records, registry) ==
    /\ registry \in [1..MaxPreviews -> 0..Len(records)]
    /\ \A p \in 1..MaxPreviews : registry[p] # 0 => records[registry[p]].row = p
CallFits(table, records, it) ==
    /\ it \in Call
    /\ it.pc \in {"looked", "adopt", "replace", "create"} => it.run \in Runs
    /\ it.pc \in {"adopt", "replace", "load", "register"} => it.row # 0
    /\ it.pc \in {"looked", "adopt", "replace"} /\ it.row # 0 => table[it.row].run = it.run
    /\ it.pc \in {"looked", "adopt", "replace", "load", "register"} => it.row \in 0..Len(table)
    /\ it.pc \in {"looked", "adopt"} /\ it.row # 0 => it.status \in Live
    /\ it.pc = "register" => it.status \in PreviewStatus
    /\ it.pc \in {"refresh", "failing"} => it.rec \in 1..Len(records)
Sent == {"ready", "failed", "stopped"}
WriteFits(table, w) == w.row \in 1..Len(table) /\ w.status \in Sent
OperationFits(table, records, s, op) ==
    /\ op \in Retirement
    /\ op.rec \in 1..Len(records)
    /\ SessionOf[table[records[op.rec].row].run] = s

RowsOK == RowsTyped(row)
RecordsOK == RecordsTyped(row, rec) /\ RegistryTyped(rec, byId)
CallsOK == call \in [Requests -> Call] /\ \A c \in Requests : CallFits(row, rec, call[c])
UpdatesOK ==
    /\ writes \subseteq [row: Nat, status: PreviewStatus]
    /\ \A w \in writes : WriteFits(row, w)
    /\ expired \subseteq Rows
RetirementsOK ==
    /\ retiring \in [Sessions -> Seq(Retirement)]
    /\ \A s \in Sessions : \A i \in 1..Len(retiring[s]) : OperationFits(row, rec, s, retiring[s][i])
HostOK ==
    /\ container \in [Sessions -> BOOLEAN]
    /\ attempt \in [1..MaxLeases -> Attempt]
    /\ left \in [Sessions -> Reason]

\* Only a service that is up has calls and a sweep under way.
ServiceFits ==
    /\ service \in {"up", "recovering", "down"}
    /\ service # "up" => expired = {} /\ \A c \in Requests : call[c] = Idle
    /\ crashes = 0 => service = "up"
    /\ crashes \in Nat

\* A registered record that is starting has not given up its start.
StartsAreUnderWay ==
    \A p \in 1..MaxPreviews :
        byId[p] # 0 /\ rec[byId[p]].status = "starting" => rec[byId[p]].begin # "over"

\* Somebody may still show the preview of row p.
Exposed(p) ==
    \/ \E w \in writes : w.row = p /\ w.status = "ready"
    \/ /\ byId[p] # 0
       /\ \/ rec[byId[p]].begin \in {"attach", "relay"}
          \/ rec[byId[p]].begin = "none" /\ rec[byId[p]].status = "starting"
    \/ \E c \in Requests :
          /\ call[c].row = p
          /\ \/ call[c].pc \in {"looked", "adopt"}
             \/ call[c].pc = "register" /\ call[c].status \in Live

\* Whoever may show a stopped preview was at work with it when it was stopped.
ExposedIsOverlapped == \A p \in Rows : row[p].status = "stopped" /\ Exposed(p) => p \in overlapped

\* Somebody will retire the preview of row p.
Kept(p) ==
    \/ p \in overlapped \/ byId[p] # 0
    \/ \E i \in 1..Len(retiring[SessionOfRow(p)]) :
          /\ retiring[SessionOfRow(p)][i].pc = "queued"
          /\ rec[retiring[SessionOfRow(p)][i].rec].row = p
    \/ \E c \in Requests : call[c].pc = "replace" /\ call[c].row = p
Shown(p) == row[p].status \in Live \/ \E w \in writes : w.row = p /\ w.status = "ready"
ShownIsKept == crashes = 0 => \A p \in Rows : Shown(p) => Kept(p)

\* The leases granted so far.
Leases == DOMAIN grants \cap 1..MaxLeases

\* An attempt has a lease, and holds it until it is over, gone or parked.
Held == {"driving", "kept", "discarding", "parking"}
AttemptsFit ==
    /\ \A id \in 1..MaxLeases : id \notin DOMAIN grants => attempt[id] = "none"
    /\ \A id \in Leases : attempt[id] \in Held => HoldsLiveLease(id)

\* Run r of session s is pending and nobody has started on it: a worker died with it, or
\* parked it, or has just claimed it.
WaitsFor(s, r) ==
    /\ SessionOf[r] = s /\ Unfinished(r)
    /\ \A id \in Leases : grants[id].run = r /\ HoldsLiveLease(id) => attempt[id] = "none"
Waits(s) == \E r \in Runs : WaitsFor(s, r)

\* Somebody will look after the container of session s.
AtWork == {"driving", "discarding", "parking"}
Responsible(s) ==
    \/ \E id \in Leases : SessionOfLease(id) = s /\ attempt[id] \in AtWork
    \/ \E p \in Rows : SessionOfRow(p) = s /\ (p \in overlapped \/ byId[p] # 0)
    \/ Len(retiring[s]) # 0
    \/ \E c \in Requests :
          \/ call[c].pc = "replace" /\ SessionOfRow(call[c].row) = s
          \/ call[c].pc = "create" /\ SessionOf[call[c].run] = s
    \/ Waits(s)
ContainersHaveOwners ==
    crashes = 0 => \A s \in Sessions : container[s] => left[s] # "none" \/ Responsible(s)

Fits == RowsOK /\ RecordsOK /\ CallsOK /\ UpdatesOK /\ RetirementsOK /\ HostOK /\ ServiceFits
PreviewInv ==
    /\ Fits /\ GrantedRunsStarted /\ AttemptsFit
    /\ StartsAreUnderWay /\ ExposedIsOverlapped
    /\ ShownIsKept /\ ContainersHaveOwners

-----------------------------------------------------------------------------
(* The store under the previews *)

LEMMA LeasedRun ==
  ASSUME IInv, NEW id \in DOMAIN grants PROVE grants[id].run \in Runs
<1>1. id \in 1..Len(grants)
  BY DEF IInv, TypeOK
<1>2. QED
  BY <1>1, GrantOf DEF IInv

\* Whatever the previews do, the store only makes steps of its own.
LEMMA PreviewStepIsStoreStep == IInv /\ [PreviewNext]_previewVars => [Next]_vars
<1> SUFFICES ASSUME IInv, [PreviewNext]_previewVars PROVE [Next]_vars
  OBVIOUS
<1>1. CASE CallStep
  BY <1>1 DEF CallStep, StartLook, StartDecide, StartAdopt, StartReplace, StartCreate, Ask,
              LoadRead, LoadRegister, Refresh, RefreshFails
<1>2. CASE ServiceStep
  BY <1>2 DEF ServiceStep, BeginAttach, BeginRelay, WriteCommits, SweepRecord, SweepList,
              SweepRetire, Crash, Recover, Recovered
<1>3. CASE RetirementStep
  BY <1>3 DEF RetirementStep, RetireUpdate, RetireCheckSession, RetireCheckSiblings,
              RetireCheckRun, RetireDestroy, RetireRejected, RecoveryRejected, Rejected,
              RetirementRest
<1>4. CASE HostStep
  <2>1. ASSUME NEW r \in Runs, Admit(r) PROVE Next
    BY <2>1 DEF Admit, Next
  <2>2. ASSUME NEW r \in Runs, NEW w \in Workers, Claim(r, w) PROVE Next
    BY <2>2 DEF Claim, Next, RunWrite
  <2>3. ASSUME NEW id \in 1..MaxLeases, NEW o \in Ends, End(id, o) PROVE Next
    <3>1. id \in 1..Len(grants) /\ FinishRun(id, o) /\ o \in Outcome
      BY <2>3, EndsAreOutcomes DEF End, IInv, TypeOK
    <3>2. QED
      BY <3>1 DEF Next, LeaseCall
  <2>4. ASSUME NEW id \in 1..MaxLeases,
               WorkerStart(id) \/ TeardownRead(id) \/ TeardownAct(id) \/ ParkDrop(id)
        PROVE UNCHANGED vars
    BY <2>4 DEF WorkerStart, TeardownRead, TeardownAct, ParkDrop
  <2>5. ASSUME NEW id \in 1..MaxLeases, WorkerDies(id) PROVE Next
    <3>1. grants[id].run \in Runs /\ LeaseLapses(grants[id].run)
      BY <2>5, LeasedRun DEF WorkerDies
    <3>2. QED
      BY <3>1 DEF Next, RunWrite
  <2>6. ASSUME NEW id \in 1..MaxLeases, NEW c \in Calls, Suspend(id, c) \/ Resume(id, c) PROVE Next
    <3>1. grants[id].run \in Runs
      BY <2>6, LeasedRun DEF Suspend, Resume, Driving
    <3>2. SuspendForQuestion(grants[id].run, c) \/ TakeRunAnswer(grants[id].run, c)
      BY <2>6 DEF Suspend, Resume
    <3>3. RunWrite(grants[id].run)
      BY <3>2 DEF RunWrite
    <3>4. QED
      BY <3>1, <3>3 DEF Next
  <2>7. ASSUME NEW r \in Runs, NEW c \in Calls, NEW a \in Answers, Answered(r, c, a) PROVE Next
    <3>1. UserRequest(r)
      BY <2>7 DEF Answered, UserRequest
    <3>2. QED
      BY <3>1 DEF Next
  <2>8. ASSUME NEW id \in 1..MaxLeases, Park(id) PROVE Next
    <3>1. grants[id].run \in Runs /\ ParkRunSuspension(grants[id].run)
      BY <2>8, LeasedRun DEF Park, Driving
    <3>2. QED
      BY <3>1 DEF Next, RunWrite
  <2>9. ASSUME NEW id \in 1..MaxLeases, ParkRelease(id) PROVE Next
    <3>1. id \in 1..Len(grants) /\ ReleaseRunLease(id)
      BY <2>9 DEF ParkRelease, IInv, TypeOK
    <3>2. QED
      BY <3>1 DEF Next, LeaseCall
  <2>10. QED
    BY <1>4, <2>1, <2>2, <2>3, <2>4, <2>5, <2>6, <2>7, <2>8, <2>9 DEF HostStep
<1>5. CASE UNCHANGED previewVars
  BY <1>5 DEF previewVars
<1>6. QED
  BY <1>1, <1>2, <1>3, <1>4, <1>5 DEF PreviewNext

\* A previewed run is a run of RunStore: the theorems about the store hold of it.
THEOREM PreviewsUseTheStore == PreviewSpec => Spec
<1>1. PreviewInit => Init /\ IInv
  BY InitIInv DEF PreviewInit
<1>2. IInv /\ [Next]_vars => IInv'
  BY StepType, StepLeaseRows, StepSessionRows, StepLatestTurn, StepOneActive, StepNoLiveLease,
     StepQuestion, StepSessionTells DEF IInv
<1>3. QED
  BY <1>1, <1>2, PreviewStepIsStoreStep, PTL DEF PreviewSpec, Spec

\* The store's invariant holds beside the previews.
LEMMA StoreInvariance == PreviewSpec => []IInv
BY PreviewsUseTheStore, Invariance, PTL

-----------------------------------------------------------------------------
(* Rows and records only grow, and keep what they are of *)

Grows(table, after) ==
    Len(table) <= Len(after) /\ \A p \in 1..Len(table) : after[p].run = table[p].run
RecordsGrow(records, after) ==
    Len(records) <= Len(after) /\ \A k \in 1..Len(records) : after[k].row = records[k].row

LEMMA RowChanged ==
  ASSUME NEW table, RowsTyped(table), NEW p \in 1..Len(table), NEW st \in PreviewStatus
  PROVE  /\ RowsTyped([table EXCEPT ![p].status = st])
         /\ Grows(table, [table EXCEPT ![p].status = st])
         /\ Len([table EXCEPT ![p].status = st]) = Len(table)
         /\ [table EXCEPT ![p].status = st][p].status = st
         /\ \A q \in 1..Len(table) : q # p => [table EXCEPT ![p].status = st][q] = table[q]
<1> DEFINE after == [table EXCEPT ![p].status = st]
<1>1. table \in Seq(Row) /\ table[p] \in Row /\ Len(table) \in Nat
  BY DEF RowsTyped
<1>2. [table[p] EXCEPT !.status = st] \in Row /\ [table[p] EXCEPT !.status = st].run = table[p].run
  BY <1>1 DEF Row
<1>3. after = [table EXCEPT ![p] = [table[p] EXCEPT !.status = st]]
  BY <1>1
<1>4. after \in Seq(Row) /\ Len(after) = Len(table)
  BY <1>1, <1>2, <1>3
<1>5. after[p] = [table[p] EXCEPT !.status = st] /\ \A q \in 1..Len(table) : q # p => after[q] = table[q]
  BY <1>1, <1>3
<1>6. after[p].status = st
  BY <1>1, <1>5 DEF Row
<1>7. QED
  BY <1>1, <1>2, <1>4, <1>5, <1>6 DEF RowsTyped, Grows

LEMMA RowAdded ==
  ASSUME NEW table, RowsTyped(table), Len(table) < MaxPreviews, NEW new \in Row
  PROVE  /\ RowsTyped(Append(table, new)) /\ Grows(table, Append(table, new))
         /\ Len(Append(table, new)) = Len(table) + 1
         /\ Append(table, new)[Len(table) + 1] = new
         /\ \A q \in 1..Len(table) : Append(table, new)[q] = table[q]
BY PreviewBoundsAreNatural DEF RowsTyped, Grows

LEMMA RecordAdded ==
  ASSUME NEW table, NEW records, RecordsTyped(table, records), Len(records) < MaxRecords,
         NEW new \in Record, new.row \in 1..Len(table)
  PROVE  /\ RecordsTyped(table, Append(records, new)) /\ RecordsGrow(records, Append(records, new))
         /\ Len(Append(records, new)) = Len(records) + 1
         /\ Append(records, new)[Len(records) + 1] = new
         /\ \A j \in 1..Len(records) : Append(records, new)[j] = records[j]
BY PreviewBoundsAreNatural DEF RecordsTyped, RecordsGrow

LEMMA RowsUnchanged == ASSUME NEW table, RowsTyped(table) PROVE Grows(table, table)
BY DEF RowsTyped, Grows

LEMMA RecordsUnchanged ==
  ASSUME NEW table, NEW records, RecordsTyped(table, records) PROVE RecordsGrow(records, records)
BY DEF RecordsTyped, RecordsGrow

LEMMA RecordsOfMoreRows ==
  ASSUME NEW table, NEW after, NEW records, RowsTyped(table), RowsTyped(after), Grows(table, after),
         RecordsTyped(table, records)
  PROVE  RecordsTyped(after, records)
BY DEF RowsTyped, RecordsTyped, Grows

LEMMA CallStillFits ==
  ASSUME NEW table, NEW after, NEW records, NEW later, RowsTyped(table), RowsTyped(after),
         RecordsTyped(table, records), RecordsTyped(after, later),
         Grows(table, after), RecordsGrow(records, later), NEW it, CallFits(table, records, it)
  PROVE  CallFits(after, later, it)
<1>1. /\ Len(table) \in Nat /\ Len(after) \in Nat /\ Len(table) <= Len(after)
      /\ Len(records) \in Nat /\ Len(later) \in Nat /\ Len(records) <= Len(later)
  BY DEF RowsTyped, RecordsTyped, Grows, RecordsGrow
<1>2. it \in Call /\ it.row \in Nat /\ it.rec \in Nat
  BY DEF CallFits, Call
<1>3. it.row \in 1..Len(table) => after[it.row].run = table[it.row].run
  BY <1>1, <1>2 DEF Grows
<1>4. QED
  BY <1>1, <1>2, <1>3 DEF CallFits

LEMMA OperationStillFits ==
  ASSUME NEW table, NEW after, NEW records, NEW later, RowsTyped(table), RowsTyped(after),
         RecordsTyped(table, records), RecordsTyped(after, later),
         Grows(table, after), RecordsGrow(records, later), NEW s, NEW op,
         OperationFits(table, records, s, op)
  PROVE  OperationFits(after, later, s, op)
<1>1. /\ Len(records) \in Nat /\ Len(later) \in Nat /\ Len(records) <= Len(later)
  BY DEF RecordsTyped, RecordsGrow
<1>2. op.rec \in 1..Len(records) /\ op.rec \in 1..Len(later)
  BY <1>1 DEF OperationFits
<1>3. records[op.rec].row \in 1..Len(table) /\ later[op.rec].row = records[op.rec].row
  BY <1>2 DEF RecordsTyped, RecordsGrow
<1>4. after[later[op.rec].row].run = table[records[op.rec].row].run
  BY <1>3 DEF Grows
<1>5. QED
  BY <1>2, <1>4 DEF OperationFits

-----------------------------------------------------------------------------
(* What a record may become *)

LEMMA LaunchedFits ==
  ASSUME NEW k \in Record
  PROVE  /\ Launched(k) \in Record /\ Launched(k).row = k.row /\ Launched(k).status = k.status
         /\ Launched(k).begin \in {k.begin, "attach"}
         /\ k.status = "starting" => Launched(k).begin \in {"attach", "relay"}
         /\ k.status # "starting" => Launched(k).begin = k.begin
<1>1. CASE k.status = "starting" /\ k.begin \in {"none", "over"}
  <2>1. Launched(k) = [k EXCEPT !.begin = "attach"]
    BY <1>1 DEF Launched
  <2>2. [k EXCEPT !.begin = "attach"] \in Record /\ [k EXCEPT !.begin = "attach"].begin = "attach"
    BY DEF Record
  <2>3. [k EXCEPT !.begin = "attach"].row = k.row /\ [k EXCEPT !.begin = "attach"].status = k.status
    BY DEF Record
  <2>4. QED
    BY <1>1, <2>1, <2>2, <2>3
<1>2. CASE ~(k.status = "starting" /\ k.begin \in {"none", "over"})
  <2>1. Launched(k) = k
    BY <1>2 DEF Launched
  <2>2. k.status = "starting" => k.begin \in {"attach", "relay"}
    BY <1>2 DEF Record
  <2>3. QED
    BY <1>2, <2>1, <2>2
<1>3. QED
  BY <1>1, <1>2

LEMMA EndedFits ==
  ASSUME NEW k \in Record
  PROVE  /\ Ended(k) \in Record /\ Ended(k).row = k.row /\ Ended(k).status = k.status
         /\ Ended(k).begin = "over"
         /\ Failed(k) \in Record /\ Failed(k).row = k.row /\ Failed(k).status = "failed"
         /\ Failed(k).begin = "over"
BY DEF Ended, Failed, Record, PreviewStatus

LEMMA NewRecordFits ==
  ASSUME NEW p \in Nat, NEW st \in PreviewStatus, NEW there \in BOOLEAN
  PROVE  /\ NewRecord(p, st, there) \in Record /\ NewRecord(p, st, there).row = p
         /\ NewRecord(p, st, there).status = st /\ NewRecord(p, st, there).begin = "none"
BY DEF NewRecord, Record

-----------------------------------------------------------------------------
(* What a step does to rows, records and registry *)

\* One row's status is written.
LEMMA SetRowEffect ==
  ASSUME RowsOK, NEW p \in Rows, NEW st \in PreviewStatus, SetRow(p, st)
  PROVE  /\ RowsTyped(row') /\ Grows(row, row') /\ Len(row') = Len(row)
         /\ row'[p].status = st /\ row'[p].run = row[p].run
         /\ \A q \in Rows : q # p => row'[q] = row[q]
         /\ overlapped \subseteq overlapped'
         /\ st = "stopped" /\ UnderWay(p) => p \in overlapped'
<1>1. p \in 1..Len(row) /\ RowsTyped(row)
  BY DEF Rows, RowsOK
<1>2. row' = [row EXCEPT ![p].status = st]
  BY DEF SetRow
<1>3. /\ RowsTyped(row') /\ Grows(row, row') /\ Len(row') = Len(row)
      /\ row'[p].status = st /\ \A q \in 1..Len(row) : q # p => row'[q] = row[q]
  <2> DEFINE after == [row EXCEPT ![p].status = st]
  <2>1. /\ RowsTyped(after) /\ Grows(row, after) /\ Len(after) = Len(row)
        /\ after[p].status = st /\ \A q \in 1..Len(row) : q # p => after[q] = row[q]
    BY <1>1, RowChanged
  <2>2. row' = after
    BY <1>2
  <2> HIDE DEF after
  <2>3. QED
    BY <2>1, <2>2
<1>4. row'[p].run = row[p].run
  BY <1>1, <1>3 DEF Grows
<1>5. overlapped \subseteq overlapped' /\ (st = "stopped" /\ UnderWay(p) => p \in overlapped')
  BY DEF SetRow
<1>6. QED
  BY <1>3, <1>4, <1>5 DEF Rows

\* A record of the process changes.
LEMMA SetRecordEffect ==
  ASSUME RowsOK, RecordsOK, NEW k \in 1..Len(rec), NEW new \in Record, new.row = rec[k].row,
         rec' = [rec EXCEPT ![k] = new], UNCHANGED <<row, byId>>
  PROVE  /\ RecordsTyped(row', rec') /\ RecordsGrow(rec, rec') /\ Len(rec') = Len(rec)
         /\ RegistryTyped(rec', byId')
         /\ rec'[k] = new /\ \A j \in 1..Len(rec) : j # k => rec'[j] = rec[j]
<1>1. /\ RecordsTyped(row', rec') /\ RecordsGrow(rec, rec') /\ Len(rec') = Len(rec)
      /\ rec'[k] = new /\ \A j \in 1..Len(rec) : j # k => rec'[j] = rec[j]
  <2>1. rec \in Seq(Record) /\ Len(rec) \in Nat
    BY DEF RecordsOK, RecordsTyped
  <2>2. /\ rec' \in Seq(Record) /\ Len(rec') = Len(rec) /\ rec'[k] = new
        /\ \A j \in 1..Len(rec) : j # k => rec'[j] = rec[j]
    BY <2>1
  <2>3. \A j \in 1..Len(rec) : rec'[j].row = rec[j].row
    BY <2>2
  <2>4. QED
    BY <2>1, <2>2, <2>3 DEF RecordsOK, RecordsTyped, RecordsGrow
<1>2. RegistryTyped(rec', byId')
  BY <1>1 DEF RecordsOK, RegistryTyped, RecordsGrow, RecordsTyped
<1>3. QED
  BY <1>1, <1>2

\* A record is added, and registered or not.
LEMMA AddRecordEffect ==
  ASSUME RowsOK, RecordsOK, NEW new \in Record, new.row \in 1..Len(row'), Len(rec) < MaxRecords,
         RowsTyped(row'), Grows(row, row'), rec' = Append(rec, new)
  PROVE  /\ RecordsTyped(row', rec') /\ RecordsGrow(rec, rec') /\ Len(rec') = Len(rec) + 1
         /\ byId' = byId \/ byId' = [byId EXCEPT ![new.row] = Len(rec) + 1]
                => RegistryTyped(rec', byId')
         /\ rec'[Len(rec) + 1] = new /\ \A j \in 1..Len(rec) : rec'[j] = rec[j]
<1>1. RecordsTyped(row', rec)
  BY RecordsOfMoreRows DEF RowsOK, RecordsOK
<1>2. /\ RecordsTyped(row', rec') /\ RecordsGrow(rec, rec') /\ Len(rec') = Len(rec) + 1
      /\ rec'[Len(rec) + 1] = new /\ \A j \in 1..Len(rec) : rec'[j] = rec[j]
  BY <1>1, RecordAdded
<1>3. Len(rec) \in Nat /\ byId \in [1..MaxPreviews -> 0..Len(rec)]
  BY DEF RecordsOK, RecordsTyped, RegistryTyped
<1>4. CASE byId' = byId
  <2>1. \A n \in 0..Len(rec) : n \in 0..Len(rec')
    BY <1>2, <1>3
  <2>2. byId' \in [1..MaxPreviews -> 0..Len(rec')]
    BY <1>3, <1>4, <2>1
  <2>3. ASSUME NEW p \in 1..MaxPreviews, byId'[p] # 0 PROVE rec'[byId'[p]].row = p
    <3>1. byId'[p] = byId[p] /\ byId[p] \in 1..Len(rec) /\ rec[byId[p]].row = p
      BY <1>3, <1>4, <2>3 DEF RecordsOK, RegistryTyped
    <3>2. QED
      BY <1>2, <3>1
  <2>4. QED
    BY <1>2, <2>2, <2>3 DEF RegistryTyped
<1>5. CASE byId' = [byId EXCEPT ![new.row] = Len(rec) + 1]
  <2>1. byId' \in [1..MaxPreviews -> 0..Len(rec')]
    <3>1. Len(rec) + 1 \in 0..Len(rec') /\ \A n \in 0..Len(rec) : n \in 0..Len(rec')
      BY <1>2, <1>3
    <3>2. \A p \in 1..MaxPreviews : byId'[p] \in 0..Len(rec')
      BY <1>3, <1>5, <3>1
    <3>3. QED
      BY <1>3, <1>5, <3>2
  <2>2. ASSUME NEW p \in 1..MaxPreviews, byId'[p] # 0 PROVE rec'[byId'[p]].row = p
    <3>1. CASE p = new.row
      BY <1>2, <1>3, <1>5, <3>1
    <3>2. CASE p # new.row
      <4>1. byId'[p] = byId[p] /\ byId[p] \in 1..Len(rec)
        BY <1>3, <1>5, <2>2, <3>2
      <4>2. QED
        BY <1>2, <2>2, <4>1 DEF RecordsOK, RegistryTyped
    <3>3. QED
      BY <3>1, <3>2
  <2>3. QED
    BY <1>2, <2>1, <2>2 DEF RegistryTyped
<1>6. QED
  BY <1>2, <1>4, <1>5

\* What a step, ends of the process excepted, makes of rows, records and registry: they
\* stay typed and grow; a registered record that starts is under way, and none becomes
\* able to show a preview that was not; what is newly registered can show a preview only
\* if somebody could before, or if the preview is new.
Open(record) ==
    \/ record.begin \in {"attach", "relay"}
    \/ record.begin = "none" /\ record.status = "starting"
TablesFit ==
    /\ RowsTyped(row') /\ RecordsTyped(row', rec') /\ RegistryTyped(rec', byId')
    /\ Grows(row, row') /\ RecordsGrow(rec, rec')
RecordMoves(old, new) ==
    /\ new.status = "starting" => new.begin # "over"
    /\ Open(new) => Open(old)
RecordsMove ==
    \A p \in 1..MaxPreviews : byId[p] # 0 => RecordMoves(rec[byId[p]], rec'[byId[p]])
Registered(p) ==
    /\ byId'[p] = Len(rec) + 1 /\ Len(rec') = Len(rec) + 1
    /\ rec'[Len(rec) + 1].status = "starting" => rec'[Len(rec) + 1].begin # "over"
    /\ Open(rec'[Len(rec) + 1]) /\ p \in Rows => Exposed(p)
RegistryMoves == \A p \in 1..MaxPreviews : byId'[p] \in {byId[p], 0} \/ Registered(p)
TablesStep == TablesFit /\ RecordsMove /\ RegistryMoves

LEMMA RecordStays ==
  ASSUME RecordsOK, StartsAreUnderWay, NEW p \in 1..MaxPreviews, byId[p] # 0
  PROVE  /\ byId[p] \in 1..Len(rec) /\ rec[byId[p]] \in Record /\ rec[byId[p]].row = p
         /\ RecordMoves(rec[byId[p]], rec[byId[p]])
BY DEF RecordsOK, RegistryTyped, RecordsTyped, StartsAreUnderWay, RecordMoves

\* Rows and records are left alone, and at most one is taken off the registry.
LEMMA TablesStay ==
  ASSUME RowsOK, RecordsOK, StartsAreUnderWay, UNCHANGED <<row, rec>>,
         \/ byId' = byId
         \/ \E p \in 1..MaxPreviews, n \in Nat : byId' = [byId EXCEPT ![p] = IF @ = n THEN 0 ELSE @]
         \/ \E p \in 1..MaxPreviews : byId' = [byId EXCEPT ![p] = 0]
  PROVE  TablesStep
<1>1. byId \in [1..MaxPreviews -> 0..Len(rec)] /\ Len(rec) \in Nat
  BY DEF RecordsOK, RecordsTyped, RegistryTyped
<1>2. byId' \in [1..MaxPreviews -> 0..Len(rec)] /\ \A p \in 1..MaxPreviews : byId'[p] \in {byId[p], 0}
  <2>0. 0 \in 0..Len(rec)
    BY <1>1
  <2>1. CASE byId' = byId
    BY <1>1, <2>1
  <2>2. ASSUME NEW p \in 1..MaxPreviews, NEW n \in Nat,
               byId' = [byId EXCEPT ![p] = IF @ = n THEN 0 ELSE @]
        PROVE  /\ byId' \in [1..MaxPreviews -> 0..Len(rec)]
               /\ \A q \in 1..MaxPreviews : byId'[q] \in {byId[q], 0}
    <3>1. (IF byId[p] = n THEN 0 ELSE byId[p]) \in 0..Len(rec)
      BY <1>1, <2>0
    <3>2. QED
      BY <1>1, <2>2, <3>1
  <2>3. ASSUME NEW p \in 1..MaxPreviews, byId' = [byId EXCEPT ![p] = 0]
        PROVE  /\ byId' \in [1..MaxPreviews -> 0..Len(rec)]
               /\ \A q \in 1..MaxPreviews : byId'[q] \in {byId[q], 0}
    BY <1>1, <2>0, <2>3
  <2>4. QED
    BY <2>1, <2>2, <2>3
<1>3. TablesFit
  BY <1>2, RowsUnchanged, RecordsUnchanged DEF RowsOK, RecordsOK, RegistryTyped, TablesFit
<1>4. RecordsMove
  BY RecordStays DEF RecordsMove
<1>5. QED
  BY <1>2, <1>3, <1>4 DEF TablesStep, RegistryMoves

\* A row's status is written.
LEMMA RowSetTables ==
  ASSUME RowsOK, RecordsOK, StartsAreUnderWay, NEW p \in Rows, NEW st \in PreviewStatus,
         SetRow(p, st), UNCHANGED <<rec, byId>>
  PROVE  TablesStep
<1>1. RowsTyped(row') /\ Grows(row, row')
  BY SetRowEffect
<1>2. RecordsTyped(row', rec)
  BY <1>1, RecordsOfMoreRows DEF RowsOK, RecordsOK
<1>3. TablesFit
  BY <1>1, <1>2, RecordsUnchanged DEF RecordsOK, TablesFit
<1>4. RecordsMove
  BY RecordStays DEF RecordsMove
<1>5. QED
  BY <1>3, <1>4 DEF TablesStep, RegistryMoves

\* A record changes.
LEMMA RecordSetTables ==
  ASSUME RowsOK, RecordsOK, StartsAreUnderWay, NEW k \in 1..Len(rec), NEW new \in Record,
         new.row = rec[k].row, rec' = [rec EXCEPT ![k] = new], UNCHANGED <<row, byId>>,
         IsLive(k) => RecordMoves(rec[k], new)
  PROVE  TablesStep /\ Len(rec') = Len(rec)
<1>1. /\ RecordsTyped(row', rec') /\ RecordsGrow(rec, rec') /\ Len(rec') = Len(rec)
      /\ RegistryTyped(rec', byId')
      /\ rec'[k] = new /\ \A j \in 1..Len(rec) : j # k => rec'[j] = rec[j]
  BY SetRecordEffect
<1>2. TablesFit
  BY <1>1, RowsUnchanged DEF RowsOK, TablesFit
<1>3. ASSUME NEW p \in 1..MaxPreviews, byId[p] # 0 PROVE RecordMoves(rec[byId[p]], rec'[byId[p]])
  <2>1. byId[p] \in 1..Len(rec) /\ rec[byId[p]].row = p /\ RecordMoves(rec[byId[p]], rec[byId[p]])
    BY <1>3, RecordStays
  <2>2. CASE byId[p] = k
    BY <1>1, <2>1, <2>2 DEF IsLive
  <2>3. CASE byId[p] # k
    BY <1>1, <2>1, <2>3
  <2>4. QED
    BY <2>2, <2>3
<1>4. QED
  BY <1>1, <1>2, <1>3 DEF TablesStep, RecordsMove, RegistryMoves

\* A record is added.
LEMMA RecordAddTables ==
  ASSUME RowsOK, RecordsOK, StartsAreUnderWay, NEW new \in Record, new.row \in 1..Len(row'),
         Len(rec) < MaxRecords, RowsTyped(row'), Grows(row, row'), rec' = Append(rec, new),
         \/ byId' = byId
         \/ /\ byId' = [byId EXCEPT ![new.row] = Len(rec) + 1]
            /\ new.status = "starting" => new.begin # "over"
            /\ Open(new) /\ new.row \in Rows => Exposed(new.row)
  PROVE  TablesStep /\ Len(rec') = Len(rec) + 1
<1>1. /\ RecordsTyped(row', rec') /\ RecordsGrow(rec, rec') /\ Len(rec') = Len(rec) + 1
      /\ RegistryTyped(rec', byId')
      /\ rec'[Len(rec) + 1] = new /\ \A j \in 1..Len(rec) : rec'[j] = rec[j]
  BY AddRecordEffect
<1>2. TablesFit
  BY <1>1 DEF TablesFit
<1>3. ASSUME NEW p \in 1..MaxPreviews, byId[p] # 0 PROVE RecordMoves(rec[byId[p]], rec'[byId[p]])
  BY <1>1, <1>3, RecordStays
<1>4. ASSUME NEW p \in 1..MaxPreviews PROVE byId'[p] \in {byId[p], 0} \/ Registered(p)
  <2>1. byId \in [1..MaxPreviews -> 0..Len(rec)]
    BY DEF RecordsOK, RegistryTyped
  <2>2. CASE byId'[p] = byId[p]
    BY <2>2
  <2>3. CASE byId'[p] # byId[p]
    <3>1. /\ p = new.row /\ byId'[p] = Len(rec) + 1
          /\ new.status = "starting" => new.begin # "over"
          /\ Open(new) /\ new.row \in Rows => Exposed(new.row)
      BY <2>1, <2>3
    <3>2. QED
      BY <1>1, <3>1 DEF Registered
  <2>4. QED
    BY <2>2, <2>3
<1>5. QED
  BY <1>1, <1>2, <1>3, <1>4 DEF TablesStep, RecordsMove, RegistryMoves

-----------------------------------------------------------------------------
(* What each action does to rows, records and registry *)

\* The session a row is of, and the rows a session has.
LEMMA RowOf ==
  ASSUME RowsOK, NEW p \in Rows
  PROVE  /\ row[p] \in Row /\ row[p].run \in Runs /\ row[p].status \in PreviewStatus
         /\ SessionOfRow(p) \in Sessions /\ p \in 1..MaxPreviews /\ p \in Nat
<1>1. row \in Seq(Row) /\ Len(row) \in Nat /\ Len(row) <= MaxPreviews /\ MaxPreviews \in Nat
  BY PreviewBoundsAreNatural DEF RowsOK, RowsTyped
<1>2. row[p] \in Row /\ p \in 1..MaxPreviews
  BY <1>1 DEF Rows
<1>3. row[p].run \in Runs /\ row[p].status \in PreviewStatus
  BY <1>2 DEF Row
<1>4. QED
  BY <1>2, <1>3, SessionOfType DEF SessionOfRow

LEMMA RecordOf ==
  ASSUME RowsOK, RecordsOK, NEW k \in 1..Len(rec)
  PROVE  rec[k] \in Record /\ rec[k].row \in Rows /\ rec[k].row \in 1..MaxPreviews /\ k \in Nat
<1>1. rec \in Seq(Record) /\ rec[k].row \in Rows
  BY DEF RecordsOK, RecordsTyped, Rows
<1>2. QED
  BY <1>1, RowOf

LEMMA CallOf ==
  ASSUME RowsOK, CallsOK, NEW c \in Requests
  PROVE  /\ call[c] \in Call /\ CallFits(row, rec, call[c])
         /\ call[c].pc \in {"adopt", "replace", "load", "register"} => call[c].row \in Rows
         /\ call[c].pc = "looked" /\ call[c].row # 0 => call[c].row \in Rows
<1>1. call[c] \in Call /\ CallFits(row, rec, call[c]) /\ Len(row) \in Nat
  BY DEF CallsOK, CallFits, RowsOK, RowsTyped
<1>2. QED
  BY <1>1 DEF CallFits, Rows

LEMMA ContainerOf ==
  ASSUME RowsOK, HostOK, NEW p \in Rows
  PROVE  container[SessionOfRow(p)] \in BOOLEAN
BY RowOf DEF HostOK

LEMMA BeginAttachTables ==
  ASSUME Fits, StartsAreUnderWay, NEW k \in 1..Len(rec), BeginAttach(k)
  PROVE  /\ TablesStep /\ Len(rec') = Len(rec)
         /\ writes' = writes \/ (IsLive(k) /\ writes' = writes \cup {[row |-> rec[k].row, status |-> "failed"]})
<1>0. RowsOK /\ RecordsOK
  BY DEF Fits
<1>1. rec[k] \in Record /\ k \in Nat
  BY <1>0, RecordOf
<1>2. /\ rec[k].begin = "attach" /\ UNCHANGED <<row, byId>>
      /\ writes' = writes \/ (IsLive(k) /\ writes' = writes \cup {[row |-> rec[k].row, status |-> "failed"]})
  BY DEF BeginAttach
<1>3. Open(rec[k])
  BY <1>2 DEF Open
<1>4. CASE rec[k].attached \/ container[SessionOfRow(rec[k].row)]
  <2> DEFINE there == [rec[k] EXCEPT !.attached = TRUE]
             relay == [rec[k] EXCEPT !.attached = TRUE, !.begin = "relay"]
             new == IF IsLive(k) THEN relay ELSE Ended(there)
  <2>1. there \in Record /\ there.row = rec[k].row
    BY <1>1 DEF Record
  <2>2. relay \in Record /\ relay.row = rec[k].row /\ relay.begin = "relay"
    BY <1>1 DEF Record
  <2>3. rec' = [rec EXCEPT ![k] = new]
    BY <1>1, <1>4 DEF BeginAttach
  <2>4. Ended(there) \in Record /\ Ended(there).row = there.row
    BY <2>1, EndedFits
  <2>5. new \in Record /\ new.row = rec[k].row /\ (IsLive(k) => new.begin = "relay")
    BY <2>1, <2>2, <2>4
  <2>6. IsLive(k) => RecordMoves(rec[k], new)
    BY <1>3, <2>5 DEF RecordMoves
  <2> HIDE DEF new
  <2>7. QED
    BY <1>0, <1>2, <2>3, <2>5, <2>6, RecordSetTables
<1>5. CASE ~(rec[k].attached \/ container[SessionOfRow(rec[k].row)])
  <2> DEFINE new == IF IsLive(k) THEN Failed(rec[k]) ELSE Ended(rec[k])
  <2>1. rec' = [rec EXCEPT ![k] = new]
    BY <1>1, <1>5 DEF BeginAttach
  <2>2. new \in Record /\ new.row = rec[k].row /\ (IsLive(k) => new.begin = "over" /\ new.status = "failed")
    BY <1>1, EndedFits
  <2>3. IsLive(k) => RecordMoves(rec[k], new)
    BY <2>2 DEF RecordMoves, Open
  <2> HIDE DEF new
  <2>4. QED
    BY <1>0, <1>2, <2>1, <2>2, <2>3, RecordSetTables
<1>6. QED
  BY <1>4, <1>5

LEMMA BeginRelayTables ==
  ASSUME Fits, StartsAreUnderWay, NEW k \in 1..Len(rec), BeginRelay(k)
  PROVE  /\ TablesStep /\ Len(rec') = Len(rec)
         /\ rec[k].begin = "relay"
         /\ \/ writes' = writes
            \/ \E st \in {"ready", "failed"} :
                  IsLive(k) /\ writes' = writes \cup {[row |-> rec[k].row, status |-> st]}
<1>0. RowsOK /\ RecordsOK
  BY DEF Fits
<1>1. rec[k] \in Record /\ k \in Nat
  BY <1>0, RecordOf
<1>2. rec[k].begin = "relay" /\ UNCHANGED <<row, byId>>
  BY DEF BeginRelay
<1>3. PICK served \in BOOLEAN :
          LET st == IF served THEN "ready" ELSE "failed" IN
          IF IsLive(k)
          THEN /\ rec' = [rec EXCEPT ![k].begin = "over", ![k].status = st]
               /\ writes' = writes \cup {[row |-> rec[k].row, status |-> st]}
          ELSE rec' = [rec EXCEPT ![k] = Ended(@)] /\ UNCHANGED writes
  BY DEF BeginRelay
<1> DEFINE st == IF served THEN "ready" ELSE "failed"
           over == [rec[k] EXCEPT !.begin = "over", !.status = st]
           new == IF IsLive(k) THEN over ELSE Ended(rec[k])
<1>4. st \in {"ready", "failed"}
  OBVIOUS
<1>5. over \in Record /\ over.row = rec[k].row /\ over.begin = "over" /\ over.status = st
  BY <1>1, <1>4 DEF Record, PreviewStatus
<1>6. rec' = [rec EXCEPT ![k] = new]
  <2>1. CASE IsLive(k)
    <3>1. rec' = [rec EXCEPT ![k].begin = "over", ![k].status = st]
      BY <1>3, <2>1
    <3>2. rec \in Seq(Record)
      BY <1>0 DEF RecordsOK, RecordsTyped
    <3>3. rec' = [rec EXCEPT ![k] = over]
      BY <1>1, <3>1, <3>2 DEF Record
    <3>4. QED
      BY <2>1, <3>3
  <2>2. CASE ~IsLive(k)
    BY <1>3, <2>2
  <2>3. QED
    BY <2>1, <2>2
<1>7. new \in Record /\ new.row = rec[k].row
  BY <1>1, <1>5, EndedFits
<1>8. IsLive(k) => RecordMoves(rec[k], new)
  BY <1>4, <1>5 DEF RecordMoves, Open
<1>9. \/ writes' = writes
      \/ IsLive(k) /\ writes' = writes \cup {[row |-> rec[k].row, status |-> st]}
  BY <1>3
<1> HIDE DEF new, st
<1>10. QED
  BY <1>0, <1>2, <1>4, <1>6, <1>7, <1>8, <1>9, RecordSetTables

LEMMA StartDecideTables ==
  ASSUME Fits, StartsAreUnderWay, NEW c \in Requests, StartDecide(c)
  PROVE  TablesStep
<1>0. RowsOK /\ RecordsOK /\ CallsOK /\ row' = row
  BY DEF Fits, StartDecide
<1> DEFINE p == call[c].row
           k == IF p = 0 THEN 0 ELSE byId[p]
<1>1. call[c].pc = "looked" /\ (p # 0 => p \in Rows /\ p \in 1..MaxPreviews)
  BY <1>0, CallOf, RowOf DEF StartDecide, Up
<1>2. \/ UNCHANGED <<rec, byId>>
      \/ k # 0 /\ rec' = [rec EXCEPT ![k] = Launched(@)] /\ byId' = byId
      \/ k # 0 /\ byId' = [byId EXCEPT ![p] = 0] /\ rec' = rec
  BY DEF StartDecide
<1>3. CASE UNCHANGED <<rec, byId>>
  BY <1>0, <1>3, TablesStay
<1>4. CASE k # 0 /\ byId' = [byId EXCEPT ![p] = 0] /\ rec' = rec
  <2>1. p # 0
    BY <1>4
  <2>2. QED
    BY <1>0, <1>1, <1>4, <2>1, TablesStay
<1>5. CASE k # 0 /\ rec' = [rec EXCEPT ![k] = Launched(@)] /\ byId' = byId
  <2>1. p # 0 /\ k = byId[p]
    BY <1>5
  <2>2. p \in 1..MaxPreviews /\ k \in 1..Len(rec) /\ rec[k] \in Record /\ rec[k].row = p
    BY <1>0, <1>1, <1>5, <2>1, RecordStays
  <2>3. rec[k].status = "starting" => rec[k].begin # "over"
    BY <1>5, <2>1, <2>2 DEF StartsAreUnderWay
  <2>4. Launched(rec[k]) \in Record /\ Launched(rec[k]).row = rec[k].row
    BY <2>2, LaunchedFits
  <2>5. RecordMoves(rec[k], Launched(rec[k]))
    BY <2>2, <2>3, LaunchedFits DEF RecordMoves, Open, Record
  <2>6. rec' = [rec EXCEPT ![k] = Launched(rec[k])]
    BY <1>5
  <2> HIDE DEF k, p
  <2>7. QED
    BY <1>0, <1>5, <2>2, <2>4, <2>5, <2>6, RecordSetTables
<1>6. QED
  BY <1>2, <1>3, <1>4, <1>5

LEMMA StartAdoptTables ==
  ASSUME Fits, StartsAreUnderWay, NEW c \in Requests, StartAdopt(c)
  PROVE  TablesStep
<1>0. RowsOK /\ RecordsOK /\ CallsOK /\ HostOK /\ row' = row
  BY DEF Fits, StartAdopt
<1> DEFINE p == call[c].row
           found == NewRecord(p, call[c].status, container[SessionOfRow(p)])
           new == Launched(found)
<1>1. call[c].pc = "adopt" /\ p \in Rows /\ p \in Nat /\ call[c].status \in PreviewStatus
  BY <1>0, CallOf, RowOf DEF StartAdopt, Up, CallFits, Live, PreviewStatus
<1>2. container[SessionOfRow(p)] \in BOOLEAN
  BY <1>0, <1>1, ContainerOf
<1>3. found \in Record /\ found.row = p /\ found.begin = "none"
  BY <1>1, <1>2, NewRecordFits
<1>4. new \in Record /\ new.row = p /\ (new.status = "starting" => new.begin # "over")
  BY <1>3, LaunchedFits
<1>5. Exposed(p)
  BY <1>1 DEF Exposed
<1>6. /\ Len(rec) < MaxRecords /\ rec' = Append(rec, new)
      /\ byId' = [byId EXCEPT ![p] = Len(rec) + 1]
  BY DEF StartAdopt, RoomForRecord
<1>7. p \in 1..Len(row') /\ RowsTyped(row') /\ Grows(row, row')
  BY <1>0, <1>1, RowsUnchanged DEF Rows, RowsOK
<1> HIDE DEF new, p
<1>8. QED
  BY <1>0, <1>4, <1>5, <1>6, <1>7, RecordAddTables

LEMMA StartReplaceTables ==
  ASSUME Fits, StartsAreUnderWay, NEW c \in Requests, StartReplace(c)
  PROVE  TablesStep
<1>1. RowsOK /\ RecordsOK /\ CallsOK
  BY DEF Fits
<1>2. call[c].row \in Rows /\ SetRow(call[c].row, "stopped") /\ UNCHANGED <<rec, byId>>
  BY <1>1, CallOf DEF StartReplace, Up
<1>3. "stopped" \in PreviewStatus
  BY DEF PreviewStatus
<1>4. QED
  BY <1>1, <1>2, <1>3, RowSetTables

LEMMA StartCreateTables ==
  ASSUME Fits, StartsAreUnderWay, NEW c \in Requests, StartCreate(c)
  PROVE  /\ TablesStep
         /\ Len(row') = Len(row) + 1 /\ Len(row) + 1 \in 1..MaxPreviews
         /\ row'[Len(row) + 1] = [run |-> call[c].run, status |-> "starting"]
         /\ \A q \in Rows : row'[q] = row[q]
         /\ byId' = [byId EXCEPT ![Len(row) + 1] = Len(rec) + 1]
<1>0. RowsOK /\ RecordsOK /\ CallsOK
  BY DEF Fits
<1> DEFINE p == Len(row) + 1
           created == [run |-> call[c].run, status |-> "starting"]
           found == NewRecord(p, "starting", FALSE)
           new == Launched(found)
<1>1. call[c].run \in Runs
  BY <1>0, CallOf DEF StartCreate, Up, CallFits
<1>2. created \in Row
  BY <1>1 DEF Row, PreviewStatus
<1>3. Len(row) < MaxPreviews /\ row' = Append(row, created)
  BY DEF StartCreate
<1>4. /\ RowsTyped(row') /\ Grows(row, row') /\ Len(row') = p
      /\ row'[p] = created /\ \A q \in 1..Len(row) : row'[q] = row[q]
  <2> HIDE DEF created
  <2>1. RowsTyped(row)
    BY <1>0 DEF RowsOK
  <2>2. QED
    BY <1>2, <1>3, <2>1, RowAdded
<1>5. Len(row) \in Nat /\ p \in 1..Len(row') /\ p \notin Rows /\ p \in Nat /\ p \in 1..MaxPreviews
  BY <1>0, <1>3, <1>4, PreviewBoundsAreNatural DEF RowsOK, RowsTyped, Rows
<1>6. found \in Record /\ found.row = p
  BY <1>5, NewRecordFits DEF PreviewStatus
<1>7. new \in Record /\ new.row = p /\ (new.status = "starting" => new.begin # "over")
  BY <1>6, LaunchedFits
<1>8. /\ Len(rec) < MaxRecords /\ rec' = Append(rec, new)
      /\ byId' = [byId EXCEPT ![p] = Len(rec) + 1]
  BY DEF StartCreate, RoomForRecord
<1> HIDE DEF new, p
<1>9. TablesStep
  BY <1>0, <1>4, <1>5, <1>7, <1>8, RecordAddTables
<1> USE DEF p
<1>10. QED
  BY <1>4, <1>5, <1>8, <1>9 DEF Rows

\* teardown: a record leaves the registry, and its retirement is queued.
LEMMA TornDownTables ==
  ASSUME Fits, StartsAreUnderWay, NEW p \in Rows, byId[p] # 0, NEW why, TornDown(byId[p], why),
         UNCHANGED <<row, rec>>
  PROVE  /\ TablesStep
         /\ byId' = [byId EXCEPT ![p] = 0]
         /\ byId[p] \in 1..Len(rec) /\ rec[byId[p]].row = p
         /\ retiring' = [retiring EXCEPT ![SessionOfRow(p)] = Append(@, Operation(byId[p], why))]
<1>0. RowsOK /\ RecordsOK
  BY DEF Fits
<1>1. p \in 1..MaxPreviews
  BY <1>0, RowOf
<1>2. byId[p] \in 1..Len(rec) /\ rec[byId[p]].row = p
  BY <1>0, <1>1, RecordStays
<1>3. /\ byId' = [byId EXCEPT ![p] = IF @ = byId[p] THEN 0 ELSE @]
      /\ retiring' = [retiring EXCEPT ![SessionOfRow(p)] = Append(@, Operation(byId[p], why))]
  BY <1>2 DEF TornDown
<1>4. byId' = [byId EXCEPT ![p] = 0]
  BY <1>3
<1>5. QED
  BY <1>0, <1>1, <1>2, <1>3, <1>4, TablesStay

LEMMA LoadRegisterTables ==
  ASSUME Fits, StartsAreUnderWay, NEW c \in Requests, LoadRegister(c)
  PROVE  /\ TablesStep /\ Len(rec') = Len(rec) + 1 /\ rec'[Len(rec) + 1].row = call[c].row
         /\ \/ byId' = byId /\ call[c].op = "stop"
            \/ byId' = [byId EXCEPT ![call[c].row] = Len(rec) + 1] /\ call[c].op # "stop"
<1>0. RowsOK /\ RecordsOK /\ CallsOK /\ HostOK /\ row' = row
  BY DEF Fits, LoadRegister
<1> DEFINE p == call[c].row
           new == NewRecord(p, call[c].status, container[SessionOfRow(p)])
<1>1. call[c].pc = "register" /\ p \in Rows /\ p \in Nat /\ call[c].status \in PreviewStatus
  BY <1>0, CallOf, RowOf DEF LoadRegister, Up, CallFits
<1>2. container[SessionOfRow(p)] \in BOOLEAN
  BY <1>0, <1>1, ContainerOf
<1>3. new \in Record /\ new.row = p /\ new.begin = "none" /\ new.status = call[c].status
  BY <1>1, <1>2, NewRecordFits
<1>4. Open(new) => Exposed(p)
  BY <1>1, <1>3 DEF Exposed, Open, Live
<1>5. /\ Len(rec) < MaxRecords /\ rec' = Append(rec, new)
      /\ \/ byId' = byId /\ call[c].op = "stop"
         \/ byId' = [byId EXCEPT ![p] = Len(rec) + 1] /\ call[c].op # "stop"
  BY DEF LoadRegister, RoomForRecord
<1>6. p \in 1..Len(row') /\ RowsTyped(row') /\ Grows(row, row')
  BY <1>0, <1>1, RowsUnchanged DEF Rows, RowsOK
<1>7. rec'[Len(rec) + 1] = new
  BY <1>0, <1>5 DEF RecordsOK, RecordsTyped
<1> HIDE DEF new, p
<1>8. TablesStep /\ Len(rec') = Len(rec) + 1
  BY <1>0, <1>3, <1>4, <1>5, <1>6, RecordAddTables
<1> USE DEF p
<1>9. QED
  BY <1>3, <1>5, <1>7, <1>8

LEMMA RefreshTables ==
  ASSUME Fits, StartsAreUnderWay, NEW c \in Requests, Refresh(c)
  PROVE  TablesStep
BY TablesStay DEF Fits, Refresh

LEMMA RefreshFailsTables ==
  ASSUME Fits, StartsAreUnderWay, NEW c \in Requests, RefreshFails(c)
  PROVE  /\ TablesStep /\ call[c].rec \in 1..Len(rec)
         /\ writes' = writes \cup {[row |-> rec[call[c].rec].row, status |-> "failed"]}
<1>0. RowsOK /\ RecordsOK /\ CallsOK /\ UNCHANGED <<row, byId>>
  BY DEF Fits, RefreshFails
<1>1. call[c].rec \in 1..Len(rec)
  BY <1>0, CallOf DEF CallFits, RefreshFails, Up
<1>2. rec[call[c].rec] \in Record
  BY <1>0, <1>1, RecordOf
<1> DEFINE k == call[c].rec
           new == [rec[k] EXCEPT !.status = "failed"]
<1>3. /\ rec' = [rec EXCEPT ![k] = new]
      /\ writes' = writes \cup {[row |-> rec[k].row, status |-> "failed"]}
  BY DEF RefreshFails
<1>4. new \in Record /\ new.row = rec[k].row /\ new.status = "failed" /\ new.begin = rec[k].begin
  BY <1>2 DEF Record, PreviewStatus
<1>5. RecordMoves(rec[k], new)
  BY <1>4 DEF RecordMoves, Open
<1> HIDE DEF new
<1>6. TablesStep
  BY <1>0, <1>1, <1>3, <1>4, <1>5, RecordSetTables
<1>7. QED
  BY <1>1, <1>3, <1>6

LEMMA SweepRetireTables ==
  ASSUME Fits, StartsAreUnderWay, NEW p \in Rows, SweepRetire(p)
  PROVE  /\ TablesStep
         /\ \/ UNCHANGED <<rec, retiring>>
            \/ /\ Len(rec') = Len(rec) + 1 /\ rec'[Len(rec) + 1].row = p
               /\ retiring' = [retiring EXCEPT ![SessionOfRow(p)] =
                                  Append(@, Operation(Len(rec) + 1, "expired"))]
<1>0. RowsOK /\ RecordsOK /\ HostOK /\ UNCHANGED <<row, byId>>
  BY DEF Fits, SweepRetire
<1> DEFINE found == NewRecord(p, "ready", container[SessionOfRow(p)])
           new == Ended(found)
<1>1. CASE UNCHANGED <<rec, retiring>>
  BY <1>0, <1>1, TablesStay
<1>2. CASE /\ Len(rec) < MaxRecords /\ rec' = Append(rec, new)
           /\ retiring' = [retiring EXCEPT ![SessionOfRow(p)] =
                              Append(@, Operation(Len(rec) + 1, "expired"))]
  <2>1. container[SessionOfRow(p)] \in BOOLEAN /\ p \in Nat
    BY <1>0, ContainerOf, RowOf
  <2>2. found \in Record /\ found.row = p
    BY <2>1, NewRecordFits DEF PreviewStatus
  <2>3. new \in Record /\ new.row = p
    BY <2>2, EndedFits
  <2>4. p \in 1..Len(row') /\ RowsTyped(row') /\ Grows(row, row')
    BY <1>0, RowsUnchanged DEF Rows, RowsOK
  <2>5. rec'[Len(rec) + 1] = new
    BY <1>0, <1>2 DEF RecordsOK, RecordsTyped
  <2> HIDE DEF new
  <2>6. TablesStep /\ Len(rec') = Len(rec) + 1
    BY <1>0, <1>2, <2>3, <2>4, RecordAddTables
  <2>7. QED
    BY <1>2, <2>3, <2>5, <2>6
<1>3. QED
  BY <1>1, <1>2 DEF SweepRetire, RoomForRecord

-----------------------------------------------------------------------------
(* What a retirement does *)

LEMMA OperationOf ==
  ASSUME Fits, NEW s \in Sessions, NEW i \in 1..Len(retiring[s])
  PROVE  /\ retiring[s] \in Seq(Retirement) /\ Len(retiring[s]) \in Nat
         /\ retiring[s][i] \in Retirement
         /\ OperationFits(row, rec, s, retiring[s][i])
         /\ retiring[s][i].rec \in 1..Len(rec) /\ rec[retiring[s][i].rec] \in Record
         /\ RowAt(s, i) = rec[retiring[s][i].rec].row
         /\ RowAt(s, i) \in Rows /\ SessionOfRow(RowAt(s, i)) = s
<1>1. /\ retiring[s] \in Seq(Retirement) /\ Len(retiring[s]) \in Nat
      /\ retiring[s][i] \in Retirement
      /\ OperationFits(row, rec, s, retiring[s][i])
  BY DEF Fits, RetirementsOK
<1>2. retiring[s][i].rec \in 1..Len(rec)
  BY <1>1 DEF OperationFits
<1>3. rec[retiring[s][i].rec] \in Record /\ rec[retiring[s][i].rec].row \in Rows
  BY <1>2, RecordOf DEF Fits
<1>4. QED
  BY <1>1, <1>2, <1>3 DEF RowAt, OperationFits, SessionOfRow

\* Only the first operation of a session is at work.
LEMMA FirstInTurn ==
  ASSUME NEW s \in Sessions, NEW i, NEW pc, At(s, i, pc)
  PROVE  i = 1 /\ retiring[s] # <<>> /\ retiring[s][1].pc = pc
BY DEF At, Turn

\* The operations of session s move up by one.
LEMMA FirstGone ==
  ASSUME NEW ops \in Seq(Retirement), Len(ops) # 0
  PROVE  /\ Without(ops, 1) \in Seq(Retirement) /\ Len(Without(ops, 1)) = Len(ops) - 1
         /\ \A j \in 1..Len(ops) - 1 : Without(ops, 1)[j] = ops[j + 1]
<1>1. Len(ops) \in Nat \ {0} /\ 1 - 1 = 0 /\ 1 + 1 = 2
  OBVIOUS
<1>2. SubSeq(ops, 1, 0) \in Seq(Retirement) /\ Len(SubSeq(ops, 1, 0)) = 0
  BY <1>1
<1>3. /\ SubSeq(ops, 2, Len(ops)) \in Seq(Retirement) /\ Len(SubSeq(ops, 2, Len(ops))) = Len(ops) - 1
      /\ \A j \in 1..Len(ops) - 1 : SubSeq(ops, 2, Len(ops))[j] = ops[j + 1]
  <2>1. Tail(ops) = SubSeq(ops, 2, Len(ops))
    BY <1>1, TailIsSubSeq
  <2>2. /\ Tail(ops) \in Seq(Retirement) /\ Len(Tail(ops)) = Len(ops) - 1
        /\ \A j \in 1..Len(Tail(ops)) : Tail(ops)[j] = ops[j + 1]
    BY <1>1, HeadTailProperties
  <2>3. QED
    BY <2>1, <2>2
<1>4. Without(ops, 1) = SubSeq(ops, 1, 0) \o SubSeq(ops, 2, Len(ops))
  BY <1>1 DEF Without
<1> DEFINE front == SubSeq(ops, 1, 0)
           rest == SubSeq(ops, 2, Len(ops))
<1> HIDE DEF front, rest
<1>5. front \o rest \in Seq(Retirement) /\ Len(front \o rest) = Len(ops) - 1
  BY <1>1, <1>2, <1>3 DEF front, rest
<1>6. ASSUME NEW j \in 1..Len(ops) - 1 PROVE (front \o rest)[j] = ops[j + 1]
  <2>1. front \in Seq(Retirement) /\ rest \in Seq(Retirement) /\ Len(front) = 0 /\ Len(rest) = Len(ops) - 1
    BY <1>2, <1>3 DEF front, rest
  <2>2. (front \o rest)[j] = rest[j]
    BY <1>1, <2>1
  <2>3. QED
    BY <1>3, <2>2 DEF rest
<1>7. QED
  BY <1>4, <1>5, <1>6 DEF front, rest

\* The first operation of session s is over, or ends with a rejected check.
Done(s) ==
    \/ Over(s, 1)
    \/ retiring' = [retiring EXCEPT ![s] = Without(@, 1)] /\ UNCHANGED <<rec, writes>>

LEMMA OverEffect ==
  ASSUME Fits, StartsAreUnderWay, NEW s \in Sessions, Len(retiring[s]) # 0, Done(s),
         UNCHANGED <<row, byId>>
  PROVE  /\ TablesStep /\ Len(rec') = Len(rec)
         /\ retiring' \in [Sessions -> Seq(Retirement)]
         /\ \A t \in Sessions : t # s => retiring'[t] = retiring[t]
         /\ Len(retiring'[s]) = Len(retiring[s]) - 1
         /\ \A j \in 1..Len(retiring[s]) - 1 : retiring'[s][j] = retiring[s][j + 1]
         /\ RowAt(s, 1) \in Rows
         /\ writes' \in {writes, writes \cup {[row |-> RowAt(s, 1), status |-> "stopped"]}}
<1>0. RowsOK /\ RecordsOK /\ retiring \in [Sessions -> Seq(Retirement)]
  BY DEF Fits, RetirementsOK
<1>1. retiring[s] \in Seq(Retirement) /\ 1 \in 1..Len(retiring[s])
  BY <1>0
<1>2. /\ retiring[s][1].rec \in 1..Len(rec) /\ rec[retiring[s][1].rec] \in Record /\ RowAt(s, 1) \in Rows
  BY <1>1, OperationOf
<1> DEFINE k == retiring[s][1].rec
           new == [rec[k] EXCEPT !.status = "stopped"]
<1>3. TablesStep /\ Len(rec') = Len(rec)
  <2>1. rec' = rec \/ rec' = [rec EXCEPT ![k].status = "stopped"]
    BY DEF Done, Over
  <2>2. CASE rec' = rec
    BY <1>0, <2>2, TablesStay
  <2>3. CASE rec' = [rec EXCEPT ![k].status = "stopped"]
    <3>1. rec' = [rec EXCEPT ![k] = new]
      BY <2>3
    <3>2. new \in Record /\ new.row = rec[k].row /\ new.status = "stopped" /\ new.begin = rec[k].begin
      BY <1>2 DEF Record, PreviewStatus
    <3>3. RecordMoves(rec[k], new)
      BY <3>2 DEF RecordMoves, Open
    <3> HIDE DEF new
    <3>4. QED
      BY <1>0, <1>2, <3>1, <3>2, <3>3, RecordSetTables
  <2>4. QED
    BY <2>1, <2>2, <2>3
<1>4. retiring' = [retiring EXCEPT ![s] = Without(retiring[s], 1)]
  BY DEF Done, Over
<1>5. /\ Without(retiring[s], 1) \in Seq(Retirement) /\ Len(Without(retiring[s], 1)) = Len(retiring[s]) - 1
      /\ \A j \in 1..Len(retiring[s]) - 1 : Without(retiring[s], 1)[j] = retiring[s][j + 1]
  BY <1>1, FirstGone
<1>6. /\ retiring' \in [Sessions -> Seq(Retirement)]
      /\ retiring'[s] = Without(retiring[s], 1)
      /\ \A t \in Sessions : t # s => retiring'[t] = retiring[t]
  BY <1>0, <1>4, <1>5
<1>7. writes' \in {writes, writes \cup {[row |-> RowAt(s, 1), status |-> "stopped"]}}
  BY DEF Done, Over
<1>8. QED
  BY <1>2, <1>3, <1>5, <1>6, <1>7

\* The first operation of session s becomes op, about the same record.
LEMMA OperationChanged ==
  ASSUME Fits, NEW s \in Sessions, Len(retiring[s]) # 0, NEW op \in Retirement,
         op.rec = retiring[s][1].rec, retiring' = [retiring EXCEPT ![s][1] = op]
  PROVE  /\ retiring' \in [Sessions -> Seq(Retirement)]
         /\ \A t \in Sessions : t # s => retiring'[t] = retiring[t]
         /\ Len(retiring'[s]) = Len(retiring[s])
         /\ retiring'[s][1] = op
         /\ \A j \in 2..Len(retiring[s]) : retiring'[s][j] = retiring[s][j]
<1>0. retiring \in [Sessions -> Seq(Retirement)] /\ retiring[s] \in Seq(Retirement)
  BY DEF Fits, RetirementsOK
<1> DEFINE after == [retiring[s] EXCEPT ![1] = op]
<1>1. retiring' = [retiring EXCEPT ![s] = after]
  BY <1>0
<1>2. /\ after \in Seq(Retirement) /\ Len(after) = Len(retiring[s]) /\ after[1] = op
      /\ \A j \in 2..Len(retiring[s]) : after[j] = retiring[s][j]
  BY <1>0
<1> HIDE DEF after
<1>3. QED
  BY <1>0, <1>1, <1>2

\* An operation is queued for session s.
LEMMA OperationQueued ==
  ASSUME Fits, NEW s \in Sessions, NEW op \in Retirement,
         retiring' = [retiring EXCEPT ![s] = Append(@, op)]
  PROVE  /\ retiring' \in [Sessions -> Seq(Retirement)]
         /\ \A t \in Sessions : t # s => retiring'[t] = retiring[t]
         /\ Len(retiring'[s]) = Len(retiring[s]) + 1
         /\ retiring'[s][Len(retiring[s]) + 1] = op
         /\ \A j \in 1..Len(retiring[s]) : retiring'[s][j] = retiring[s][j]
<1>0. retiring \in [Sessions -> Seq(Retirement)] /\ retiring[s] \in Seq(Retirement)
  BY DEF Fits, RetirementsOK
<1> DEFINE after == Append(retiring[s], op)
<1>1. retiring' = [retiring EXCEPT ![s] = after]
  BY <1>0
<1>2. /\ after \in Seq(Retirement) /\ Len(after) = Len(retiring[s]) + 1
      /\ after[Len(retiring[s]) + 1] = op
      /\ \A j \in 1..Len(retiring[s]) : after[j] = retiring[s][j]
  BY <1>0
<1> HIDE DEF after
<1>3. QED
  BY <1>0, <1>1, <1>2

LEMMA NewOperation ==
  ASSUME NEW k \in Nat, NEW why \in {"stop", "sweep", "expired", "recovery"}
  PROVE  /\ Operation(k, why) \in Retirement
         /\ Operation(k, why).rec = k /\ Operation(k, why).pc = "queued"
BY DEF Operation, Retirement

\* What the operations of a session were made of: each is one there was, or the first of
\* them one step on, or a new one about a record of the session.
Continues(s, op) ==
    \/ \E i \in 1..Len(retiring[s]) : op.rec = retiring[s][i].rec
    \/ op.rec \in 1..Len(rec') /\ SessionOf[row'[rec'[op.rec].row].run] = s
OperationsMove ==
    /\ retiring' \in [Sessions -> Seq(Retirement)]
    /\ \A s \in Sessions : \A j \in 1..Len(retiring'[s]) : Continues(s, retiring'[s][j])

LEMMA RetirementsKept ==
  ASSUME Fits, TablesFit, OperationsMove
  PROVE  RetirementsOK'
<1> SUFFICES ASSUME NEW s \in Sessions, NEW j \in 1..Len(retiring'[s])
             PROVE  OperationFits(row', rec', s, retiring'[s][j])
  BY DEF RetirementsOK, OperationsMove
<1>1. retiring'[s] \in Seq(Retirement) /\ retiring'[s][j] \in Retirement
  BY DEF OperationsMove
<1>2. Continues(s, retiring'[s][j])
  BY DEF OperationsMove
<1>3. CASE \E i \in 1..Len(retiring[s]) : retiring'[s][j].rec = retiring[s][i].rec
  <2> PICK i \in 1..Len(retiring[s]) : retiring'[s][j].rec = retiring[s][i].rec
    BY <1>3
  <2>1. OperationFits(row, rec, s, retiring[s][i])
    BY OperationOf
  <2>2. OperationFits(row', rec', s, retiring[s][i])
    BY <2>1, OperationStillFits DEF Fits, RowsOK, RecordsOK, TablesFit
  <2>3. QED
    BY <1>1, <2>2 DEF OperationFits
<1>4. CASE /\ retiring'[s][j].rec \in 1..Len(rec')
           /\ SessionOf[row'[rec'[retiring'[s][j].rec].row].run] = s
  BY <1>1, <1>4 DEF OperationFits
<1>5. QED
  BY <1>2, <1>3, <1>4 DEF Continues

-----------------------------------------------------------------------------
(* Every step, ends of the process excepted *)

\* A step of a retirement: it goes one step on, or it is over.
Retires(s, i) ==
    \/ RetireUpdate(s, i) \/ RetireCheckSession(s, i) \/ RetireCheckSiblings(s, i)
    \/ RetireCheckRun(s, i) \/ RetireRejected(s, i) \/ RetireDestroy(s, i)
Retirements == \E s \in Sessions : \E i \in DOMAIN retiring[s] : Retires(s, i)

LEMMA RetireSteps ==
  ASSUME Fits, StartsAreUnderWay, NEW s \in Sessions, NEW i \in 1..Len(retiring[s]), Retires(s, i)
  PROVE  /\ i = 1 /\ Len(retiring[s]) # 0 /\ UNCHANGED <<call, expired, service, attempt, crashes, vars>>
         /\ byId' = byId
         /\ \/ /\ Done(s) /\ retiring[s][1].pc # "queued" /\ UNCHANGED <<row, overlapped>>
            \/ /\ \E op \in Retirement :
                     /\ op.rec = retiring[s][1].rec /\ op.pc # "queued"
                     /\ retiring' = [retiring EXCEPT ![s][1] = op]
               /\ UNCHANGED <<rec, writes, container, left>>
               /\ \/ RetireUpdate(s, i) /\ SetRow(RowAt(s, 1), "stopped")
                  \/ retiring[s][1].pc # "queued" /\ UNCHANGED <<row, overlapped>>
<1>0. retiring[s] \in Seq(Retirement) /\ Len(retiring[s]) \in Nat /\ Len(retiring[s]) # 0
  BY OperationOf
<1>1. i = 1 /\ retiring[s][1].pc \in {"queued", "stopped", "idle", "alone", "free"}
  <2>1. \E pc \in {"queued", "stopped", "idle", "alone", "free"} : At(s, i, pc)
    BY DEF Retires, RetireUpdate, RetireCheckSession, RetireCheckSiblings, RetireCheckRun,
           RetireDestroy, RetireRejected, Rejected
  <2>2. QED
    BY <2>1, FirstInTurn
<1> DEFINE op == retiring[s][1]
<1>2. op \in Retirement /\ retiring \in [Sessions -> Seq(Retirement)]
  BY <1>1, OperationOf DEF Fits, RetirementsOK
<1>3. UNCHANGED <<call, expired, service, attempt, crashes, vars>> /\ byId' = byId
  BY DEF Retires, RetireUpdate, RetireCheckSession, RetireCheckSiblings, RetireCheckRun,
         RetireDestroy, RetireRejected, Rejected, RetirementRest, hostVars
<1>4. ASSUME NEW pc \in {"stopped", "idle", "alone", "free"},
             retiring' = [retiring EXCEPT ![s][1].pc = pc]
      PROVE  \E after \in Retirement :
                /\ after.rec = op.rec /\ after.pc # "queued"
                /\ retiring' = [retiring EXCEPT ![s][1] = after]
  <2> DEFINE after == [op EXCEPT !.pc = pc]
  <2>1. after \in Retirement /\ after.rec = op.rec /\ after.pc # "queued"
    BY <1>2 DEF Retirement
  <2>2. retiring' = [retiring EXCEPT ![s][1] = after]
    BY <1>4
  <2> HIDE DEF after
  <2>3. QED
    BY <2>1, <2>2
<1>5. CASE RetireUpdate(s, i)
  <2>1. /\ retiring' = [retiring EXCEPT ![s][1].pc = "stopped"]
        /\ UNCHANGED <<rec, writes, container, left>> /\ SetRow(RowAt(s, 1), "stopped")
    BY <1>1, <1>5 DEF RetireUpdate
  <2>2. QED
    BY <1>0, <1>1, <1>3, <1>4, <1>5, <2>1
<1>6. ASSUME RetireCheckSession(s, i) \/ RetireCheckSiblings(s, i) \/ RetireCheckRun(s, i),
             ~Over(s, 1)
      PROVE  /\ UNCHANGED <<rec, writes, container, left>>
             /\ \E pc \in {"idle", "alone", "free"} : retiring' = [retiring EXCEPT ![s][1].pc = pc]
  BY <1>1, <1>6 DEF RetireCheckSession, RetireCheckSiblings, RetireCheckRun
<1>7. RetireDestroy(s, i) \/ RetireRejected(s, i) => Done(s)
  BY <1>1 DEF RetireDestroy, RetireRejected, Rejected, Done
<1>8. \/ RetireCheckSession(s, i) \/ RetireCheckSiblings(s, i) \/ RetireCheckRun(s, i)
      \/ RetireDestroy(s, i) \/ RetireRejected(s, i)
      => op.pc # "queued" /\ UNCHANGED <<row, overlapped>>
  BY <1>1, FirstInTurn DEF RetireCheckSession, RetireCheckSiblings, RetireCheckRun, RetireDestroy,
                           RetireRejected, Rejected, At
<1>9. QED
  BY <1>0, <1>1, <1>3, <1>4, <1>5, <1>6, <1>7, <1>8 DEF Retires, Done

LEMMA RetireTables ==
  ASSUME Fits, StartsAreUnderWay, NEW s \in Sessions, NEW i \in 1..Len(retiring[s]),
         Retires(s, i)
  PROVE  TablesStep
<1>0. RowsOK /\ RecordsOK
  BY DEF Fits
<1>1. CASE Done(s) /\ UNCHANGED <<row, overlapped>>
  BY <1>1, RetireSteps, OverEffect
<1>2. CASE UNCHANGED rec /\ SetRow(RowAt(s, 1), "stopped")
  <2>1. i = 1 /\ byId' = byId
    BY RetireSteps
  <2>2. RowAt(s, 1) \in Rows
    BY <2>1, OperationOf
  <2>3. QED
    BY <1>0, <1>2, <2>1, <2>2, RowSetTables DEF PreviewStatus
<1>3. CASE UNCHANGED <<rec, row>>
  BY <1>0, <1>3, RetireSteps, TablesStay
<1>4. QED
  BY <1>1, <1>2, <1>3, RetireSteps

\* Every step but an end of the process and the recovery after it.
Serves ==
    \/ CallStep
    \/ \E k \in DOMAIN rec : BeginAttach(k) \/ BeginRelay(k)
    \/ \E w \in writes : WriteCommits(w)
    \/ \E p \in Rows : SweepRecord(p) \/ SweepList(p) \/ SweepRetire(p)
    \/ Recovered \/ Retirements \/ HostStep
    \/ UNCHANGED previewVars

\* A rejected check ends the recovery.
RecoveryEnds == \E s \in Sessions : \E i \in DOMAIN retiring[s] : RecoveryRejected(s, i)

LEMMA StepKinds == [PreviewNext]_previewVars => Serves \/ Crash \/ Recover \/ RecoveryEnds
BY DEF PreviewNext, ServiceStep, Serves, RetirementStep, Retirements, Retires, RecoveryEnds

LEMMA RecordDomain == ASSUME RecordsOK PROVE DOMAIN rec = 1..Len(rec)
BY DEF RecordsOK, RecordsTyped

LEMMA OperationDomain ==
  ASSUME RetirementsOK, NEW s \in Sessions PROVE DOMAIN retiring[s] = 1..Len(retiring[s])
BY DEF RetirementsOK

\* An update that commits is of a row there is.
LEMMA WriteOf ==
  ASSUME UpdatesOK, NEW w \in writes
  PROVE  /\ w.row \in Rows /\ w.status \in Sent /\ w.status \in PreviewStatus
         /\ w = [row |-> w.row, status |-> w.status]
<1>1. w \in [row: Nat, status: PreviewStatus] /\ WriteFits(row, w)
  BY DEF UpdatesOK
<1>2. QED
  BY <1>1 DEF WriteFits, Rows

LEMMA HostLeavesApi == HostStep => UNCHANGED <<apiVars, crashes, overlapped, left>>
BY DEF HostStep, Admit, Claim, WorkerStart, TeardownRead, TeardownAct, End, WorkerDies, Suspend,
       Resume, Answered, Park, ParkRelease, ParkDrop, historyVars

LEMMA TablesMove ==
  ASSUME Fits, StartsAreUnderWay, Serves
  PROVE  TablesStep
<1>0. RowsOK /\ RecordsOK /\ UpdatesOK /\ RetirementsOK
  BY DEF Fits
<1>1. CASE CallStep
  <2>1. ASSUME NEW c \in Requests, NEW r \in Runs, StartLook(c, r) PROVE TablesStep
    BY <1>0, <2>1, TablesStay DEF StartLook
  <2>2. ASSUME NEW c \in Requests, NEW p \in Rows, NEW op, Ask(c, p, op) PROVE TablesStep
    <3>1. UNCHANGED <<row, rec>>
      BY <2>2 DEF Ask
    <3>2. byId' = byId \/ (byId[p] # 0 /\ TornDown(byId[p], "stop"))
      BY <2>2 DEF Ask
    <3>3. QED
      BY <1>0, <3>1, <3>2, TablesStay, TornDownTables
  <2>3. ASSUME NEW c \in Requests, LoadRead(c) PROVE TablesStep
    BY <1>0, <2>3, TablesStay DEF LoadRead
  <2>4. QED
    BY <1>1, <2>1, <2>2, <2>3, StartDecideTables, StartAdoptTables, StartReplaceTables,
       StartCreateTables, LoadRegisterTables, RefreshTables, RefreshFailsTables DEF CallStep
<1>2. CASE \E k \in DOMAIN rec : BeginAttach(k) \/ BeginRelay(k)
  BY <1>0, <1>2, RecordDomain, BeginAttachTables, BeginRelayTables
<1>3. ASSUME NEW w \in writes, WriteCommits(w) PROVE TablesStep
  BY <1>0, <1>3, WriteOf, RowSetTables DEF WriteCommits
<1>4. ASSUME NEW p \in Rows, SweepRecord(p) PROVE TablesStep
  BY <1>4, TornDownTables DEF SweepRecord
<1>5. ASSUME NEW p \in Rows, SweepList(p) PROVE TablesStep
  BY <1>0, <1>5, TablesStay DEF SweepList
<1>6. ASSUME NEW p \in Rows, SweepRetire(p) PROVE TablesStep
  BY <1>6, SweepRetireTables
<1>7. CASE Recovered
  BY <1>0, <1>7, TablesStay DEF Recovered
<1>8. CASE Retirements
  BY <1>0, <1>8, OperationDomain, RetireTables DEF Retirements
<1>9. CASE HostStep
  BY <1>0, <1>9, HostLeavesApi, TablesStay DEF apiVars
<1>10. CASE UNCHANGED previewVars
  BY <1>0, <1>10, TablesStay DEF previewVars, apiVars
<1>11. QED
  BY <1>1, <1>2, <1>3, <1>4, <1>5, <1>6, <1>7, <1>8, <1>9, <1>10 DEF Serves

-----------------------------------------------------------------------------
(* Calls stay typed *)

LEMMA CallsStay == ASSUME Fits, TablesFit, call' = call PROVE CallsOK'
<1>1. \A c \in Requests : CallFits(row', rec', call[c])
  BY CallStillFits DEF Fits, RowsOK, RecordsOK, CallsOK, TablesFit
<1>2. QED
  BY <1>1 DEF Fits, CallsOK

LEMMA CallBecomes ==
  ASSUME Fits, TablesFit, NEW c \in Requests, NEW it, CallFits(row', rec', it), Becomes(c, it)
  PROVE  /\ CallsOK' /\ call'[c] = it /\ \A d \in Requests : d # c => call'[d] = call[d]
<1>1. \A d \in Requests : CallFits(row', rec', call[d])
  BY CallStillFits DEF Fits, RowsOK, RecordsOK, CallsOK, TablesFit
<1>2. call \in [Requests -> Call] /\ it \in Call /\ call' = [call EXCEPT ![c] = it]
  BY DEF Fits, CallsOK, CallFits, Becomes
<1>3. /\ call' \in [Requests -> Call] /\ call'[c] = it
      /\ \A d \in Requests : d # c => call'[d] = call[d]
  BY <1>2
<1>4. QED
  BY <1>1, <1>3 DEF CallsOK

LEMMA IdleFits == ASSUME NEW table, NEW records PROVE CallFits(table, records, Idle)
BY DEF CallFits, Idle, Call

\* A set of row numbers that is not empty has a greatest element: the intervals from its
\* elements up are finite sets, and inclusion is well-founded on those.
LEMMA GreatestRow ==
  ASSUME NEW n \in Nat, NEW U, U \subseteq 1..n, U # {}
  PROVE  \E x \in U : \A y \in U : y <= x
<1> DEFINE upFrom(p) == p..n
<1> DEFINE T == {upFrom(p) : p \in U}
<1>1. T \subseteq FiniteSubsetsOf(Nat)
  <2>1. \A p \in U : p \in Int /\ n \in Int /\ p..n \subseteq Nat
    OBVIOUS
  <2>2. QED
    BY <2>1, FS_Interval DEF FiniteSubsetsOf
<1>2. T # {}
  OBVIOUS
<1>3. IsWellFoundedOn(StrictSubsetOrdering(Nat), FiniteSubsetsOf(Nat))
  BY FS_StrictSubsetOrderingWellFounded
<1> HIDE DEF T
<1>4. \E S \in T : \A R \in T : ~ (<<R, S>> \in StrictSubsetOrdering(Nat))
  BY <1>1, <1>2, <1>3, WFMin
<1>5. PICK x \in U : \A R \in T : ~ (<<R, upFrom(x)>> \in StrictSubsetOrdering(Nat))
  BY <1>4 DEF T
<1>6. ASSUME NEW y \in U, ~ (y <= x) PROVE FALSE
  <2>1. upFrom(y) \subseteq upFrom(x) /\ x \in upFrom(x) /\ x \notin upFrom(y)
    BY <1>6
  <2>2. upFrom(y) \in T /\ upFrom(y) \subseteq Nat /\ upFrom(x) \subseteq Nat
    BY DEF T
  <2>3. <<upFrom(y), upFrom(x)>> \in StrictSubsetOrdering(Nat)
    <3> HIDE DEF upFrom
    <3>1. QED
      BY <2>1, <2>2 DEF StrictSubsetOrdering
  <2>4. QED
    BY <1>5, <2>2, <2>3
<1>7. QED
  BY <1>6

\* getByRun finds an active preview of the run.
LEMMA GetByRunFinds ==
  ASSUME RowsOK, NEW r \in Runs, GetByRun(r) # 0
  PROVE  /\ GetByRun(r) \in Rows /\ row[GetByRun(r)].run = r /\ row[GetByRun(r)].status \in Live
<1> DEFINE found == {p \in Rows : row[p].run = r /\ row[p].status \in Live}
<1>1. found # {} /\ GetByRun(r) = CHOOSE p \in found : \A q \in found : q <= p
  BY DEF GetByRun
<1>2. found \subseteq 1..Len(row) /\ Len(row) \in Nat
  BY DEF RowsOK, RowsTyped, Rows
<1>3. \E p \in found : \A q \in found : q <= p
  <2> HIDE DEF found
  <2>1. QED
    BY <1>1, <1>2, GreatestRow
<1>4. GetByRun(r) \in found
  BY <1>1, <1>3
<1>5. QED
  BY <1>4

\* A call that may show the preview of row p.
Shows(it, p) ==
    /\ it.row = p
    /\ it.pc \in {"looked", "adopt"} \/ (it.pc = "register" /\ it.status \in Live)
CallsMove ==
    \A c \in Requests : \A p \in Rows :
        Shows(call'[c], p) => Exposed(p) \/ row[p].status # "stopped"

LEMMA ShowsExposes ==
  ASSUME NEW c \in Requests, NEW p, Shows(call[c], p) PROVE Exposed(p)
BY DEF Shows, Exposed

LEMMA CallsStayMove == ASSUME Fits, TablesFit, call' = call PROVE CallsOK' /\ CallsMove
BY CallsStay, ShowsExposes DEF CallsMove

LEMMA CallMoves ==
  ASSUME Fits, TablesFit, NEW c \in Requests, NEW it, CallFits(row', rec', it), Becomes(c, it),
         \A p \in Rows : Shows(it, p) => Exposed(p) \/ row[p].status # "stopped"
  PROVE  CallsOK' /\ CallsMove
BY CallBecomes, ShowsExposes DEF CallsMove

LEMMA StartLookCall ==
  ASSUME Fits, TablesFit, NEW c \in Requests, NEW r \in Runs, StartLook(c, r)
  PROVE  CallsOK' /\ CallsMove
<1> DEFINE p == GetByRun(r)
           st == IF p = 0 THEN None ELSE row[p].status
           it == [Idle EXCEPT !.pc = "looked", !.run = r, !.row = p, !.status = st]
<1>0. RowsOK /\ Len(row) \in Nat /\ UNCHANGED <<row, rec>>
  BY DEF Fits, RowsOK, RowsTyped, StartLook
<1>1. p # 0 => p \in Rows /\ row[p].run = r /\ row[p].status \in Live
  BY <1>0, GetByRunFinds
<1>2. p \in 0..Len(row) /\ p \in Nat
  BY <1>0, <1>1 DEF Rows
<1>3. st \in PreviewStatus \cup {None} /\ (p # 0 => st \in Live)
  BY <1>1 DEF Live, PreviewStatus
<1>4. Becomes(c, it)
  BY DEF StartLook
<1> HIDE DEF p, st
<1>5. /\ it.pc = "looked" /\ it.run = r /\ it.row = p /\ it.status = st /\ it \in Call
  BY <1>2, <1>3 DEF Idle, Call
<1> HIDE DEF it
<1>6. CallFits(row', rec', it)
  BY <1>0, <1>1, <1>2, <1>3, <1>5 DEF CallFits
<1>7. \A q \in Rows : Shows(it, q) => row[q].status # "stopped"
  BY <1>0, <1>1, <1>5 DEF Shows, Live, Rows
<1>8. QED
  BY <1>4, <1>6, <1>7, CallMoves

LEMMA StartDecideCall ==
  ASSUME Fits, TablesFit, NEW c \in Requests, StartDecide(c)
  PROVE  CallsOK' /\ CallsMove
<1>0. RowsOK /\ CallsOK /\ row' = row
  BY DEF Fits, StartDecide
<1>1. /\ call[c] \in Call /\ CallFits(row, rec, call[c]) /\ call[c].pc = "looked"
      /\ call[c].row # 0 => call[c].row \in Rows
  BY <1>0, CallOf DEF StartDecide, Up
<1>2. call[c].row # 0 => Exposed(call[c].row)
  BY <1>1 DEF Exposed
<1>3. ASSUME NEW pc \in {"create", "adopt", "replace"}, pc # "create" => call[c].row # 0,
             Becomes(c, [call[c] EXCEPT !.pc = pc])
      PROVE  CallsOK' /\ CallsMove
  <2> DEFINE it == [call[c] EXCEPT !.pc = pc]
  <2>1. /\ it \in Call /\ it.pc = pc /\ it.row = call[c].row /\ it.run = call[c].run
        /\ it.status = call[c].status
    BY <1>1 DEF Call
  <2> HIDE DEF it
  <2>2. CallFits(row, rec, it)
    BY <1>1, <1>3, <2>1 DEF CallFits
  <2>3. CallFits(row', rec', it)
    BY <2>2, CallStillFits DEF Fits, RowsOK, RecordsOK, TablesFit
  <2>4. \A p \in Rows : Shows(it, p) => Exposed(p)
    BY <1>2, <1>3, <2>1 DEF Shows
  <2> USE DEF it
  <2>5. Becomes(c, it)
    BY <1>3
  <2> HIDE DEF it
  <2>6. QED
    BY <2>3, <2>4, <2>5, CallMoves
<1>4. CASE Becomes(c, Idle)
  BY <1>4, IdleFits, CallMoves DEF Shows, Idle
<1>5. \/ Becomes(c, Idle)
      \/ \E pc \in {"create", "adopt", "replace"} :
            (pc # "create" => call[c].row # 0) /\ Becomes(c, [call[c] EXCEPT !.pc = pc])
  BY DEF StartDecide
<1>6. QED
  BY <1>3, <1>4, <1>5

LEMMA StartReplaceCall ==
  ASSUME Fits, TablesFit, NEW c \in Requests, StartReplace(c)
  PROVE  /\ CallsOK' /\ CallsMove
         /\ call[c].pc = "replace" /\ call[c].row \in Rows /\ row[call[c].row].run = call[c].run
         /\ call'[c].pc = "create" /\ call'[c].run = call[c].run
         /\ \A d \in Requests : d # c => call'[d] = call[d]
<1>0. RowsOK /\ CallsOK
  BY DEF Fits
<1>1. /\ call[c] \in Call /\ CallFits(row, rec, call[c]) /\ call[c].pc = "replace"
      /\ call[c].row \in Rows /\ row[call[c].row].run = call[c].run
  BY <1>0, CallOf DEF StartReplace, Up, CallFits, Rows
<1> DEFINE it == [call[c] EXCEPT !.pc = "create"]
<1>2. /\ it \in Call /\ it.pc = "create" /\ it.row = call[c].row /\ it.run = call[c].run
  BY <1>1 DEF Call
<1>3. Becomes(c, it)
  BY DEF StartReplace
<1> HIDE DEF it
<1>4. CallFits(row', rec', it)
  BY <1>1, <1>2 DEF CallFits
<1>5. \A p \in Rows : ~Shows(it, p)
  BY <1>2 DEF Shows
<1>6. CallsOK' /\ CallsMove /\ call'[c] = it /\ \A d \in Requests : d # c => call'[d] = call[d]
  BY <1>3, <1>4, <1>5, CallMoves, CallBecomes
<1>7. QED
  BY <1>1, <1>2, <1>6

LEMMA AskCall ==
  ASSUME Fits, TablesFit, NEW c \in Requests, NEW p \in Rows,
         NEW op \in {"status", "target", "stop"}, Ask(c, p, op)
  PROVE  CallsOK' /\ CallsMove
<1>0. RowsOK /\ RecordsOK /\ CallsOK /\ UNCHANGED <<row, rec>> /\ p \in Nat
  BY RowOf DEF Fits, Ask
<1>1. CASE Becomes(c, [Idle EXCEPT !.pc = "load", !.row = p, !.op = op])
  <2> DEFINE it == [Idle EXCEPT !.pc = "load", !.row = p, !.op = op]
  <2>1. it \in Call /\ it.pc = "load" /\ it.row = p
    BY <1>0 DEF Idle, Call
  <2>2. Becomes(c, it)
    BY <1>1
  <2> HIDE DEF it
  <2>3. CallFits(row', rec', it) /\ \A q \in Rows : ~Shows(it, q)
    BY <1>0, <2>1 DEF CallFits, Shows, Rows
  <2>4. QED
    BY <2>2, <2>3, CallMoves
<1>2. CASE byId[p] # 0 /\ Becomes(c, [Idle EXCEPT !.pc = "refresh", !.row = p, !.rec = byId[p]])
  <2> DEFINE it == [Idle EXCEPT !.pc = "refresh", !.row = p, !.rec = byId[p]]
  <2>0. byId[p] \in 1..Len(rec) /\ byId[p] \in Nat
    BY <1>0, <1>2, RowOf DEF RecordsOK, RegistryTyped, RecordsTyped
  <2>1. it \in Call /\ it.pc = "refresh" /\ it.row = p /\ it.rec = byId[p]
    BY <1>0, <2>0 DEF Idle, Call
  <2>2. Becomes(c, it)
    BY <1>2
  <2> HIDE DEF it
  <2>3. CallFits(row', rec', it) /\ \A q \in Rows : ~Shows(it, q)
    BY <1>0, <2>0, <2>1 DEF CallFits, Shows
  <2>4. QED
    BY <2>2, <2>3, CallMoves
<1>3. CASE call' = call
  BY <1>3, CallsStayMove
<1>4. QED
  BY <1>1, <1>2, <1>3 DEF Ask

LEMMA LoadReadCall ==
  ASSUME Fits, TablesFit, NEW c \in Requests, LoadRead(c)
  PROVE  CallsOK' /\ CallsMove
<1>0. RowsOK /\ CallsOK /\ UNCHANGED <<row, rec>>
  BY DEF Fits, LoadRead
<1> DEFINE p == call[c].row
           it == [call[c] EXCEPT !.pc = "register", !.status = row[p].status]
<1>1. call[c] \in Call /\ CallFits(row, rec, call[c]) /\ p \in Rows /\ row[p].status \in PreviewStatus
  BY <1>0, CallOf, RowOf DEF LoadRead, Up
<1>2. it \in Call /\ it.pc = "register" /\ it.row = p /\ it.status = row[p].status
  BY <1>1 DEF Call
<1>3. Becomes(c, it)
  BY DEF LoadRead
<1> HIDE DEF it, p
<1>4. p \in 1..Len(row) /\ Len(row) \in Nat
  BY <1>0, <1>1 DEF Rows, RowsOK, RowsTyped
<1>5. CallFits(row', rec', it)
  BY <1>0, <1>1, <1>2, <1>4 DEF CallFits
<1>6. \A q \in Rows : Shows(it, q) => row[q].status # "stopped"
  BY <1>2 DEF Shows, Live
<1>7. QED
  BY <1>3, <1>5, <1>6, CallMoves

LEMMA LoadRegisterCall ==
  ASSUME Fits, StartsAreUnderWay, TablesFit, NEW c \in Requests, LoadRegister(c)
  PROVE  CallsOK' /\ CallsMove
<1> DEFINE p == call[c].row
           k == Len(rec) + 1
           it == [Idle EXCEPT !.pc = "refresh", !.row = p, !.rec = k]
<1>0. p \in Nat /\ k \in Nat /\ k \in 1..Len(rec')
  <2>1. p \in Nat /\ Len(rec) \in Nat
    BY CallOf DEF Fits, Call, RecordsOK, RecordsTyped
  <2>2. QED
    BY <2>1, LoadRegisterTables
<1>1. Becomes(c, Idle) \/ Becomes(c, it)
  BY DEF LoadRegister
<1> HIDE DEF p, k
<1>2. it \in Call /\ it.pc = "refresh" /\ it.rec = k
  BY <1>0 DEF Idle, Call
<1> HIDE DEF it
<1>3. CallFits(row', rec', it) /\ \A q \in Rows : ~Shows(it, q)
  BY <1>0, <1>2 DEF CallFits, Shows
<1>4. CASE Becomes(c, Idle)
  BY <1>4, IdleFits, CallMoves DEF Shows, Idle
<1>5. QED
  BY <1>1, <1>3, <1>4, CallMoves

LEMMA RefreshCall ==
  ASSUME Fits, TablesFit, NEW c \in Requests, Refresh(c)
  PROVE  CallsOK' /\ CallsMove
<1> DEFINE it == [call[c] EXCEPT !.pc = "failing"]
<1>0. call[c] \in Call /\ CallFits(row, rec, call[c]) /\ call[c].pc = "refresh" /\ rec' = rec
  BY CallOf DEF Fits, Refresh, Up
<1>1. it \in Call /\ it.pc = "failing" /\ it.rec = call[c].rec
  BY <1>0 DEF Call
<1>2. Becomes(c, Idle) \/ Becomes(c, it)
  BY DEF Refresh
<1> HIDE DEF it
<1>3. CallFits(row', rec', it) /\ \A p \in Rows : ~Shows(it, p)
  BY <1>0, <1>1 DEF CallFits, Shows
<1>4. \A p \in Rows : ~Shows(Idle, p)
  BY DEF Shows, Idle
<1>5. QED
  BY <1>2, <1>3, <1>4, IdleFits, CallMoves

LEMMA CallsKept ==
  ASSUME Fits, StartsAreUnderWay, Serves, TablesFit
  PROVE  CallsOK' /\ CallsMove
<1>1. ASSUME NEW c \in Requests, StartAdopt(c) \/ StartCreate(c) \/ RefreshFails(c)
      PROVE  CallsOK' /\ CallsMove
  <2>1. Becomes(c, Idle)
    BY <1>1 DEF StartAdopt, StartCreate, RefreshFails
  <2>2. QED
    BY <2>1, IdleFits, CallMoves DEF Shows, Idle
<1>2. CASE CallStep
  BY <1>1, <1>2, StartLookCall, StartDecideCall, StartReplaceCall, AskCall, LoadReadCall,
     LoadRegisterCall, RefreshCall DEF CallStep
<1>3. CASE \/ \E k \in DOMAIN rec : BeginAttach(k) \/ BeginRelay(k)
           \/ \E w \in writes : WriteCommits(w)
           \/ \E p \in Rows : SweepRecord(p) \/ SweepList(p) \/ SweepRetire(p)
           \/ Recovered
  BY <1>3, CallsStayMove DEF BeginAttach, BeginRelay, WriteCommits, SweepRecord, SweepList,
                             SweepRetire, Recovered
<1>4. CASE Retirements
  <2>1. call' = call
    BY <1>4, OperationDomain, RetireSteps DEF Retirements, Fits
  <2>2. QED
    BY <2>1, CallsStayMove
<1>5. CASE HostStep
  BY <1>5, HostLeavesApi, CallsStayMove DEF apiVars
<1>6. CASE UNCHANGED previewVars
  BY <1>6, CallsStayMove DEF previewVars, apiVars
<1>7. QED
  BY <1>2, <1>3, <1>4, <1>5, <1>6 DEF Serves

-----------------------------------------------------------------------------
(* Updates, operations, host and service stay typed *)

\* What updates a step sends: an old one, or one about a row there is, and ready only for
\* a registered record that is about to be.
NewUpdate(w) ==
    /\ w = [row |-> w.row, status |-> w.status]
    /\ w.row \in Rows /\ w.status \in Sent
    /\ w.status = "ready" => byId[w.row] # 0 /\ Open(rec[byId[w.row]])
WritesMove == \A w \in writes' : w \in writes \/ NewUpdate(w)

LEMMA WriteSent ==
  ASSUME NEW p \in Rows, NEW st \in Sent,
         st = "ready" => byId[p] # 0 /\ Open(rec[byId[p]]),
         writes' = writes \cup {[row |-> p, status |-> st]}
  PROVE  WritesMove
<1>1. NewUpdate([row |-> p, status |-> st])
  BY DEF NewUpdate
<1>2. QED
  BY <1>1 DEF WritesMove

LEMMA LiveRecord ==
  ASSUME RecordsOK, NEW k \in 1..Len(rec), IsLive(k)
  PROVE  byId[rec[k].row] # 0 /\ rec[byId[rec[k].row]] = rec[k]
<1>1. Len(rec) \in Nat /\ k # 0
  BY DEF RecordsOK, RecordsTyped
<1>2. QED
  BY <1>1 DEF IsLive

LEMMA WritesKept ==
  ASSUME Fits, StartsAreUnderWay, Serves
  PROVE  WritesMove
<1>0. RowsOK /\ RecordsOK /\ CallsOK /\ RetirementsOK
  BY DEF Fits
<1>1. ASSUME writes' \subseteq writes PROVE WritesMove
  BY <1>1 DEF WritesMove
<1>2. ASSUME NEW k \in 1..Len(rec), BeginAttach(k) \/ BeginRelay(k) PROVE WritesMove
  <2>1. \/ writes' = writes
        \/ /\ IsLive(k) /\ Open(rec[k])
           /\ \E st \in {"ready", "failed"} : writes' = writes \cup {[row |-> rec[k].row, status |-> st]}
    <3>1. CASE BeginAttach(k)
      BY <3>1, BeginAttachTables DEF BeginAttach, Open
    <3>2. CASE BeginRelay(k)
      BY <3>2, BeginRelayTables DEF Open
    <3>3. QED
      BY <1>2, <3>1, <3>2
  <2>2. rec[k].row \in Rows
    BY <1>0, RecordOf
  <2>3. QED
    BY <1>0, <1>1, <2>1, <2>2, LiveRecord, WriteSent DEF Sent
<1>3. ASSUME NEW c \in Requests, RefreshFails(c) PROVE WritesMove
  <2>1. /\ call[c].rec \in 1..Len(rec)
        /\ writes' = writes \cup {[row |-> rec[call[c].rec].row, status |-> "failed"]}
    BY <1>3, RefreshFailsTables
  <2>2. rec[call[c].rec].row \in Rows
    BY <1>0, <2>1, RecordOf
  <2>3. QED
    BY <1>1, <2>1, <2>2, WriteSent DEF Sent
<1>4. CASE CallStep
  BY <1>1, <1>3, <1>4 DEF CallStep, StartLook, StartDecide, StartAdopt, StartReplace, StartCreate,
                          Ask, LoadRead, LoadRegister, Refresh
<1>5. CASE \/ \E w \in writes : WriteCommits(w)
           \/ \E p \in Rows : SweepRecord(p) \/ SweepList(p) \/ SweepRetire(p)
           \/ Recovered
  BY <1>1, <1>5 DEF WriteCommits, SweepRecord, SweepList, SweepRetire, Recovered
<1>6. ASSUME NEW s \in Sessions, NEW i \in 1..Len(retiring[s]),
             Retires(s, i)
      PROVE  WritesMove
  <2>1. \/ writes' = writes
        \/ Done(s) /\ Len(retiring[s]) # 0 /\ UNCHANGED <<row, byId>>
    BY <1>6, RetireSteps
  <2>2. CASE Done(s) /\ Len(retiring[s]) # 0 /\ UNCHANGED <<row, byId>>
    <3>1. /\ RowAt(s, 1) \in Rows
          /\ writes' \in {writes, writes \cup {[row |-> RowAt(s, 1), status |-> "stopped"]}}
      BY <2>2, OverEffect
    <3>2. QED
      BY <1>1, <3>1, WriteSent DEF Sent
  <2>3. QED
    BY <1>1, <2>1, <2>2
<1>7. CASE HostStep \/ UNCHANGED previewVars
  BY <1>1, <1>7, HostLeavesApi DEF apiVars, previewVars
<1>8. CASE Retirements
  BY <1>0, <1>6, <1>8, OperationDomain DEF Retirements
<1>9. CASE \E k \in DOMAIN rec : BeginAttach(k) \/ BeginRelay(k)
  BY <1>0, <1>2, <1>9, RecordDomain
<1>10. QED
  BY <1>4, <1>5, <1>7, <1>8, <1>9 DEF Serves

\* What was expired before, or a row the sweep listed.
LEMMA ExpiredKept ==
  ASSUME Fits, Serves PROVE expired' \subseteq Rows
<1>0. expired \subseteq Rows
  BY DEF Fits, UpdatesOK
<1>1. ASSUME NEW p \in Rows, SweepRecord(p) \/ SweepList(p) \/ SweepRetire(p)
      PROVE  expired' \subseteq Rows
  BY <1>0, <1>1 DEF SweepRecord, SweepList, SweepRetire
<1>2. CASE CallStep
  BY <1>0, <1>2 DEF CallStep, StartLook, StartDecide, StartAdopt, StartReplace, StartCreate, Ask,
                    LoadRead, LoadRegister, Refresh, RefreshFails
<1>3. CASE \/ \E k \in DOMAIN rec : BeginAttach(k) \/ BeginRelay(k)
           \/ \E w \in writes : WriteCommits(w)
           \/ Recovered
  BY <1>0, <1>3 DEF BeginAttach, BeginRelay, WriteCommits, Recovered
<1>4. CASE Retirements
  BY <1>0, <1>4 DEF Retirements, Retires, RetireUpdate, RetireCheckSession, RetireCheckSiblings,
                    RetireCheckRun, RetireDestroy, RetireRejected, Rejected, RetirementRest
<1>5. CASE HostStep \/ UNCHANGED previewVars
  BY <1>0, <1>5, HostLeavesApi DEF apiVars, previewVars
<1>6. QED
  BY <1>1, <1>2, <1>3, <1>4, <1>5 DEF Serves

LEMMA UpdatesKept ==
  ASSUME Fits, TablesFit, WritesMove, expired' \subseteq Rows
  PROVE  UpdatesOK'
<1>1. Len(row) \in Nat /\ Len(row') \in Nat /\ Len(row) <= Len(row')
  BY DEF Fits, RowsOK, RowsTyped, TablesFit, Grows
<1>2. \A p \in Rows : p \in Nat /\ p \in 1..Len(row')
  BY <1>1 DEF Rows
<1>3. ASSUME NEW w \in writes'
      PROVE  w \in [row: Nat, status: PreviewStatus] /\ WriteFits(row', w)
  <2>1. /\ w = [row |-> w.row, status |-> w.status]
        /\ w.row \in Rows /\ w.status \in Sent /\ w.status \in PreviewStatus
    BY <1>3, WriteOf DEF WritesMove, NewUpdate, Fits, Sent, PreviewStatus
  <2>2. QED
    BY <1>2, <2>1 DEF WriteFits
<1>4. expired' \subseteq 1..Len(row')
  BY <1>2
<1>5. QED
  BY <1>3, <1>4 DEF UpdatesOK, Rows

LEMMA OperationsStay ==
  ASSUME Fits, retiring' = retiring PROVE OperationsMove
BY DEF Fits, RetirementsOK, OperationsMove, Continues

LEMMA OperationsFollow ==
  ASSUME retiring' \in [Sessions -> Seq(Retirement)],
         \A t \in Sessions : \A j \in 1..Len(retiring'[t]) :
            \/ \E n \in 1..Len(retiring[t]) : retiring'[t][j] = retiring[t][n]
            \/ Continues(t, retiring'[t][j])
  PROVE  OperationsMove
BY DEF OperationsMove, Continues

LEMMA QueuedStep ==
  ASSUME Fits, NEW s \in Sessions, NEW k \in Nat, k \in 1..Len(rec'),
         NEW why \in {"stop", "sweep", "expired", "recovery"},
         SessionOf[row'[rec'[k].row].run] = s,
         retiring' = [retiring EXCEPT ![s] = Append(@, Operation(k, why))]
  PROVE  OperationsMove
<1> DEFINE op == Operation(k, why)
<1>1. op \in Retirement /\ op.rec = k /\ op.pc = "queued"
  BY NewOperation
<1> HIDE DEF op
<1>2. /\ retiring' \in [Sessions -> Seq(Retirement)]
      /\ \A t \in Sessions : t # s => retiring'[t] = retiring[t]
      /\ Len(retiring'[s]) = Len(retiring[s]) + 1
      /\ retiring'[s][Len(retiring[s]) + 1] = op
      /\ \A j \in 1..Len(retiring[s]) : retiring'[s][j] = retiring[s][j]
  BY <1>1, OperationQueued DEF op
<1>3. ASSUME NEW t \in Sessions, NEW j \in 1..Len(retiring'[t])
      PROVE  \/ retiring'[t][j] = op /\ t = s
             \/ \E i \in 1..Len(retiring[t]) : retiring'[t][j] = retiring[t][i]
  <2>1. CASE t # s
    BY <1>2, <2>1
  <2>2. CASE t = s
    <3>1. Len(retiring[s]) \in Nat
      BY DEF Fits, RetirementsOK
    <3>2. j = Len(retiring[s]) + 1 \/ j \in 1..Len(retiring[s])
      BY <1>2, <2>2, <3>1
    <3>3. QED
      BY <1>2, <2>2, <3>2
  <2>3. QED
    BY <2>1, <2>2
<1>4. Continues(s, op)
  BY <1>1 DEF Continues
<1>5. QED
  BY <1>2, <1>3, <1>4, OperationsFollow

LEMMA TornDownStep ==
  ASSUME Fits, StartsAreUnderWay, NEW p \in Rows, byId[p] # 0,
         NEW why \in {"stop", "sweep", "expired", "recovery"}, TornDown(byId[p], why),
         UNCHANGED <<row, rec>>
  PROVE  OperationsMove
<1>1. /\ byId[p] \in 1..Len(rec) /\ rec[byId[p]].row = p
      /\ retiring' = [retiring EXCEPT ![SessionOfRow(p)] = Append(@, Operation(byId[p], why))]
  BY TornDownTables
<1>2. SessionOfRow(p) \in Sessions /\ byId[p] \in Nat
  BY <1>1, RowOf, RecordOf DEF Fits
<1>3. QED
  BY <1>1, <1>2, QueuedStep DEF SessionOfRow

\* The operations of a session after its first is over.
LEMMA DoneMove ==
  ASSUME Fits, StartsAreUnderWay, NEW s \in Sessions, Len(retiring[s]) # 0, Done(s),
         UNCHANGED <<row, byId>>
  PROVE  OperationsMove
<1>0. Len(retiring[s]) \in Nat
  BY DEF Fits, RetirementsOK
<1>1. /\ retiring' \in [Sessions -> Seq(Retirement)]
      /\ \A t \in Sessions : t # s => retiring'[t] = retiring[t]
      /\ Len(retiring'[s]) = Len(retiring[s]) - 1
      /\ \A j \in 1..Len(retiring[s]) - 1 : retiring'[s][j] = retiring[s][j + 1]
  BY OverEffect
<1>2. ASSUME NEW t \in Sessions, NEW j \in 1..Len(retiring'[t])
      PROVE  \E n \in 1..Len(retiring[t]) : retiring'[t][j] = retiring[t][n]
  <2>1. CASE t # s
    BY <1>1, <2>1
  <2>2. CASE t = s
    <3>1. j \in 1..Len(retiring[s]) - 1 /\ j + 1 \in 1..Len(retiring[s])
      BY <1>0, <1>1, <2>2
    <3>2. QED
      BY <1>1, <2>2, <3>1
  <2>3. QED
    BY <2>1, <2>2
<1>3. QED
  BY <1>1, <1>2, OperationsFollow

LEMMA RetireStep ==
  ASSUME Fits, StartsAreUnderWay, NEW s \in Sessions, NEW i \in 1..Len(retiring[s]), Retires(s, i)
  PROVE  OperationsMove
<1>0. i = 1 /\ Len(retiring[s]) \in Nat \ {0} /\ byId' = byId
  BY RetireSteps, OperationOf
<1>1. CASE Done(s) /\ UNCHANGED row
  BY <1>0, <1>1, DoneMove
<1>2. ASSUME NEW op \in Retirement, op.rec = retiring[s][1].rec,
             retiring' = [retiring EXCEPT ![s][1] = op]
      PROVE  OperationsMove
  <2>1. /\ retiring' \in [Sessions -> Seq(Retirement)]
        /\ \A t \in Sessions : t # s => retiring'[t] = retiring[t]
        /\ Len(retiring'[s]) = Len(retiring[s])
        /\ retiring'[s][1] = op
        /\ \A j \in 2..Len(retiring[s]) : retiring'[s][j] = retiring[s][j]
    BY <1>0, <1>2, OperationChanged
  <2>2. ASSUME NEW t \in Sessions, NEW j \in 1..Len(retiring'[t])
        PROVE  \/ retiring'[t][j] = op /\ t = s
               \/ \E n \in 1..Len(retiring[t]) : retiring'[t][j] = retiring[t][n]
    <3>1. CASE t # s
      BY <2>1, <3>1
    <3>2. CASE t = s
      <4>1. j = 1 \/ j \in 2..Len(retiring[s])
        BY <1>0, <2>1, <3>2
      <4>2. j \in 1..Len(retiring[s])
        BY <2>1, <3>2
      <4>3. QED
        BY <2>1, <3>2, <4>1, <4>2
    <3>3. QED
      BY <3>1, <3>2
  <2>3. Continues(s, op)
    BY <1>0, <1>2 DEF Continues
  <2>4. QED
    BY <2>1, <2>2, <2>3, OperationsFollow
<1>3. QED
  BY <1>1, <1>2, RetireSteps

LEMMA OperationsKept ==
  ASSUME Fits, StartsAreUnderWay, Serves
  PROVE  OperationsMove
<1>0. RowsOK /\ RecordsOK /\ CallsOK /\ RetirementsOK
  BY DEF Fits
<1>1. ASSUME NEW c \in Requests, NEW p \in Rows, NEW op, Ask(c, p, op) PROVE OperationsMove
  BY <1>1, OperationsStay, TornDownStep DEF Ask
<1>2. ASSUME NEW c \in Requests, LoadRegister(c) PROVE OperationsMove
  <2>1. Len(rec') = Len(rec) + 1 /\ rec'[Len(rec) + 1].row = call[c].row /\ row' = row
    BY <1>2, LoadRegisterTables DEF LoadRegister
  <2>2. Len(rec) + 1 \in Nat /\ Len(rec) + 1 \in 1..Len(rec')
    BY <1>0, <2>1 DEF RecordsOK, RecordsTyped
  <2>3. call[c].row \in Rows /\ SessionOfRow(call[c].row) \in Sessions
    BY <1>0, <1>2, CallOf, RowOf DEF LoadRegister, Up
  <2>4. SessionOf[row'[rec'[Len(rec) + 1].row].run] = SessionOfRow(call[c].row)
    BY <2>1 DEF SessionOfRow
  <2>5. \/ retiring' = retiring
        \/ retiring' = [retiring EXCEPT ![SessionOfRow(call[c].row)] =
                           Append(@, Operation(Len(rec) + 1, "stop"))]
    BY <1>2 DEF LoadRegister
  <2>6. QED
    BY <2>2, <2>3, <2>4, <2>5, OperationsStay, QueuedStep
<1>3. ASSUME NEW p \in Rows, SweepRetire(p) PROVE OperationsMove
  <2>1. row' = row /\ SessionOfRow(p) \in Sessions
    BY <1>0, <1>3, RowOf DEF SweepRetire
  <2>2. CASE retiring' = retiring
    BY <2>2, OperationsStay
  <2>3. CASE /\ Len(rec') = Len(rec) + 1 /\ rec'[Len(rec) + 1].row = p
             /\ retiring' = [retiring EXCEPT ![SessionOfRow(p)] =
                                Append(@, Operation(Len(rec) + 1, "expired"))]
    <3>1. Len(rec) + 1 \in Nat /\ Len(rec) + 1 \in 1..Len(rec')
      BY <1>0, <2>3 DEF RecordsOK, RecordsTyped
    <3>2. SessionOf[row'[rec'[Len(rec) + 1].row].run] = SessionOfRow(p)
      BY <2>1, <2>3 DEF SessionOfRow
    <3>3. QED
      BY <2>1, <2>3, <3>1, <3>2, QueuedStep
  <2>4. QED
    BY <1>3, <2>2, <2>3, SweepRetireTables
<1>4. ASSUME NEW p \in Rows, SweepRecord(p) PROVE OperationsMove
  BY <1>4, TornDownStep DEF SweepRecord
<1>5. CASE CallStep
  BY <1>1, <1>2, <1>5, OperationsStay
  DEF CallStep, StartLook, StartDecide, StartAdopt, StartReplace, StartCreate, LoadRead, Refresh,
      RefreshFails
<1>6. CASE \/ \E k \in DOMAIN rec : BeginAttach(k) \/ BeginRelay(k)
           \/ \E w \in writes : WriteCommits(w)
           \/ \E p \in Rows : SweepList(p)
           \/ Recovered
  BY <1>6, OperationsStay DEF BeginAttach, BeginRelay, WriteCommits, SweepList, Recovered
<1>7. CASE Retirements
  BY <1>0, <1>7, OperationDomain, RetireStep DEF Retirements
<1>8. CASE HostStep \/ UNCHANGED previewVars
  BY <1>8, HostLeavesApi, OperationsStay DEF apiVars, previewVars
<1>9. QED
  BY <1>3, <1>4, <1>5, <1>6, <1>7, <1>8 DEF Serves

-----------------------------------------------------------------------------
(* Host, service and starts *)

\* A container started or removed, an attempt moved on.
HostMoves ==
    /\ \/ container' = container
       \/ \E s \in Sessions, there \in BOOLEAN : container' = [container EXCEPT ![s] = there]
    /\ attempt' = attempt
       \/ \E id \in 1..MaxLeases, to \in Attempt : attempt' = [attempt EXCEPT ![id] = to]
    /\ left' = left \/ \E s \in Sessions, why \in Reason : left' = [left EXCEPT ![s] = why]

LEMMA HostMoved == ASSUME HostOK, HostMoves PROVE HostOK'
<1>1. container' \in [Sessions -> BOOLEAN]
  BY DEF HostOK, HostMoves
<1>2. attempt' \in [1..MaxLeases -> Attempt]
  BY DEF HostOK, HostMoves
<1>3. left' \in [Sessions -> Reason]
  BY DEF HostOK, HostMoves
<1>4. QED
  BY <1>1, <1>2, <1>3 DEF HostOK

LEMMA HostKept == ASSUME IInv, Fits, Serves PROVE HostOK'
<1>0. HostOK /\ RetirementsOK /\ RecordsOK
  BY DEF Fits
<1>1. ASSUME UNCHANGED <<hostVars, left>> PROVE HostOK'
  BY <1>0, <1>1 DEF HostOK, hostVars
<1>2. ASSUME NEW s \in Sessions, NEW i \in 1..Len(retiring[s]), Retires(s, i)
      PROVE  HostOK'
  <2>1. attempt' = attempt /\ (container' = container \/ container' = [container EXCEPT ![s] = FALSE])
    BY <1>2 DEF Retires, RetireUpdate, RetireCheckSession, RetireCheckSiblings, RetireCheckRun,
                RetireRejected, Rejected, RetireDestroy, RetirementRest, hostVars
  <2>2. left' = left \/ \E why \in Reason : left' = [left EXCEPT ![s] = why]
    BY <1>2 DEF Retires, RetireUpdate, RetireCheckSession, RetireCheckSiblings, RetireCheckRun,
                RetireRejected, Rejected, RetireDestroy, LeftToRun, Because, Reason
  <2>3. HostMoves
    BY <2>1, <2>2 DEF HostMoves
  <2>4. QED
    BY <1>0, <2>3, HostMoved
<1>3. CASE CallStep
  BY <1>1, <1>3 DEF CallStep, StartLook, StartDecide, StartAdopt, StartReplace, StartCreate, Ask,
                    LoadRead, LoadRegister, Refresh, RefreshFails, historyVars
<1>4. CASE \/ \E k \in DOMAIN rec : BeginAttach(k) \/ BeginRelay(k)
           \/ \E w \in writes : WriteCommits(w)
           \/ \E p \in Rows : SweepRecord(p) \/ SweepList(p) \/ SweepRetire(p)
           \/ Recovered
  BY <1>1, <1>4 DEF BeginAttach, BeginRelay, WriteCommits, SweepRecord, SweepList, SweepRetire,
                    Recovered, historyVars
<1>5. CASE Retirements
  BY <1>0, <1>2, <1>5, OperationDomain DEF Retirements
<1>6. CASE HostStep
  <2>0. left' = left
    BY <1>6, HostLeavesApi
  <2>1. ASSUME NEW id \in 1..MaxLeases, WorkerStart(id) \/ TeardownAct(id) \/ ParkDrop(id)
        PROVE HostOK'
    <3>1. /\ \E to \in Attempt : attempt' = [attempt EXCEPT ![id] = to]
          /\ \/ container' = container
             \/ \E there \in BOOLEAN : container' = [container EXCEPT ![SessionOfLease(id)] = there]
      BY <2>1 DEF WorkerStart, TeardownAct, ParkDrop, Attempt
    <3>2. CASE SessionOfLease(id) \in Sessions
      <4>1. HostMoves
        BY <2>0, <3>1, <3>2 DEF HostMoves
      <4>2. QED
        BY <1>0, <4>1, HostMoved
    <3>3. CASE SessionOfLease(id) \notin Sessions
      <4>1. container' = container
        BY <1>0, <3>1, <3>3 DEF HostOK
      <4>2. HostMoves
        BY <2>0, <3>1, <4>1 DEF HostMoves
      <4>3. QED
        BY <1>0, <4>2, HostMoved
    <3>4. QED
      BY <3>2, <3>3
  <2>2. ASSUME NEW id \in 1..MaxLeases,
               TeardownRead(id) \/ WorkerDies(id) \/ Park(id) \/ ParkRelease(id)
        PROVE HostOK'
    <3>1. container' = container /\ \E to \in Attempt : attempt' = [attempt EXCEPT ![id] = to]
      BY <2>2 DEF TeardownRead, WorkerDies, Park, ParkRelease, Attempt
    <3>2. HostMoves
      BY <2>0, <3>1 DEF HostMoves
    <3>3. QED
      BY <1>0, <3>2, HostMoved
  <2>3. CASE UNCHANGED hostVars
    BY <1>1, <2>0, <2>3
  <2>4. QED
    BY <1>6, <2>1, <2>2, <2>3 DEF HostStep, Admit, Claim, End, Suspend, Resume, Answered
<1>7. CASE UNCHANGED previewVars
  BY <1>1, <1>7 DEF previewVars, historyVars
<1>8. QED
  BY <1>3, <1>4, <1>5, <1>6, <1>7 DEF Serves

LEMMA ServiceKept == ASSUME Fits, Serves PROVE ServiceFits' /\ crashes' = crashes
<1>0. ServiceFits /\ RetirementsOK
  BY DEF Fits
<1>1. CASE UNCHANGED <<call, expired, service, crashes>>
  BY <1>0, <1>1 DEF ServiceFits
<1>2. CASE service' = "up" /\ crashes' = crashes
  BY <1>0, <1>2 DEF ServiceFits
<1>3. CASE CallStep
  BY <1>2, <1>3 DEF CallStep, StartLook, StartDecide, StartAdopt, StartReplace, StartCreate, Ask,
                    LoadRead, LoadRegister, Refresh, RefreshFails, Up, historyVars
<1>4. ASSUME NEW p \in Rows, SweepRecord(p) \/ SweepList(p) \/ SweepRetire(p)
      PROVE  ServiceFits' /\ crashes' = crashes
  <2>1. CASE SweepRecord(p) \/ SweepList(p)
    BY <1>2, <2>1 DEF SweepRecord, SweepList
  <2>2. CASE SweepRetire(p)
    <3>1. expired # {} /\ service' = service /\ crashes' = crashes
      BY <2>2 DEF SweepRetire, historyVars
    <3>2. QED
      BY <1>0, <1>2, <3>1 DEF ServiceFits
  <2>3. QED
    BY <1>4, <2>1, <2>2
<1>5. CASE \/ \E k \in DOMAIN rec : BeginAttach(k) \/ BeginRelay(k)
           \/ \E w \in writes : WriteCommits(w)
  BY <1>1, <1>5 DEF BeginAttach, BeginRelay, WriteCommits, historyVars
<1>6. CASE Recovered
  BY <1>2, <1>6 DEF Recovered, historyVars
<1>7. CASE Retirements
  BY <1>1, <1>7 DEF Retirements, Retires, RetireUpdate, RetireCheckSession, RetireCheckSiblings,
                    RetireCheckRun, RetireDestroy, RetireRejected, Rejected, RetirementRest
<1>8. CASE HostStep \/ UNCHANGED previewVars
  BY <1>1, <1>8, HostLeavesApi DEF apiVars, previewVars, historyVars
<1>9. QED
  BY <1>3, <1>4, <1>5, <1>6, <1>7, <1>8 DEF Serves

LEMMA StartsKept ==
  ASSUME Fits, StartsAreUnderWay, TablesStep PROVE StartsAreUnderWay'
<1> SUFFICES ASSUME NEW p \in 1..MaxPreviews, byId'[p] # 0, rec'[byId'[p]].status = "starting"
             PROVE  rec'[byId'[p]].begin # "over"
  BY DEF StartsAreUnderWay
<1>1. CASE byId'[p] \in {byId[p], 0}
  BY <1>1 DEF TablesStep, RecordsMove, RecordMoves
<1>2. CASE Registered(p)
  BY <1>2 DEF Registered
<1>3. QED
  BY <1>1, <1>2 DEF TablesStep, RegistryMoves

-----------------------------------------------------------------------------
(* Whoever may show a stopped preview was at work with it when it was stopped *)

LEMMA ExposedUnderWay == ASSUME Fits, NEW p \in Rows, Exposed(p) PROVE UnderWay(p)
<1>1. CASE \E w \in writes : w.row = p /\ w.status = "ready"
  BY <1>1 DEF UnderWay
<1>2. CASE byId[p] # 0 /\ (\/ rec[byId[p]].begin \in {"attach", "relay"}
                           \/ rec[byId[p]].begin = "none" /\ rec[byId[p]].status = "starting")
  <2>1. byId[p] \in DOMAIN rec /\ rec[byId[p]].begin # "over"
    BY <1>2, RowOf DEF Fits, RecordsOK, RecordsTyped, RegistryTyped
  <2>2. QED
    BY <2>1 DEF UnderWay
<1>3. CASE \E c \in Requests :
             /\ call[c].row = p
             /\ \/ call[c].pc \in {"looked", "adopt"}
                \/ call[c].pc = "register" /\ call[c].status \in Live
  BY <1>3 DEF UnderWay
<1>4. QED
  BY <1>1, <1>2, <1>3 DEF Exposed

LEMMA ExposedBefore ==
  ASSUME Fits, TablesStep, WritesMove, NEW p \in Rows, Exposed(p)'
  PROVE  Exposed(p) \/ \E c \in Requests : Shows(call'[c], p)
<1>0. p \in 1..MaxPreviews
  BY RowOf DEF Fits
<1>1. ASSUME NEW w \in writes', w.row = p, w.status = "ready" PROVE Exposed(p)
  <2>1. CASE w \in writes
    BY <1>1, <2>1 DEF Exposed
  <2>2. CASE NewUpdate(w)
    BY <1>1, <2>2 DEF NewUpdate, Exposed, Open
  <2>3. QED
    BY <2>1, <2>2 DEF WritesMove
<1>2. ASSUME byId'[p] # 0, Open(rec'[byId'[p]]) PROVE Exposed(p)
  <2>1. CASE byId'[p] = byId[p]
    <3>1. RecordMoves(rec[byId[p]], rec'[byId[p]])
      BY <1>0, <1>2, <2>1 DEF TablesStep, RecordsMove
    <3>2. Open(rec[byId[p]])
      BY <1>2, <2>1, <3>1 DEF RecordMoves
    <3>3. QED
      BY <1>2, <2>1, <3>2 DEF Exposed, Open
  <2>2. CASE Registered(p)
    BY <1>2, <2>2 DEF Registered
  <2>3. QED
    BY <1>0, <1>2, <2>1, <2>2 DEF TablesStep, RegistryMoves
<1>3. QED
  BY <1>1, <1>2 DEF Exposed, Open, Shows

\* What a step does to the rows: at most one is written or added.
RowsMove ==
    /\ overlapped \subseteq overlapped'
    /\ \A p \in 1..Len(row') :
          \/ p \in Rows /\ row'[p] = row[p]
          \/ p \notin Rows /\ row'[p].status = "starting" /\ byId'[p] # 0
          \/ /\ p \in Rows
             /\ \E st \in PreviewStatus : SetRow(p, st) /\ (st \in Live => Shown(p))
             /\ \A c \in Requests : Shows(call'[c], p) => Exposed(p)

LEMMA RowWritten ==
  ASSUME Fits, NEW p \in Rows, NEW st \in PreviewStatus, SetRow(p, st), st \in Live => Shown(p),
         \A c \in Requests : Shows(call'[c], p) => Exposed(p)
  PROVE  RowsMove
<1>1. Len(row') = Len(row) /\ overlapped \subseteq overlapped' /\ \A q \in Rows : q # p => row'[q] = row[q]
  BY SetRowEffect DEF Fits
<1>2. QED
  BY <1>1 DEF RowsMove, Rows

LEMMA RowsKept ==
  ASSUME Fits, StartsAreUnderWay, Serves, TablesFit PROVE RowsMove
<1>0. RowsOK /\ CallsOK /\ UpdatesOK /\ RetirementsOK
  BY DEF Fits
<1>1. ASSUME UNCHANGED <<row, overlapped>> PROVE RowsMove
  BY <1>1 DEF RowsMove, Rows
<1>2. ASSUME NEW w \in writes, WriteCommits(w) PROVE RowsMove
  <2>1. /\ w.row \in Rows /\ w.status \in Sent /\ w.status \in PreviewStatus
        /\ SetRow(w.row, w.status) /\ call' = call
    BY <1>0, <1>2, WriteOf DEF WriteCommits
  <2>2. w.status \in Live => Shown(w.row)
    BY <2>1 DEF Sent, Live, Shown
  <2>3. QED
    BY <2>1, <2>2, RowWritten, ShowsExposes
<1>3. ASSUME NEW c \in Requests, StartReplace(c) PROVE RowsMove
  <2>1. /\ call[c].row \in Rows /\ call'[c].pc = "create"
        /\ \A d \in Requests : d # c => call'[d] = call[d]
    BY <1>3, StartReplaceCall
  <2>2. ASSUME NEW d \in Requests, NEW p, Shows(call'[d], p) PROVE Exposed(p)
    <3>1. d # c
      BY <2>1, <2>2 DEF Shows
    <3>2. QED
      BY <2>1, <2>2, <3>1, ShowsExposes
  <2>3. QED
    BY <1>3, <2>1, <2>2, RowWritten DEF StartReplace, PreviewStatus, Live
<1>4. ASSUME NEW c \in Requests, StartCreate(c) PROVE RowsMove
  <2>1. /\ Len(row') = Len(row) + 1
        /\ row'[Len(row) + 1].status = "starting"
        /\ \A q \in Rows : row'[q] = row[q]
        /\ byId'[Len(row) + 1] # 0
    <3>1. /\ Len(row') = Len(row) + 1
          /\ row'[Len(row) + 1] = [run |-> call[c].run, status |-> "starting"]
          /\ \A q \in Rows : row'[q] = row[q]
      BY <1>4, StartCreateTables
    <3>2. byId'[Len(row) + 1] # 0
      <4>1. Len(row) + 1 \in 1..MaxPreviews /\ byId' = [byId EXCEPT ![Len(row) + 1] = Len(rec) + 1]
        BY <1>4, StartCreateTables
      <4>2. byId \in [1..MaxPreviews -> 0..Len(rec)] /\ Len(rec) \in Nat
        BY DEF Fits, RecordsOK, RecordsTyped, RegistryTyped
      <4>3. byId'[Len(row) + 1] = Len(rec) + 1
        BY <4>1, <4>2
      <4>4. QED
        BY <4>2, <4>3
    <3>3. QED
      BY <3>1, <3>2
  <2>2. overlapped' = overlapped
    BY <1>4 DEF StartCreate, historyVars
  <2>3. Len(row) \in Nat
    BY <1>0 DEF RowsOK, RowsTyped
  <2>4. \A p \in 1..Len(row') : p \in Rows \/ (p = Len(row) + 1 /\ p \notin Rows)
    BY <2>1, <2>3 DEF Rows
  <2>5. QED
    BY <2>1, <2>2, <2>4 DEF RowsMove
<1>5. ASSUME NEW s \in Sessions, NEW i \in 1..Len(retiring[s]),
             Retires(s, i)
      PROVE  RowsMove
  <2>1. UNCHANGED <<row, overlapped>> \/ SetRow(RowAt(s, 1), "stopped")
    BY <1>5, RetireSteps
  <2>2. i = 1 /\ call' = call
    BY <1>5, RetireSteps
  <2>3. RowAt(s, 1) \in Rows
    BY <2>2, OperationOf
  <2>4. QED
    BY <1>1, <2>1, <2>2, <2>3, RowWritten, ShowsExposes DEF PreviewStatus, Live
<1>6. CASE CallStep
  BY <1>1, <1>3, <1>4, <1>6 DEF CallStep, StartLook, StartDecide, StartAdopt, Ask, LoadRead,
                               LoadRegister, Refresh, RefreshFails, historyVars
<1>7. CASE \/ \E k \in DOMAIN rec : BeginAttach(k) \/ BeginRelay(k)
           \/ \E p \in Rows : SweepRecord(p) \/ SweepList(p) \/ SweepRetire(p)
           \/ Recovered
  BY <1>1, <1>7 DEF BeginAttach, BeginRelay, SweepRecord, SweepList, SweepRetire, Recovered,
                    historyVars
<1>8. CASE Retirements
  BY <1>0, <1>5, <1>8, OperationDomain DEF Retirements
<1>9. CASE HostStep \/ UNCHANGED previewVars
  BY <1>1, <1>9, HostLeavesApi DEF apiVars, previewVars, historyVars
<1>10. QED
  BY <1>2, <1>6, <1>7, <1>8, <1>9 DEF Serves

LEMMA ExposedKept ==
  ASSUME Fits, ExposedIsOverlapped, TablesStep, CallsMove, WritesMove, RowsMove
  PROVE  ExposedIsOverlapped'
<1> SUFFICES ASSUME NEW p \in 1..Len(row'), row'[p].status = "stopped", Exposed(p)'
             PROVE  p \in overlapped'
  BY DEF ExposedIsOverlapped, Rows
<1>1. CASE p \in Rows /\ row'[p] = row[p]
  <2>1. Exposed(p)
    BY <1>1, ExposedBefore DEF CallsMove
  <2>2. QED
    BY <1>1, <2>1 DEF ExposedIsOverlapped, RowsMove
<1>2. ASSUME p \in Rows, NEW st \in PreviewStatus, SetRow(p, st), st \in Live => Shown(p),
             \A c \in Requests : Shows(call'[c], p) => Exposed(p)
      PROVE  p \in overlapped'
  <2>1. Exposed(p)
    BY <1>2, ExposedBefore
  <2>2. UnderWay(p) /\ st = "stopped"
    BY <1>2, <2>1, ExposedUnderWay, SetRowEffect DEF Fits
  <2>3. QED
    BY <1>2, <2>2, SetRowEffect DEF Fits
<1>3. QED
  BY <1>1, <1>2 DEF RowsMove

-----------------------------------------------------------------------------
(* What a step carries on: calls, operations and the registry *)

LEMMA OtherCalls ==
  ASSUME CallsOK, NEW c \in Requests, NEW d \in Requests, d # c, NEW it, Becomes(d, it)
  PROVE  call'[c] = call[c]
BY DEF CallsOK, Becomes

\* A call that replaces or creates a preview is left alone, or takes its step.
CallsCarry ==
    \A c \in Requests :
        /\ call[c].pc = "replace" => call'[c] = call[c] \/ StartReplace(c)
        /\ call[c].pc = "create" => call'[c] = call[c] \/ StartCreate(c)

LEMMA CallsCarried == ASSUME Fits, Serves PROVE CallsCarry
<1>0. CallsOK /\ RetirementsOK
  BY DEF Fits
<1>1. ASSUME call' = call PROVE CallsCarry
  BY <1>1 DEF CallsCarry
<1>2. ASSUME NEW d \in Requests, NEW it, Becomes(d, it),
             \/ call[d].pc \notin {"replace", "create"}
             \/ call[d].pc = "replace" /\ StartReplace(d)
             \/ call[d].pc = "create" /\ StartCreate(d)
      PROVE  CallsCarry
  <2>1. \A c \in Requests : c # d => call'[c] = call[c]
    BY <1>0, <1>2, OtherCalls
  <2>2. QED
    BY <1>2, <2>1 DEF CallsCarry
<1>3. ASSUME NEW c \in Requests, NEW r \in Runs, StartLook(c, r) PROVE CallsCarry
  BY <1>2, <1>3 DEF StartLook, Up
<1>4. ASSUME NEW c \in Requests, StartDecide(c) PROVE CallsCarry
  BY <1>2, <1>4 DEF StartDecide, Up
<1>5. ASSUME NEW c \in Requests, StartAdopt(c) PROVE CallsCarry
  BY <1>2, <1>5 DEF StartAdopt, Up
<1>6. ASSUME NEW c \in Requests, StartReplace(c) PROVE CallsCarry
  <2>1. call[c].pc = "replace" /\ Becomes(c, [call[c] EXCEPT !.pc = "create"])
    BY <1>6 DEF StartReplace, Up
  <2>2. QED
    BY <1>2, <1>6, <2>1
<1>7. ASSUME NEW c \in Requests, StartCreate(c) PROVE CallsCarry
  <2>1. call[c].pc = "create" /\ Becomes(c, Idle)
    BY <1>7 DEF StartCreate, Up
  <2>2. QED
    BY <1>2, <1>7, <2>1
<1>8. ASSUME NEW c \in Requests, NEW p \in Rows, NEW op, Ask(c, p, op) PROVE CallsCarry
  <2>1. call[c].pc = "idle" /\ (call' = call \/ \E it : Becomes(c, it))
    BY <1>8 DEF Ask, Up
  <2>2. QED
    BY <1>1, <1>2, <2>1
<1>9. ASSUME NEW c \in Requests, LoadRead(c) PROVE CallsCarry
  BY <1>2, <1>9 DEF LoadRead, Up
<1>10. ASSUME NEW c \in Requests, LoadRegister(c) PROVE CallsCarry
  <2>1. call[c].pc = "register" /\ \E it : Becomes(c, it)
    BY <1>10 DEF LoadRegister, Up
  <2>2. QED
    BY <1>2, <2>1
<1>11. ASSUME NEW c \in Requests, Refresh(c) \/ RefreshFails(c) PROVE CallsCarry
  <2>1. call[c].pc \notin {"replace", "create"} /\ \E it : Becomes(c, it)
    BY <1>11 DEF Refresh, RefreshFails, Up
  <2>2. QED
    BY <1>2, <2>1
<1>12. CASE CallStep
  BY <1>3, <1>4, <1>5, <1>6, <1>7, <1>8, <1>9, <1>10, <1>11, <1>12 DEF CallStep
<1>13. CASE \/ \E k \in DOMAIN rec : BeginAttach(k) \/ BeginRelay(k)
            \/ \E w \in writes : WriteCommits(w)
            \/ \E p \in Rows : SweepRecord(p) \/ SweepList(p) \/ SweepRetire(p)
            \/ Recovered
  BY <1>1, <1>13 DEF BeginAttach, BeginRelay, WriteCommits, SweepRecord, SweepList, SweepRetire,
                     Recovered
<1>14. CASE Retirements
  BY <1>1, <1>14 DEF Retirements, Retires, RetireUpdate, RetireCheckSession, RetireCheckSiblings,
                     RetireCheckRun, RetireDestroy, RetireRejected, Rejected, RetirementRest
<1>15. CASE HostStep \/ UNCHANGED previewVars
  BY <1>1, <1>15, HostLeavesApi DEF apiVars, previewVars
<1>16. QED
  BY <1>12, <1>13, <1>14, <1>15 DEF Serves

\* An operation of a session stays queued, or is published with its row stopped; the last
\* operation of a session ends in one of five ways.
Queued(s, i) == i \in 1..Len(retiring[s]) /\ retiring[s][i].pc = "queued"
StaysQueued(s, op) == \E j \in 1..Len(retiring'[s]) : retiring'[s][j] = op
Finishes(s) ==
    /\ Done(s) /\ Len(retiring[s]) # 0 /\ retiring[s][1].pc # "queued"
    /\ UNCHANGED <<row, byId, call, overlapped, vars>>
    /\ \/ RetireCheckSession(s, 1) /\ SessionActive(RowAt(s, 1)) /\ LeftToRun(s)
       \/ RetireCheckSiblings(s, 1) /\ Siblings(s, RowAt(s, 1)) # {}
       \/ RetireCheckRun(s, 1) /\ RunActive(RowAt(s, 1)) /\ LeftToRun(s)
       \/ Because(s, "check")
       \/ RetireDestroy(s, 1)
OperationsCarry ==
    \A s \in Sessions :
        /\ \A i \in 1..Len(retiring[s]) : retiring[s][i].pc = "queued" =>
              \/ StaysQueued(s, retiring[s][i])
              \/ i = 1 /\ SetRow(RowAt(s, 1), "stopped") /\ UNCHANGED writes
        /\ Len(retiring[s]) # 0 => Len(retiring'[s]) # 0 \/ Finishes(s)

LEMMA OperationsStayCarry == ASSUME retiring' = retiring PROVE OperationsCarry
BY DEF OperationsCarry, StaysQueued

LEMMA QueuedCarry ==
  ASSUME Fits, NEW s \in Sessions, NEW op \in Retirement,
         retiring' = [retiring EXCEPT ![s] = Append(@, op)]
  PROVE  OperationsCarry /\ StaysQueued(s, op)
<1>0. \A t \in Sessions : Len(retiring[t]) \in Nat
  BY DEF Fits, RetirementsOK
<1>1. /\ \A t \in Sessions : t # s => retiring'[t] = retiring[t]
      /\ Len(retiring'[s]) = Len(retiring[s]) + 1
      /\ retiring'[s][Len(retiring[s]) + 1] = op
      /\ \A j \in 1..Len(retiring[s]) : retiring'[s][j] = retiring[s][j]
  BY OperationQueued
<1>2. ASSUME NEW t \in Sessions, NEW i \in 1..Len(retiring[t]) PROVE StaysQueued(t, retiring[t][i])
  <2>1. CASE t = s
    <3>1. i \in 1..Len(retiring'[s]) /\ retiring'[s][i] = retiring[s][i]
      BY <1>0, <1>1, <2>1
    <3>2. QED
      BY <2>1, <3>1 DEF StaysQueued
  <2>2. CASE t # s
    BY <1>1, <2>2 DEF StaysQueued
  <2>3. QED
    BY <2>1, <2>2
<1>3. ASSUME NEW t \in Sessions, Len(retiring[t]) # 0 PROVE Len(retiring'[t]) # 0
  BY <1>0, <1>1, <1>3
<1>4. Len(retiring[s]) + 1 \in 1..Len(retiring'[s])
  BY <1>0, <1>1
<1>5. StaysQueued(s, op)
  BY <1>1, <1>4 DEF StaysQueued
<1>6. QED
  BY <1>2, <1>3, <1>5 DEF OperationsCarry

LEMMA RetireCarry ==
  ASSUME Fits, StartsAreUnderWay, NEW s \in Sessions, NEW i \in 1..Len(retiring[s]),
         Retires(s, i)
  PROVE  OperationsCarry
<1>0. /\ i = 1 /\ Len(retiring[s]) \in Nat \ {0} /\ byId' = byId
      /\ UNCHANGED <<call, expired, service, attempt, crashes, vars>>
      /\ \A t \in Sessions : Len(retiring[t]) \in Nat
  BY RetireSteps, OperationOf DEF Fits, RetirementsOK
<1>1. ASSUME Done(s), retiring[s][1].pc # "queued", UNCHANGED <<row, overlapped>>
      PROVE  OperationsCarry
  <2>1. /\ \A t \in Sessions : t # s => retiring'[t] = retiring[t]
        /\ Len(retiring'[s]) = Len(retiring[s]) - 1
        /\ \A j \in 1..Len(retiring[s]) - 1 : retiring'[s][j] = retiring[s][j + 1]
    BY <1>0, <1>1, OverEffect
  <2>2. ASSUME NEW t \in Sessions, NEW n \in 1..Len(retiring[t]), retiring[t][n].pc = "queued"
        PROVE  StaysQueued(t, retiring[t][n])
    <3>1. CASE t # s
      BY <2>1, <3>1 DEF StaysQueued
    <3>2. CASE t = s
      <4>1. n # 1
        BY <1>1, <2>2, <3>2
      <4>2. n - 1 \in 1..Len(retiring[s]) - 1 /\ n - 1 \in 1..Len(retiring'[s]) /\ (n - 1) + 1 = n
        BY <1>0, <2>1, <3>2, <4>1
      <4>3. retiring'[s][n - 1] = retiring[s][n]
        BY <2>1, <4>2
      <4>4. QED
        BY <3>2, <4>2, <4>3 DEF StaysQueued
    <3>3. QED
      BY <3>1, <3>2
  <2>3. Finishes(s)
    <3>0. ~RetireUpdate(s, 1)
      BY <1>1, FirstInTurn DEF RetireUpdate
    <3>2. ASSUME RetireCheckSession(s, 1) PROVE SessionActive(RowAt(s, 1)) /\ LeftToRun(s)
      <4>1. CASE SessionActive(RowAt(s, 1))
        BY <3>2, <4>1 DEF RetireCheckSession
      <4>2. CASE ~SessionActive(RowAt(s, 1))
        <5>1. Len(retiring'[s]) = Len(retiring[s])
          BY <1>0, <3>2, <4>2 DEF RetireCheckSession, Fits, RetirementsOK
        <5>2. QED
          BY <1>0, <2>1, <5>1
      <4>3. QED
        BY <4>1, <4>2
    <3>3. ASSUME RetireCheckSiblings(s, 1) PROVE Siblings(s, RowAt(s, 1)) # {}
      <4>1. CASE Siblings(s, RowAt(s, 1)) = {}
        <5>1. Len(retiring'[s]) = Len(retiring[s])
          BY <1>0, <3>3, <4>1 DEF RetireCheckSiblings, Fits, RetirementsOK
        <5>2. QED
          BY <1>0, <2>1, <5>1
      <4>2. QED
        BY <4>1
    <3>4. ASSUME RetireCheckRun(s, 1)
          PROVE  (RunActive(RowAt(s, 1)) /\ LeftToRun(s)) \/ Because(s, "check")
      <4>1. CASE retiring' = [retiring EXCEPT ![s][1].pc = "free"]
        <5>1. Len(retiring'[s]) = Len(retiring[s])
          BY <1>0, <4>1 DEF Fits, RetirementsOK
        <5>2. QED
          BY <1>0, <2>1, <5>1
      <4>2. QED
        BY <3>4, <4>1 DEF RetireCheckRun
    <3>5. \/ RetireCheckSession(s, 1) \/ RetireCheckSiblings(s, 1) \/ RetireCheckRun(s, 1)
          \/ Because(s, "check") \/ RetireDestroy(s, 1)
      BY <1>0, <3>0 DEF Retires, RetireRejected, Rejected
    <3>6. QED
      BY <1>0, <1>1, <3>2, <3>3, <3>4, <3>5 DEF Finishes
  <2>4. QED
    BY <2>1, <2>2, <2>3 DEF OperationsCarry
<1>2. ASSUME NEW op \in Retirement, op.rec = retiring[s][1].rec,
             retiring' = [retiring EXCEPT ![s][1] = op],
             \/ UNCHANGED writes /\ SetRow(RowAt(s, 1), "stopped")
             \/ retiring[s][1].pc # "queued"
      PROVE  OperationsCarry
  <2>1. /\ \A t \in Sessions : t # s => retiring'[t] = retiring[t]
        /\ Len(retiring'[s]) = Len(retiring[s])
        /\ \A j \in 2..Len(retiring[s]) : retiring'[s][j] = retiring[s][j]
    BY <1>0, <1>2, OperationChanged
  <2>2. ASSUME NEW t \in Sessions, NEW n \in 1..Len(retiring[t]), t # s \/ n # 1
        PROVE  StaysQueued(t, retiring[t][n])
    <3>1. CASE t # s
      BY <2>1, <3>1 DEF StaysQueued
    <3>2. CASE t = s
      <4>1. n \in 2..Len(retiring[s]) /\ n \in 1..Len(retiring'[s])
        BY <1>0, <2>1, <2>2, <3>2
      <4>2. QED
        BY <2>1, <3>2, <4>1 DEF StaysQueued
    <3>3. QED
      BY <3>1, <3>2
  <2>3. QED
    BY <1>0, <1>2, <2>1, <2>2 DEF OperationsCarry
<1>3. QED
  BY <1>0, <1>1, <1>2, RetireSteps

LEMMA TornDownCarry ==
  ASSUME Fits, StartsAreUnderWay, NEW p \in Rows, byId[p] # 0,
         NEW why \in {"stop", "sweep", "expired", "recovery"}, TornDown(byId[p], why),
         UNCHANGED <<row, rec>>
  PROVE  /\ OperationsCarry /\ byId' = [byId EXCEPT ![p] = 0]
         /\ StaysQueued(SessionOfRow(p), Operation(byId[p], why)) /\ rec[byId[p]].row = p
         /\ byId[p] \in Nat
<1>1. /\ byId[p] \in 1..Len(rec) /\ rec[byId[p]].row = p /\ byId' = [byId EXCEPT ![p] = 0]
      /\ retiring' = [retiring EXCEPT ![SessionOfRow(p)] = Append(@, Operation(byId[p], why))]
  BY TornDownTables
<1>2. byId[p] \in Nat /\ SessionOfRow(p) \in Sessions
  BY <1>1, RecordOf, RowOf DEF Fits
<1>3. Operation(byId[p], why) \in Retirement
  BY <1>2, NewOperation
<1>4. QED
  BY <1>1, <1>2, <1>3, QueuedCarry

LEMMA OperationsCarried == ASSUME Fits, StartsAreUnderWay, Serves PROVE OperationsCarry
<1>0. RowsOK /\ RecordsOK /\ CallsOK /\ RetirementsOK /\ Len(rec) + 1 \in Nat
  BY DEF Fits, RecordsOK, RecordsTyped
<1>1. ASSUME NEW c \in Requests, NEW p \in Rows, NEW op, Ask(c, p, op) PROVE OperationsCarry
  <2>1. retiring' = retiring \/ (byId[p] # 0 /\ TornDown(byId[p], "stop") /\ UNCHANGED <<row, rec>>)
    BY <1>1 DEF Ask
  <2>2. QED
    BY <2>1, OperationsStayCarry, TornDownCarry
<1>2. ASSUME NEW c \in Requests, LoadRegister(c) PROVE OperationsCarry
  <2>1. \/ retiring' = retiring
        \/ retiring' = [retiring EXCEPT ![SessionOfRow(call[c].row)] =
                           Append(@, Operation(Len(rec) + 1, "stop"))]
    BY <1>2 DEF LoadRegister
  <2>2. SessionOfRow(call[c].row) \in Sessions
    BY <1>0, <1>2, CallOf, RowOf DEF LoadRegister, Up
  <2>3. Operation(Len(rec) + 1, "stop") \in Retirement
    BY <1>0, NewOperation
  <2>4. QED
    BY <2>1, <2>2, <2>3, OperationsStayCarry, QueuedCarry
<1>3. ASSUME NEW p \in Rows, SweepRetire(p) PROVE OperationsCarry
  <2>1. \/ retiring' = retiring
        \/ retiring' = [retiring EXCEPT ![SessionOfRow(p)] =
                           Append(@, Operation(Len(rec) + 1, "expired"))]
    BY <1>3 DEF SweepRetire
  <2>2. SessionOfRow(p) \in Sessions
    BY <1>0, RowOf
  <2>3. Operation(Len(rec) + 1, "expired") \in Retirement
    BY <1>0, NewOperation
  <2>4. QED
    BY <2>1, <2>2, <2>3, OperationsStayCarry, QueuedCarry
<1>4. ASSUME NEW p \in Rows, SweepRecord(p) PROVE OperationsCarry
  BY <1>4, TornDownCarry DEF SweepRecord
<1>5. CASE CallStep
  BY <1>1, <1>2, <1>5, OperationsStayCarry
  DEF CallStep, StartLook, StartDecide, StartAdopt, StartReplace, StartCreate, LoadRead, Refresh,
      RefreshFails
<1>6. CASE \/ \E k \in DOMAIN rec : BeginAttach(k) \/ BeginRelay(k)
           \/ \E w \in writes : WriteCommits(w)
           \/ \E p \in Rows : SweepList(p)
           \/ Recovered
  BY <1>6, OperationsStayCarry DEF BeginAttach, BeginRelay, WriteCommits, SweepList, Recovered
<1>7. CASE Retirements
  BY <1>0, <1>7, OperationDomain, RetireCarry DEF Retirements
<1>8. CASE HostStep \/ UNCHANGED previewVars
  BY <1>8, HostLeavesApi, OperationsStayCarry DEF apiVars, previewVars
<1>9. QED
  BY <1>3, <1>4, <1>5, <1>6, <1>7, <1>8 DEF Serves

\* A row stays registered, or a call replaces its preview, or its retirement is queued.
Replaced(p) == \E c \in Requests : call'[c].pc = "replace" /\ call'[c].row = p
Retired(p) ==
    \E j \in 1..Len(retiring'[SessionOfRow(p)]) :
        /\ retiring'[SessionOfRow(p)][j].pc = "queued"
        /\ rec'[retiring'[SessionOfRow(p)][j].rec].row = p
RegistryCarry == \A p \in Rows : byId[p] # 0 => byId'[p] # 0 \/ Replaced(p) \/ Retired(p)

LEMMA RegisteredCarry ==
  ASSUME Fits, NEW n \in Nat, n # 0, NEW p, byId' = [byId EXCEPT ![p] = n] PROVE RegistryCarry
<1>1. \A q \in Rows : q \in 1..MaxPreviews
  BY RowOf DEF Fits
<1>2. QED
  BY <1>1 DEF RegistryCarry, Fits, RecordsOK, RegistryTyped

LEMMA RemovedCarry ==
  ASSUME Fits, NEW p, byId' = [byId EXCEPT ![p] = 0], p \in Rows => Replaced(p) \/ Retired(p)
  PROVE  RegistryCarry
<1>1. \A q \in Rows : q \in 1..MaxPreviews
  BY RowOf DEF Fits
<1>2. \A q \in Rows : q # p => byId'[q] = byId[q]
  BY <1>1 DEF Fits, RecordsOK, RegistryTyped
<1>3. QED
  BY <1>2 DEF RegistryCarry

LEMMA RegistryCarried == ASSUME Fits, StartsAreUnderWay, Serves PROVE RegistryCarry
<1>0. RowsOK /\ RecordsOK /\ CallsOK /\ RetirementsOK /\ Len(rec) + 1 \in Nat /\ Len(rec) + 1 # 0
  BY DEF Fits, RecordsOK, RecordsTyped
<1>1. ASSUME byId' = byId PROVE RegistryCarry
  BY <1>1 DEF RegistryCarry
<1>2. ASSUME NEW p \in Rows, byId[p] # 0, NEW why \in {"stop", "sweep", "expired", "recovery"},
             TornDown(byId[p], why), UNCHANGED <<row, rec>>
      PROVE  RegistryCarry
  <2>1. /\ byId' = [byId EXCEPT ![p] = 0] /\ rec[byId[p]].row = p /\ byId[p] \in Nat
        /\ StaysQueued(SessionOfRow(p), Operation(byId[p], why))
    BY <1>2, TornDownCarry
  <2>2. Operation(byId[p], why).rec = byId[p] /\ Operation(byId[p], why).pc = "queued"
    BY <2>1, NewOperation
  <2>3. Retired(p)
    BY <1>2, <2>1, <2>2 DEF Retired, StaysQueued
  <2>4. QED
    BY <2>1, <2>3, RemovedCarry
<1>3. ASSUME NEW c \in Requests, StartDecide(c) PROVE RegistryCarry
  <2>1. CASE /\ byId' = [byId EXCEPT ![call[c].row] = 0]
             /\ Becomes(c, [call[c] EXCEPT !.pc = "replace"])
    <3>1. call'[c] = [call[c] EXCEPT !.pc = "replace"] /\ call[c] \in Call
      BY <1>0, <2>1 DEF Becomes, CallsOK
    <3>2. call'[c].pc = "replace" /\ call'[c].row = call[c].row
      BY <3>1 DEF Call
    <3>3. QED
      BY <2>1, <3>2, RemovedCarry DEF Replaced
  <2>2. QED
    BY <1>1, <1>3, <2>1 DEF StartDecide
<1>4. ASSUME NEW c \in Requests, StartAdopt(c) \/ StartCreate(c) PROVE RegistryCarry
  BY <1>0, <1>4, RegisteredCarry DEF StartAdopt, StartCreate
<1>5. ASSUME NEW c \in Requests, LoadRegister(c) PROVE RegistryCarry
  BY <1>0, <1>1, <1>5, RegisteredCarry DEF LoadRegister
<1>6. ASSUME NEW c \in Requests, NEW p \in Rows, NEW op, Ask(c, p, op) PROVE RegistryCarry
  <2>1. byId' = byId \/ (byId[p] # 0 /\ TornDown(byId[p], "stop") /\ UNCHANGED <<row, rec>>)
    BY <1>6 DEF Ask
  <2>2. QED
    BY <1>1, <1>2, <2>1
<1>7. CASE CallStep
  BY <1>1, <1>3, <1>4, <1>5, <1>6, <1>7
  DEF CallStep, StartLook, StartReplace, LoadRead, Refresh, RefreshFails
<1>8. CASE \/ \E k \in DOMAIN rec : BeginAttach(k) \/ BeginRelay(k)
           \/ \E w \in writes : WriteCommits(w)
           \/ \E p \in Rows : SweepRecord(p) \/ SweepList(p) \/ SweepRetire(p)
           \/ Recovered
  BY <1>1, <1>2, <1>8 DEF BeginAttach, BeginRelay, WriteCommits, SweepRecord, SweepList,
                          SweepRetire, Recovered
<1>9. CASE Retirements
  BY <1>1, <1>9 DEF Retirements, Retires, RetireUpdate, RetireCheckSession, RetireCheckSiblings,
                    RetireCheckRun, RetireDestroy, RetireRejected, Rejected, RetirementRest
<1>10. CASE HostStep \/ UNCHANGED previewVars
  BY <1>1, <1>10, HostLeavesApi DEF apiVars, previewVars
<1>11. QED
  BY <1>7, <1>8, <1>9, <1>10 DEF Serves

-----------------------------------------------------------------------------
(* A preview that may be shown is one somebody will retire *)

\* What carries on in every step that the process survives.
Carries ==
    /\ TablesStep /\ WritesMove /\ RowsMove
    /\ CallsCarry /\ OperationsCarry /\ RegistryCarry

LEMMA SessionStays ==
  ASSUME TablesFit, NEW p \in Rows PROVE SessionOf[row'[p].run] = SessionOfRow(p) /\ p \in 1..Len(row')
<1>1. row'[p].run = row[p].run
  BY DEF TablesFit, Grows, Rows
<1>2. p \in 1..Len(row')
  BY DEF TablesFit, RowsTyped, Grows, Rows
<1>3. QED
  BY <1>1, <1>2 DEF SessionOfRow

\* Stopping a row that may still be shown is remembered.
LEMMA StoppedShown ==
  ASSUME Fits, NEW p \in Rows, SetRow(p, "stopped"), writes' \subseteq writes, Shown(p)'
  PROVE  p \in overlapped'
<1>1. row'[p].status = "stopped"
  BY SetRowEffect DEF Fits, PreviewStatus
<1>2. PICK w \in writes' : w.row = p /\ w.status = "ready"
  BY <1>1 DEF Shown, Live
<1>3. UnderWay(p)
  BY <1>2 DEF UnderWay
<1>4. QED
  BY <1>3, SetRowEffect DEF Fits, PreviewStatus

LEMMA KeptStays ==
  ASSUME Fits, Carries, NEW p \in Rows, Kept(p), Shown(p)'
  PROVE  Kept(p)'
<1>0. p \in 1..MaxPreviews /\ SessionOfRow(p) \in Sessions /\ TablesFit
  BY RowOf DEF Fits, Carries, TablesStep
<1> DEFINE s == SessionOfRow(p)
<1>1. SessionOfRow(p)' = s
  BY <1>0, SessionStays DEF SessionOfRow
<1>2. CASE p \in overlapped
  BY <1>2 DEF Carries, RowsMove, Kept
<1>3. CASE byId[p] # 0
  <2>1. byId'[p] # 0 \/ Replaced(p) \/ Retired(p)
    BY <1>3 DEF Carries, RegistryCarry
  <2>2. Retired(p) => Kept(p)'
    BY <1>1 DEF Retired, Kept
  <2>3. QED
    BY <2>1, <2>2 DEF Replaced, Kept
<1>4. ASSUME NEW i \in 1..Len(retiring[s]), retiring[s][i].pc = "queued", rec[retiring[s][i].rec].row = p
      PROVE  Kept(p)'
  <2>1. \/ StaysQueued(s, retiring[s][i])
        \/ i = 1 /\ SetRow(RowAt(s, 1), "stopped") /\ UNCHANGED writes
    BY <1>0, <1>4 DEF Carries, OperationsCarry
  <2>2. CASE StaysQueued(s, retiring[s][i])
    <3>1. PICK j \in 1..Len(retiring'[s]) : retiring'[s][j] = retiring[s][i]
      BY <2>2 DEF StaysQueued
    <3>2. rec'[retiring[s][i].rec].row = p
      BY <1>0, <1>4, OperationOf DEF TablesFit, RecordsGrow
    <3>3. QED
      BY <1>1, <1>4, <3>1, <3>2 DEF Kept
  <2>3. CASE i = 1 /\ SetRow(RowAt(s, 1), "stopped") /\ UNCHANGED writes
    <3>1. RowAt(s, 1) = p
      BY <1>4, <2>3 DEF RowAt
    <3>2. p \in overlapped'
      BY <2>3, <3>1, StoppedShown
    <3>3. QED
      BY <3>2 DEF Kept
  <2>4. QED
    BY <2>1, <2>2, <2>3
<1>5. ASSUME NEW c \in Requests, call[c].pc = "replace", call[c].row = p PROVE Kept(p)'
  <2>1. call'[c] = call[c] \/ StartReplace(c)
    BY <1>5 DEF Carries, CallsCarry
  <2>2. CASE StartReplace(c)
    <3>1. SetRow(p, "stopped") /\ writes' = writes
      BY <1>5, <2>2 DEF StartReplace
    <3>2. QED
      BY <3>1, StoppedShown DEF Kept
  <2>3. CASE call'[c] = call[c]
    BY <1>5, <2>3 DEF Kept
  <2>4. QED
    BY <2>1, <2>2, <2>3
<1>6. QED
  BY <1>2, <1>3, <1>4, <1>5 DEF Kept

\* A shown preview was kept before the step, a new one apart.
LEMMA ShownWasKept ==
  ASSUME Fits, Carries, ShownIsKept, crashes = 0, NEW p \in Rows, Shown(p)'
  PROVE  Kept(p)
<1>0. \A q \in Rows : Shown(q) => Kept(q)
  BY DEF ShownIsKept
<1>1. ASSUME NEW w \in writes', w.row = p, w.status = "ready" PROVE Kept(p)
  <2>1. CASE w \in writes
    BY <1>0, <1>1, <2>1 DEF Shown
  <2>2. CASE NewUpdate(w)
    BY <1>1, <2>2 DEF NewUpdate, Kept
  <2>3. QED
    BY <2>1, <2>2 DEF Carries, WritesMove
<1>2. CASE row'[p] = row[p] /\ row'[p].status \in Live
  BY <1>0, <1>2 DEF Shown
<1>3. ASSUME NEW st \in PreviewStatus, SetRow(p, st), st \in Live => Shown(p), row'[p].status \in Live
      PROVE  Kept(p)
  <2>1. row'[p].status = st
    BY <1>3, SetRowEffect DEF Fits
  <2>2. QED
    BY <1>0, <1>3, <2>1
<1>4. p \in 1..Len(row')
  BY SessionStays DEF Carries, TablesStep
<1>5. row'[p].status \in Live => Kept(p)
  BY <1>2, <1>3, <1>4 DEF Carries, RowsMove
<1>6. QED
  BY <1>1, <1>5 DEF Shown

LEMMA ShownKept ==
  ASSUME Fits, Carries, ShownIsKept, crashes' = crashes PROVE ShownIsKept'
<1> SUFFICES ASSUME crashes = 0, NEW p \in 1..Len(row'), Shown(p)' PROVE Kept(p)'
  BY DEF ShownIsKept, Rows
<1>1. CASE p \in Rows
  BY <1>1, ShownWasKept, KeptStays
<1>2. CASE p \notin Rows
  BY <1>2 DEF Carries, RowsMove, Kept
<1>3. QED
  BY <1>1, <1>2

-----------------------------------------------------------------------------
(* A container that runs is one somebody will look after *)

\* What a step does to the containers, to the attempts and to what is remembered of them.
HostCarry ==
    /\ \A s \in Sessions : container'[s] =>
          container[s] \/ \E id \in Leases : SessionOfLease(id) = s /\ attempt'[id] = "driving"
    /\ \A s \in Sessions : left[s] # "none" /\ container'[s] => left'[s] # "none"
    /\ \A s \in Sessions : Waits(s) =>
          Waits(s)' \/ \E id \in Leases : SessionOfLease(id) = s /\ attempt'[id] = "driving"
    /\ \A id \in Leases : attempt[id] \in AtWork =>
          \/ attempt'[id] \in AtWork
          \/ /\ Retains(SessionOfLease(id))
             /\ UNCHANGED <<apiVars, historyVars>>
          \/ ~container'[SessionOfLease(id)]
          \/ Waits(SessionOfLease(id))'

LEMMA LeaseOf ==
  ASSUME IInv, NEW id \in Leases
  PROVE  /\ id \in DOMAIN grants /\ grants[id].run \in Runs /\ SessionOfLease(id) \in Sessions
         /\ id \in 1..MaxLeases
<1>1. id \in DOMAIN grants /\ DOMAIN grants = 1..Len(grants) /\ id \in 1..MaxLeases
  BY DEF Leases, IInv, TypeOK
<1>2. grants[id].run \in Runs /\ SessionOf[grants[id].run] \in Sessions
  BY <1>1, GrantOf DEF IInv
<1>3. QED
  BY <1>1, <1>2 DEF SessionOfLease

\* Steps that leave the leases and the attempts alone, and end no run.
LEMMA AttemptsStay ==
  ASSUME AttemptsFit, UNCHANGED <<lease, grants, attempt>>,
         \A q \in Runs : Unfinished(q) => Unfinished(q)'
  PROVE  AttemptsFit' /\ \A s \in Sessions : Waits(s) => Waits(s)'
<1>1. Leases' = Leases /\ \A j \in Leases : HoldsLiveLease(j)' <=> HoldsLiveLease(j)
  BY DEF Leases, HoldsLiveLease
<1>2. AttemptsFit'
  BY <1>1 DEF AttemptsFit
<1>3. ASSUME NEW s \in Sessions, NEW r \in Runs, WaitsFor(s, r) PROVE WaitsFor(s, r)'
  BY <1>1, <1>3 DEF WaitsFor
<1>4. QED
  BY <1>2, <1>3 DEF Waits

\* An attempt that holds its lease moves on under it: no run that waits is its own.
LEMMA AttemptMoves ==
  ASSUME HostOK, AttemptsFit, NEW id \in Leases, attempt[id] \in Held, NEW to,
         attempt' = [attempt EXCEPT ![id] = to], UNCHANGED <<lease, grants, status>>
  PROVE  AttemptsFit' /\ \A s \in Sessions : Waits(s) => Waits(s)'
<1>1. HoldsLiveLease(id) /\ id \in DOMAIN grants
  BY DEF AttemptsFit, Leases
<1>2. /\ \A j \in 1..MaxLeases : j # id => attempt'[j] = attempt[j]
      /\ Leases' = Leases /\ \A j \in Leases : HoldsLiveLease(j)' <=> HoldsLiveLease(j)
  BY DEF HostOK, Leases, HoldsLiveLease
<1>3. AttemptsFit'
  BY <1>1, <1>2 DEF AttemptsFit, Leases
<1>4. ASSUME NEW s \in Sessions, NEW r \in Runs, WaitsFor(s, r) PROVE WaitsFor(s, r)'
  <2>1. grants[id].run # r
    BY <1>1, <1>4 DEF WaitsFor, Held
  <2>2. QED
    BY <1>2, <1>4, <2>1 DEF WaitsFor, Unfinished, Leases
<1>5. QED
  BY <1>3, <1>4 DEF Waits

\* A lease is dropped or lapses: its run waits for the next claim.
LEMMA LeaseDropped ==
  ASSUME IInv, GrantedRunsStarted, HostOK, AttemptsFit, NEW id \in Leases, HoldsLiveLease(id),
         ~lease'[grants[id].run].live,
         \A q \in Runs : q # grants[id].run => lease'[q] = lease[q],
         UNCHANGED <<grants, status>>, NEW to, to \notin Held,
         attempt' = [attempt EXCEPT ![id] = to]
  PROVE  /\ AttemptsFit' /\ \A s \in Sessions : Waits(s) => Waits(s)'
         /\ Waits(SessionOfLease(id))'
<1> DEFINE r == grants[id].run
<1>0. r \in Runs /\ id \in 1..MaxLeases /\ \A j \in Leases : grants[j].run \in Runs /\ j \in 1..MaxLeases
  BY LeaseOf
<1>1. /\ attempt'[id] = to /\ \A j \in 1..MaxLeases : j # id => attempt'[j] = attempt[j]
      /\ Leases' = Leases
  BY <1>0 DEF HostOK, Leases
<1>2. ASSUME NEW j \in Leases, grants[j].run = r PROVE ~HoldsLiveLease(j)'
  BY <1>2 DEF HoldsLiveLease
<1>3. ASSUME NEW j \in Leases, grants[j].run # r PROVE HoldsLiveLease(j)' <=> HoldsLiveLease(j)
  BY <1>0, <1>3 DEF HoldsLiveLease
<1>4. ASSUME NEW j \in Leases, grants[j].run = r, HoldsLiveLease(j) PROVE j = id
  BY <1>4 DEF HoldsLiveLease
<1>5. AttemptsFit'
  <2>1. ASSUME NEW j \in Leases, attempt'[j] \in Held PROVE HoldsLiveLease(j)'
    <3>1. j # id /\ attempt[j] \in Held
      BY <1>0, <1>1, <2>1
    <3>2. HoldsLiveLease(j)
      BY <3>1 DEF AttemptsFit
    <3>3. QED
      BY <1>3, <1>4, <3>1, <3>2
  <2>2. \A j \in 1..MaxLeases : j \notin DOMAIN grants => attempt'[j] = "none"
    BY <1>1 DEF AttemptsFit, Leases
  <2>3. QED
    BY <1>1, <2>1, <2>2 DEF AttemptsFit
<1>6. ASSUME NEW s \in Sessions, NEW q \in Runs, WaitsFor(s, q) PROVE WaitsFor(s, q)'
  <2>1. ASSUME NEW j \in Leases, grants[j].run = q, HoldsLiveLease(j)' PROVE attempt'[j] = "none"
    <3>1. grants[j].run # r /\ j # id
      BY <1>2, <2>1
    <3>2. QED
      BY <1>0, <1>1, <1>3, <1>6, <2>1, <3>1 DEF WaitsFor
  <2>2. QED
    BY <1>1, <1>6, <2>1 DEF WaitsFor, Unfinished
<1>7. WaitsFor(SessionOfLease(id), r)'
  <2>1. status[r] \in Active
    BY <1>0, HeldRunIsActive DEF HoldsLiveLease
  <2>2. Unfinished(r)'
    BY <2>1 DEF Unfinished, Active, Terminal
  <2>3. QED
    BY <1>1, <1>2, <2>2 DEF WaitsFor, SessionOfLease
<1>8. QED
  BY <1>0, <1>5, <1>6, <1>7 DEF Waits, SessionOfLease

\* A claim gives a run that may have been waiting an attempt that has not started.
LEMMA ClaimWaits ==
  ASSUME IInv, HostOK, AttemptsFit, NEW q \in Runs, NEW w \in Workers, Claim(q, w)
  PROVE  AttemptsFit' /\ \A s \in Sessions : Waits(s) => Waits(s)'
<1> DEFINE n == Len(grants) + 1
<1>0. grants \in Seq(Grant) /\ Len(grants) \in Nat /\ Len(grants) < MaxLeases /\ MaxLeases \in Nat
      /\ attempt' = attempt
  BY PreviewBoundsAreNatural DEF Claim, BeginRun, IInv, TypeOK, hostVars
<1>1. /\ ~lease[q].live /\ status'[q] \in Active
      /\ \A p \in Runs : p # q => status'[p] = status[p] /\ lease'[p] = lease[p]
      /\ lease'[q] = [id |-> n, live |-> TRUE] /\ grants' = Append(grants, [run |-> q, holder |-> w])
  BY BeginEffect DEF Claim, IInv, Claimable
<1>2. /\ DOMAIN grants' = DOMAIN grants \cup {n} /\ grants'[n].run = q /\ n \in 1..MaxLeases
      /\ n \notin DOMAIN grants /\ \A j \in DOMAIN grants : grants'[j] = grants[j]
  BY <1>0, <1>1
<1>3. Leases' = Leases \cup {n} /\ n \notin Leases /\ attempt[n] = "none"
  BY <1>2 DEF Leases, AttemptsFit
<1>4. ASSUME NEW j \in Leases
      PROVE  /\ grants'[j] = grants[j] /\ grants[j].run \in Runs /\ j # n
             /\ HoldsLiveLease(j)' => (HoldsLiveLease(j) /\ grants[j].run # q)
             /\ HoldsLiveLease(j) => HoldsLiveLease(j)'
  <2>1. grants'[j] = grants[j] /\ grants[j].run \in Runs /\ j # n
    BY <1>2, <1>3, LeaseOf DEF Leases
  <2>2. CASE grants[j].run = q
    <3>1. lease'[q].id # j
      BY <1>1, <2>1
    <3>2. ~HoldsLiveLease(j)'
      BY <2>1, <2>2, <3>1 DEF HoldsLiveLease
    <3>3. ~HoldsLiveLease(j)
      BY <1>1, <2>2 DEF HoldsLiveLease
    <3>4. QED
      BY <2>1, <3>2, <3>3
  <2>3. CASE grants[j].run # q
    BY <1>1, <2>1, <2>3 DEF HoldsLiveLease
  <2>4. QED
    BY <2>1, <2>2, <2>3
<1> HIDE DEF n
<1>5. AttemptsFit'
  <2>1. ASSUME NEW j \in Leases', attempt'[j] \in Held PROVE HoldsLiveLease(j)'
    <3>1. j \in Leases /\ attempt[j] \in Held
      BY <1>0, <1>3, <2>1 DEF Held
    <3>2. QED
      BY <1>4, <3>1 DEF AttemptsFit
  <2>2. \A j \in 1..MaxLeases : j \notin DOMAIN grants' => attempt'[j] = "none"
    BY <1>0, <1>2 DEF AttemptsFit
  <2>3. QED
    BY <2>1, <2>2 DEF AttemptsFit
<1>6. ASSUME NEW s \in Sessions, NEW r \in Runs, WaitsFor(s, r) PROVE WaitsFor(s, r)'
  <2>1. Unfinished(r)'
    BY <1>1, <1>6 DEF WaitsFor, Unfinished, Active, Terminal
  <2>2. ASSUME NEW j \in Leases', grants'[j].run = r, HoldsLiveLease(j)' PROVE attempt'[j] = "none"
    BY <1>0, <1>3, <1>4, <1>6, <2>2 DEF WaitsFor
  <2>3. QED
    BY <1>6, <2>1, <2>2 DEF WaitsFor
<1>7. QED
  BY <1>5, <1>6 DEF Waits

\* A run ends under the lease of an attempt that is over, so it was not waiting.
LEMMA EndWaits ==
  ASSUME IInv, HostOK, AttemptsFit, NEW id \in 1..MaxLeases, NEW o \in Ends, End(id, o)
  PROVE  AttemptsFit' /\ \A s \in Sessions : Waits(s) => Waits(s)'
<1> DEFINE r == grants[id].run
<1>0. /\ id \in Leases /\ id \in 1..Len(grants) /\ r \in Runs /\ attempt' = attempt
      /\ attempt[id] = "over" /\ HoldsLiveLease(id) /\ FinishRun(id, o) /\ o \in Outcome
      /\ \A j \in Leases : grants[j].run \in Runs
  <2>1. /\ id \in Leases /\ attempt' = attempt /\ attempt[id] = "over" /\ HoldsLiveLease(id)
        /\ FinishRun(id, o) /\ o \in Outcome
    BY EndsAreOutcomes DEF End, Leases, hostVars
  <2>2. DOMAIN grants = 1..Len(grants)
    BY DEF IInv, TypeOK
  <2>3. QED
    BY <2>1, <2>2, LeaseOf DEF Leases
<1>1. /\ \A q \in Runs : q # r => status'[q] = status[q] /\ lease'[q] = lease[q]
      /\ grants' = grants
  BY <1>0, FinishEffect DEF IInv
<1>2. Leases' = Leases
  BY <1>1 DEF Leases
<1>3. ASSUME NEW j \in Leases, grants[j].run # r PROVE HoldsLiveLease(j)' <=> HoldsLiveLease(j)
  BY <1>0, <1>1, <1>3 DEF HoldsLiveLease
<1>4. AttemptsFit'
  <2>1. ASSUME NEW j \in Leases, attempt[j] \in Held PROVE HoldsLiveLease(j)'
    <3>1. HoldsLiveLease(j) /\ j # id
      BY <1>0, <2>1 DEF AttemptsFit, Held
    <3>2. grants[j].run # r
      BY <1>0, <3>1 DEF HoldsLiveLease
    <3>3. QED
      BY <1>3, <3>1, <3>2
  <2>2. QED
    BY <1>0, <1>1, <1>2, <2>1 DEF AttemptsFit
<1>5. ASSUME NEW s \in Sessions, NEW q \in Runs, WaitsFor(s, q) PROVE WaitsFor(s, q)'
  <2>1. q # r
    BY <1>0, <1>5 DEF WaitsFor
  <2>2. QED
    BY <1>0, <1>1, <1>2, <1>3, <1>5, <2>1 DEF WaitsFor, Unfinished
<1>6. QED
  BY <1>4, <1>5 DEF Waits

\* The end of a retirement takes the container along, or is remembered to have left it.
LEMMA DestroyedOrLeft ==
  ASSUME Fits, NEW s \in Sessions, RetireDestroy(s, 1)
  PROVE  /\ ~container'[s] \/ left'[s] # "none"
         /\ \A t \in Sessions : container'[t] => container[t]
         /\ \A t \in Sessions : t # s => left'[t] = left[t]
<1>1. container \in [Sessions -> BOOLEAN] /\ left \in [Sessions -> Reason]
  BY DEF Fits, HostOK
<1>2. CASE container' = [container EXCEPT ![s] = FALSE] /\ left' = [left EXCEPT ![s] = "none"]
  BY <1>1, <1>2
<1>3. CASE container' = container /\ left' = [left EXCEPT ![s] = "unattached"]
  BY <1>1, <1>3
<1>4. QED
  BY <1>2, <1>3 DEF RetireDestroy, Because

\* What the API process does leaves runs, leases and attempts alone.
LEMMA ApiLeavesStore ==
  ASSUME RetirementsOK, Serves PROVE HostStep \/ UNCHANGED <<vars, attempt>>
<1>1. CASE CallStep
  BY <1>1 DEF CallStep, StartLook, StartDecide, StartAdopt, StartReplace, StartCreate, Ask,
              LoadRead, LoadRegister, Refresh, RefreshFails, hostVars
<1>2. CASE \/ \E k \in DOMAIN rec : BeginAttach(k) \/ BeginRelay(k)
           \/ \E w \in writes : WriteCommits(w)
           \/ \E p \in Rows : SweepRecord(p) \/ SweepList(p) \/ SweepRetire(p)
           \/ Recovered
  BY <1>2 DEF BeginAttach, BeginRelay, WriteCommits, SweepRecord, SweepList, SweepRetire,
              Recovered, hostVars
<1>3. CASE Retirements
  BY <1>3 DEF Retirements, Retires, RetireUpdate, RetireCheckSession, RetireCheckSiblings,
              RetireCheckRun, RetireDestroy, RetireRejected, Rejected, RetirementRest, hostVars
<1>4. CASE UNCHANGED previewVars
  BY <1>4 DEF previewVars, hostVars
<1>5. QED
  BY <1>1, <1>2, <1>3, <1>4 DEF Serves

LEMMA SameStore ==
  ASSUME AttemptsFit, UNCHANGED <<vars, attempt>>
  PROVE  AttemptsFit' /\ \A s \in Sessions : Waits(s) => Waits(s)'
<1>1. UNCHANGED <<lease, grants, attempt, status>>
  BY DEF vars
<1>2. \A q \in Runs : Unfinished(q) => Unfinished(q)'
  BY <1>1 DEF Unfinished
<1>3. QED
  BY <1>1, <1>2, AttemptsStay

\* What the worker does carries the containers, the attempts and the runs that wait on.
LEMMA HostCarries ==
  ASSUME IInv, GrantedRunsStarted, Fits, AttemptsFit, HostStep
  PROVE  HostCarry /\ AttemptsFit'
<1>0. /\ HostOK /\ container \in [Sessions -> BOOLEAN] /\ left' = left
      /\ \A id \in Leases : /\ id \in 1..MaxLeases /\ id \in DOMAIN grants
                            /\ grants[id].run \in Runs /\ SessionOfLease(id) \in Sessions
  BY LeaseOf, HostLeavesApi DEF Fits, HostOK
<1>1. ASSUME AttemptsFit', \A s \in Sessions : Waits(s) => Waits(s)', UNCHANGED <<container, attempt>>
      PROVE  HostCarry
  BY <1>0, <1>1 DEF HostCarry
<1>2. ASSUME NEW r \in Runs, Admit(r) PROVE HostCarry /\ AttemptsFit'
  <2>1. /\ UNCHANGED <<container, attempt, lease, grants>> /\ status[r] = "absent"
        /\ status' = [status EXCEPT ![r] = "queued"]
    BY <1>2 DEF Admit, Admission, AllocateBuildSession, AppendConversationTurn, hostVars
  <2>2. \A q \in Runs : Unfinished(q) => Unfinished(q)'
    BY <2>1 DEF Unfinished, Terminal, IInv, TypeOK
  <2>3. QED
    BY <1>1, <2>1, <2>2, AttemptsStay
<1>3. ASSUME NEW r \in Runs, NEW w \in Workers, Claim(r, w) PROVE HostCarry /\ AttemptsFit'
  BY <1>0, <1>1, <1>3, ClaimWaits DEF Claim, hostVars
<1>4. ASSUME NEW r \in Runs, NEW c \in Calls,
             SuspendForQuestion(r, c) \/ TakeRunAnswer(r, c) \/ \E a \in Answers : AnswerRunQuestion(r, c, a),
             UNCHANGED <<container, attempt>>
      PROVE HostCarry /\ AttemptsFit'
  <2>1. /\ UNCHANGED <<lease, grants>>
        /\ status' = status \/ \E to \in {"awaiting_approval", "running"} : status' = [status EXCEPT ![r] = to]
    BY <1>4 DEF SuspendForQuestion, TakeRunAnswer, AnswerRunQuestion
  <2>2. \A q \in Runs : Unfinished(q) => Unfinished(q)'
    BY <2>1 DEF Unfinished, Terminal, IInv, TypeOK
  <2>3. QED
    BY <1>1, <1>4, <2>1, <2>2, AttemptsStay
<1>5. ASSUME NEW id \in 1..MaxLeases, NEW o \in Ends, End(id, o) PROVE HostCarry /\ AttemptsFit'
  BY <1>0, <1>1, <1>5, EndWaits DEF End, hostVars
<1>6. ASSUME NEW id \in 1..MaxLeases, WorkerStart(id) PROVE HostCarry /\ AttemptsFit'
  <2>1. /\ id \in Leases /\ HoldsLiveLease(id) /\ attempt[id] = "none"
        /\ attempt' = [attempt EXCEPT ![id] = "driving"]
        /\ container' = [container EXCEPT ![SessionOfLease(id)] = TRUE]
        /\ UNCHANGED <<lease, grants, status>>
    BY <1>6 DEF WorkerStart, Leases, vars
  <2>2. attempt'[id] = "driving" /\ \A j \in 1..MaxLeases : j # id => attempt'[j] = attempt[j]
    BY <1>0, <2>1 DEF HostOK
  <2>3. \A s \in Sessions : s # SessionOfLease(id) => container'[s] = container[s]
    BY <1>0, <2>1
  <2>4. Leases' = Leases /\ \A j \in Leases : HoldsLiveLease(j)' <=> HoldsLiveLease(j)
    BY <2>1 DEF Leases, HoldsLiveLease
  <2>5. AttemptsFit'
    BY <1>0, <2>1, <2>2, <2>4 DEF AttemptsFit, Leases
  <2>6. ASSUME NEW s \in Sessions, NEW r \in Runs, WaitsFor(s, r), SessionOfLease(id) # s
        PROVE  WaitsFor(s, r)'
    <3>1. grants[id].run # r
      BY <2>6 DEF WaitsFor, SessionOfLease
    <3>2. QED
      BY <1>0, <2>1, <2>2, <2>4, <2>6, <3>1 DEF WaitsFor, Unfinished
  <2>7. \A s \in Sessions : Waits(s) =>
           Waits(s)' \/ \E j \in Leases : SessionOfLease(j) = s /\ attempt'[j] = "driving"
    BY <2>1, <2>2, <2>6 DEF Waits
  <2>8. \A j \in Leases : attempt[j] \in AtWork => attempt'[j] \in AtWork
    BY <1>0, <2>2 DEF AtWork
  <2>9. \A s \in Sessions : container'[s] =>
           container[s] \/ \E j \in Leases : SessionOfLease(j) = s /\ attempt'[j] = "driving"
    BY <2>1, <2>2, <2>3
  <2>10. QED
    BY <1>0, <2>5, <2>7, <2>8, <2>9 DEF HostCarry
<1>7. ASSUME NEW id \in 1..MaxLeases, NEW to \in {"kept", "discarding", "parking"},
             attempt[id] = "driving", attempt' = [attempt EXCEPT ![id] = to],
             container' = container, UNCHANGED <<lease, grants, status>>,
             to = "kept" => Retains(SessionOfLease(id)) /\ UNCHANGED <<apiVars, historyVars>>
      PROVE HostCarry /\ AttemptsFit'
  <2>1. id \in Leases
    BY <1>7 DEF AttemptsFit, Leases
  <2>2. AttemptsFit' /\ \A s \in Sessions : Waits(s) => Waits(s)'
    BY <1>0, <1>7, <2>1, AttemptMoves DEF Held
  <2>3. attempt'[id] = to /\ \A j \in 1..MaxLeases : j # id => attempt'[j] = attempt[j]
    BY <1>0, <1>7 DEF HostOK
  <2>4. ASSUME NEW j \in Leases, attempt[j] \in AtWork
        PROVE  attempt'[j] \in AtWork \/ (Retains(SessionOfLease(j)) /\ UNCHANGED <<apiVars, historyVars>>)
    BY <1>0, <1>7, <2>3, <2>4 DEF AtWork
  <2>5. QED
    BY <1>0, <1>7, <2>2, <2>4 DEF HostCarry
<1>8. ASSUME NEW id \in 1..MaxLeases, TeardownAct(id) PROVE HostCarry /\ AttemptsFit'
  <2>1. /\ attempt' = [attempt EXCEPT ![id] = "over"]
        /\ attempt[id] \in {"kept", "discarding"} /\ UNCHANGED <<lease, grants, status>>
        /\ \/ attempt[id] = "discarding" /\ container' = [container EXCEPT ![SessionOfLease(id)] = FALSE]
           \/ attempt[id] = "kept" /\ container' = container
    BY <1>8 DEF TeardownAct, vars
  <2>2. id \in Leases
    BY <2>1 DEF AttemptsFit, Leases
  <2>3. AttemptsFit' /\ \A s \in Sessions : Waits(s) => Waits(s)'
    BY <1>0, <2>1, <2>2, AttemptMoves DEF Held
  <2>4. \A s \in Sessions : container'[s] => container[s]
    BY <1>0, <2>1
  <2>5. ASSUME NEW j \in Leases, attempt[j] \in AtWork
        PROVE  attempt'[j] \in AtWork \/ ~container'[SessionOfLease(j)]
    <3>1. CASE j # id
      <4>1. attempt'[j] = attempt[j]
        BY <1>0, <2>1, <3>1 DEF HostOK
      <4>2. QED
        BY <2>5, <4>1
    <3>2. CASE j = id
      BY <1>0, <2>1, <2>5, <3>2 DEF AtWork
    <3>3. QED
      BY <3>1, <3>2
  <2>6. QED
    BY <1>0, <2>3, <2>4, <2>5 DEF HostCarry
<1>9. ASSUME NEW id \in Leases, HoldsLiveLease(id), ~lease'[grants[id].run].live,
             \A q \in Runs : q # grants[id].run => lease'[q] = lease[q],
             UNCHANGED <<grants, status, container>>, NEW to \in {"gone", "parked"},
             attempt' = [attempt EXCEPT ![id] = to]
      PROVE HostCarry /\ AttemptsFit'
  <2>1. /\ AttemptsFit' /\ \A s \in Sessions : Waits(s) => Waits(s)'
        /\ Waits(SessionOfLease(id))'
    <3>1. to \notin Held
      BY DEF Held
    <3>2. QED
      BY <1>0, <1>9, <3>1, LeaseDropped
  <2>2. ASSUME NEW j \in Leases, attempt[j] \in AtWork
        PROVE  attempt'[j] \in AtWork \/ Waits(SessionOfLease(j))'
    <3>1. CASE j # id
      <4>1. attempt'[j] = attempt[j]
        BY <1>0, <1>9, <3>1 DEF HostOK
      <4>2. QED
        BY <2>2, <4>1
    <3>2. QED
      BY <2>1, <3>1
  <2>3. QED
    BY <1>0, <1>9, <2>1, <2>2 DEF HostCarry
<1>10. ASSUME NEW id \in 1..MaxLeases, WorkerDies(id) \/ ParkRelease(id) PROVE HostCarry /\ AttemptsFit'
  <2>1. id \in Leases /\ HoldsLiveLease(id)
    BY <1>10 DEF WorkerDies, ParkRelease, Leases, AttemptsFit, Held
  <2>2. /\ container' = container /\ UNCHANGED <<grants, status>>
        /\ \E to \in {"gone", "parked"} : attempt' = [attempt EXCEPT ![id] = to]
    BY <1>10 DEF WorkerDies, ParkRelease, LeaseLapses, ReleaseRunLease
  <2>3. /\ ~lease'[grants[id].run].live
        /\ \A q \in Runs : q # grants[id].run => lease'[q] = lease[q]
    <3>1. lease \in [Runs -> Lease] /\ grants[id].run \in Runs /\ lease[grants[id].run].id = id
      BY <1>0, <2>1 DEF IInv, TypeOK, HoldsLiveLease
    <3>2. CASE WorkerDies(id)
      <4>1. lease' = [lease EXCEPT ![grants[id].run].live = FALSE]
        BY <3>2 DEF WorkerDies, LeaseLapses
      <4>2. QED
        BY <3>1, <4>1 DEF Lease
    <3>3. CASE ParkRelease(id)
      <4>1. lease' = [lease EXCEPT ![grants[id].run] = IF @.id = id THEN NoLease ELSE @]
        BY <3>3 DEF ParkRelease, ReleaseRunLease
      <4>2. QED
        BY <3>1, <4>1 DEF NoLease
    <3>4. QED
      BY <1>10, <3>2, <3>3
  <2>4. QED
    BY <1>9, <2>1, <2>2, <2>3
<1>11. ASSUME NEW id \in 1..MaxLeases, ParkDrop(id) PROVE HostCarry /\ AttemptsFit'
  <2>1. /\ attempt[id] = "parked" /\ attempt' = [attempt EXCEPT ![id] = "gone"]
        /\ container' = [container EXCEPT ![SessionOfLease(id)] = FALSE]
        /\ UNCHANGED <<lease, grants, status>>
    BY <1>11 DEF ParkDrop, vars
  <2>2. attempt'[id] = "gone" /\ \A j \in 1..MaxLeases : j # id => attempt'[j] = attempt[j]
    BY <1>0, <2>1 DEF HostOK
  <2>3. Leases' = Leases /\ \A j \in Leases : HoldsLiveLease(j)' <=> HoldsLiveLease(j)
    BY <2>1 DEF Leases, HoldsLiveLease
  <2>4. AttemptsFit'
    <3>1. id \in Leases
      BY <2>1 DEF AttemptsFit, Leases
    <3>2. \A j \in Leases : attempt'[j] \in Held => HoldsLiveLease(j)'
      BY <1>0, <2>2, <2>3 DEF AttemptsFit, Held
    <3>3. \A j \in 1..MaxLeases : j \notin DOMAIN grants' => attempt'[j] = "none"
      BY <2>1, <2>2, <3>1 DEF AttemptsFit, Leases
    <3>4. QED
      BY <2>3, <3>2, <3>3 DEF AttemptsFit
  <2>5. ASSUME NEW s \in Sessions, NEW r \in Runs, WaitsFor(s, r) PROVE WaitsFor(s, r)'
    <3>1. ASSUME NEW j \in Leases, grants[j].run = r, HoldsLiveLease(j) PROVE attempt'[j] = "none"
      BY <1>0, <2>1, <2>2, <2>5, <3>1 DEF WaitsFor
    <3>2. QED
      BY <2>1, <2>3, <2>5, <3>1 DEF WaitsFor, Unfinished
  <2>6. \A s \in Sessions : container'[s] => container[s]
    BY <1>0, <2>1
  <2>7. \A j \in Leases : attempt[j] \in AtWork => attempt'[j] \in AtWork
    BY <1>0, <2>1, <2>2 DEF AtWork
  <2>8. QED
    BY <1>0, <2>4, <2>5, <2>6, <2>7 DEF HostCarry, Waits
<1>12. ASSUME NEW id \in 1..MaxLeases, TeardownRead(id) \/ Park(id) PROVE HostCarry /\ AttemptsFit'
  <2>1. attempt[id] = "driving" /\ container' = container /\ UNCHANGED <<lease, grants, status>>
    BY <1>12 DEF TeardownRead, Park, Driving, ParkRunSuspension, vars
  <2>2. \E to \in {"kept", "discarding", "parking"} :
           /\ attempt' = [attempt EXCEPT ![id] = to]
           /\ to = "kept" => Retains(SessionOfLease(id)) /\ UNCHANGED <<apiVars, historyVars>>
    BY <1>12 DEF TeardownRead, Park
  <2>3. QED
    BY <1>7, <2>1, <2>2
<1>13. ASSUME NEW id \in 1..MaxLeases, NEW c \in Calls, Suspend(id, c) \/ Resume(id, c)
       PROVE HostCarry /\ AttemptsFit'
  <2>1. grants[id].run \in Runs /\ UNCHANGED <<container, attempt>>
    BY <1>13, LeasedRun DEF Suspend, Resume, Driving, hostVars
  <2>2. QED
    BY <1>4, <1>13, <2>1 DEF Suspend, Resume
<1>14. ASSUME NEW r \in Runs, NEW c \in Calls, NEW a \in Answers, Answered(r, c, a)
       PROVE HostCarry /\ AttemptsFit'
  BY <1>4, <1>14 DEF Answered, hostVars
<1>15. QED
  BY <1>2, <1>3, <1>5, <1>6, <1>8, <1>10, <1>11, <1>12, <1>13, <1>14 DEF HostStep

LEMMA HostCarried ==
  ASSUME IInv, GrantedRunsStarted, Fits, AttemptsFit, StartsAreUnderWay, Serves
  PROVE  HostCarry /\ AttemptsFit'
<1>0. RetirementsOK /\ RecordsOK /\ (HostStep \/ UNCHANGED <<vars, attempt>>)
  BY ApiLeavesStore DEF Fits
<1>1. ASSUME UNCHANGED <<vars, attempt>> PROVE AttemptsFit' /\ \A s \in Sessions : Waits(s) => Waits(s)'
  BY <1>1, SameStore
<1>2. ASSUME UNCHANGED <<vars, attempt, container>>, \A s \in Sessions : left[s] # "none" => left'[s] # "none"
      PROVE  HostCarry
  BY <1>1, <1>2 DEF HostCarry
<1>3. ASSUME NEW s \in Sessions, NEW i \in 1..Len(retiring[s]), Retires(s, i)
      PROVE  HostCarry
  <2>1. UNCHANGED <<vars, attempt>> /\ i = 1
    BY <1>3, RetireSteps
  <2>2. CASE RetireDestroy(s, i)
    <3>1. /\ ~container'[s] \/ left'[s] # "none"
          /\ \A t \in Sessions : container'[t] => container[t]
          /\ \A t \in Sessions : t # s => left'[t] = left[t]
      BY <2>1, <2>2, DestroyedOrLeft
    <3>2. QED
      BY <1>1, <2>1, <3>1 DEF HostCarry
  <2>3. ASSUME LeftToRun(s) \/ Because(s, "check") \/ left' = left
        PROVE  \A t \in Sessions : left[t] # "none" => left'[t] # "none"
    <3>1. left \in [Sessions -> Reason]
      BY DEF Fits, HostOK
    <3>2. left' = left \/ left' = [left EXCEPT ![s] = "run"] \/ left' = [left EXCEPT ![s] = "check"]
      BY <2>3 DEF LeftToRun, Because
    <3>3. QED
      BY <3>1, <3>2
  <2>4. ASSUME ~RetireDestroy(s, i)
        PROVE  container' = container /\ (LeftToRun(s) \/ Because(s, "check") \/ left' = left)
    BY <1>3, <2>4 DEF Retires, RetireUpdate, RetireCheckSession, RetireCheckSiblings, RetireCheckRun,
                      RetireRejected, Rejected, hostVars
  <2>5. QED
    BY <1>2, <2>1, <2>2, <2>3, <2>4
<1>4. ASSUME CallStep PROVE HostCarry
  <2>1. UNCHANGED <<vars, attempt, container, left>>
    BY <1>4 DEF CallStep, StartLook, StartDecide, StartAdopt, StartReplace, StartCreate, Ask,
                LoadRead, LoadRegister, Refresh, RefreshFails, hostVars, historyVars
  <2>2. QED
    BY <1>2, <2>1
<1>5. ASSUME \/ \E k \in DOMAIN rec : BeginAttach(k) \/ BeginRelay(k)
             \/ \E w \in writes : WriteCommits(w)
             \/ \E p \in Rows : SweepRecord(p) \/ SweepList(p) \/ SweepRetire(p)
             \/ Recovered
      PROVE  HostCarry
  <2>1. UNCHANGED <<vars, attempt, container, left>>
    BY <1>5 DEF BeginAttach, BeginRelay, WriteCommits, SweepRecord, SweepList, SweepRetire,
                Recovered, hostVars, historyVars
  <2>2. QED
    BY <1>2, <2>1
<1>6. ASSUME Retirements PROVE HostCarry
  <2>1. PICK s \in Sessions : \E i \in DOMAIN retiring[s] : Retires(s, i)
    BY <1>6 DEF Retirements
  <2>2. PICK i \in 1..Len(retiring[s]) : Retires(s, i)
    BY <1>0, <2>1, OperationDomain
  <2>3. QED
    BY <1>3, <2>2
<1>7. ASSUME UNCHANGED previewVars PROVE HostCarry
  <2>1. UNCHANGED <<vars, attempt, container, left>>
    BY <1>7 DEF previewVars, hostVars, historyVars
  <2>2. QED
    BY <1>2, <2>1
<1>8. HostCarry
  BY <1>4, <1>5, <1>6, <1>7, HostCarries DEF Serves
<1>9. QED
  BY <1>0, <1>1, <1>8, HostCarries

\* A kept preview makes somebody responsible, in a step that leaves the previews alone
\* and the operations of the session where they are, their first apart.
LEMMA KeptResponds ==
  ASSUME Fits, NEW s \in Sessions, NEW p \in Rows, SessionOfRow(p) = s, Kept(p),
         UNCHANGED <<row, byId, call, overlapped>>,
         \A i \in 1..Len(retiring[s]) : retiring[s][i].pc = "queued" => Len(retiring'[s]) # 0
  PROVE  Responsible(s)'
<1>0. SessionOfRow(p)' = s /\ p \in Rows'
  BY DEF SessionOfRow, Rows
<1>1. CASE p \in overlapped \/ byId[p] # 0
  BY <1>0, <1>1 DEF Responsible
<1>2. ASSUME NEW c \in Requests, call[c].pc = "replace", call[c].row = p PROVE Responsible(s)'
  <2>1. call'[c].pc = "replace" /\ SessionOf[row'[call'[c].row].run] = s
    BY <1>2 DEF SessionOfRow
  <2>2. QED
    BY <2>1 DEF Responsible, SessionOfRow
<1>3. ASSUME NEW i \in 1..Len(retiring[s]), retiring[s][i].pc = "queued" PROVE Responsible(s)'
  BY <1>3 DEF Responsible
<1>4. QED
  BY <1>1, <1>2, <1>3 DEF Kept

\* retainForPreview keeps the container only for a preview that is shown.
LEMMA RetainedIsShown ==
  ASSUME RowsOK, NEW s, Retains(s)
  PROVE  \E p \in Rows : SessionOfRow(p) = s /\ Shown(p)
<1> DEFINE found == {p \in Rows : SessionOfRow(p) = s /\ row[p].status # "stopped"}
           p == GetBySession(s)
<1>1. p # 0 /\ row[p].status \in Live
  BY DEF Retains
<1>2. found # {} /\ p = CHOOSE q \in found : \A r \in found : r <= q
  BY <1>1 DEF GetBySession
<1>3. found \subseteq 1..Len(row) /\ Len(row) \in Nat
  BY DEF RowsOK, RowsTyped, Rows
<1>4. \E q \in found : \A r \in found : r <= q
  <2> HIDE DEF found
  <2>1. QED
    BY <1>2, <1>3, GreatestRow
<1>5. p \in found
  BY <1>2, <1>4
<1>6. QED
  BY <1>1, <1>5 DEF Shown

\* The last retirement of a session leaves its container to nobody only with a note of it.
LEMMA FinishedResponds ==
  ASSUME IInv, Fits, StartsAreUnderWay, ShownIsKept, crashes = 0, NEW s \in Sessions, Finishes(s),
         container'[s], left'[s] = "none"
  PROVE  Responsible(s)'
<1>0. /\ Done(s) /\ Len(retiring[s]) # 0 /\ retiring[s][1].pc # "queued"
      /\ UNCHANGED <<row, byId, call, overlapped, vars>>
  BY DEF Finishes
<1>1. 1 \in 1..Len(retiring[s]) /\ Len(retiring[s]) \in Nat
  BY <1>0 DEF Fits, RetirementsOK
<1> DEFINE p == RowAt(s, 1)
<1>2. p \in Rows /\ SessionOfRow(p) = s /\ row[p].run \in Runs
  BY <1>1, OperationOf, RowOf DEF Fits
<1>30. ASSUME NEW why \in Reason, Because(s, why) PROVE why = "none"
  BY <1>30 DEF Because, Fits, HostOK
<1>3. ASSUME NEW r \in Runs, SessionOf[r] = s, Unfinished(r), LeftToRun(s) PROVE FALSE
  BY <1>3, <1>30 DEF LeftToRun, Reason
<1>31. ~Because(s, "check")
  BY <1>30 DEF Reason
<1>4. ASSUME SessionActive(p), LeftToRun(s) PROVE FALSE
  <2>1. session[s].run # None /\ Unfinished(session[s].run)
    BY <1>2, <1>4 DEF SessionActive
  <2>2. SessionOf[session[s].run] = s /\ session[s].run \in Runs
    BY <2>1 DEF IInv, TypeOK, SessionRowsMatchRuns
  <2>3. QED
    BY <1>3, <1>4, <2>1, <2>2
<1>5. ASSUME RunActive(p), LeftToRun(s) PROVE FALSE
  <2>1. Unfinished(row[p].run) /\ SessionOf[row[p].run] = s
    BY <1>2, <1>5 DEF RunActive, Unfinished, Terminal, SessionOfRow
  <2>2. QED
    BY <1>2, <1>3, <1>5, <2>1
<1>6. ~RetireDestroy(s, 1)
  BY DestroyedOrLeft
<1>7. PICK q \in Rows : SessionOfRow(q) = s /\ row[q].status \in Live
  BY <1>4, <1>5, <1>6, <1>31 DEF Finishes, Siblings, ActiveRows
<1>8. Kept(q)
  BY <1>7 DEF ShownIsKept, Shown
<1>9. ASSUME NEW i \in 1..Len(retiring[s]), retiring[s][i].pc = "queued" PROVE Len(retiring'[s]) # 0
  <2>1. Len(retiring'[s]) = Len(retiring[s]) - 1
    BY <1>0, OverEffect
  <2>2. i # 1
    BY <1>0, <1>9
  <2>3. Len(retiring[s]) # 1
    BY <1>1, <1>9, <2>2
  <2>4. QED
    BY <1>1, <2>1, <2>3
<1>10. QED
  BY <1>0, <1>7, <1>8, <1>9, KeptResponds

LEMMA AttemptResponds ==
  ASSUME IInv, [Next]_vars, NEW id \in Leases, NEW s, SessionOfLease(id) = s, attempt'[id] \in AtWork
  PROVE  Responsible(s)'
<1>1. id \in DOMAIN grants' /\ grants'[id] = grants[id] /\ id \in 1..MaxLeases
  BY GrantsStay DEF IInv, Leases
<1>2. id \in Leases' /\ SessionOfLease(id)' = s
  BY <1>1 DEF Leases, SessionOfLease
<1>3. QED
  BY <1>2 DEF Responsible

LEMMA ResponsibleStays ==
  ASSUME IInv, [Next]_vars, Fits, StartsAreUnderWay, Carries, HostCarry, ShownIsKept, crashes = 0,
         NEW s \in Sessions, container'[s], left'[s] = "none", Responsible(s)
  PROVE  Responsible(s)'
<1>0. TablesFit /\ RowsOK /\ CallsOK
  BY DEF Fits, Carries, TablesStep
<1>1. ASSUME NEW id \in Leases, SessionOfLease(id) = s, attempt[id] \in AtWork
      PROVE  Responsible(s)'
  <2>1. CASE attempt'[id] \in AtWork
    BY <1>1, <2>1, AttemptResponds
  <2>2. CASE Retains(SessionOfLease(id)) /\ UNCHANGED <<apiVars, historyVars>>
    <3>1. PICK p \in Rows : SessionOfRow(p) = s /\ Shown(p)
      BY <1>0, <1>1, <2>2, RetainedIsShown
    <3>2. Kept(p)
      BY <3>1 DEF ShownIsKept
    <3>3. UNCHANGED <<row, byId, call, overlapped, retiring>>
      BY <2>2 DEF apiVars, historyVars
    <3>4. \A i \in 1..Len(retiring[s]) : retiring[s][i].pc = "queued" => Len(retiring'[s]) # 0
      BY <3>3 DEF Fits, RetirementsOK
    <3>5. SessionOfRow(p) = s
      BY <1>1, <3>1
    <3>6. QED
      BY <3>1, <3>2, <3>3, <3>4, <3>5, KeptResponds
  <2>3. QED
    <3>1. SessionOfLease(id)' = s
      BY <1>1, GrantsStay DEF SessionOfLease, Leases, IInv
    <3>2. CASE Waits(SessionOfLease(id))'
      BY <3>1, <3>2 DEF Responsible
    <3>3. QED
      BY <1>1, <2>1, <2>2, <3>2 DEF HostCarry
<1>2. ASSUME NEW p \in Rows, SessionOfRow(p) = s, p \in overlapped \/ byId[p] # 0
      PROVE  Responsible(s)'
  <2>0. SessionOfRow(p)' = s /\ p \in Rows'
    BY <1>0, <1>2, SessionStays DEF SessionOfRow, Rows
  <2>1. CASE p \in overlapped' \/ byId'[p] # 0
    BY <2>0, <2>1 DEF Responsible
  <2>2. CASE Replaced(p)
    <3>1. PICK c \in Requests : call'[c].pc = "replace" /\ call'[c].row = p
      BY <2>2 DEF Replaced
    <3>2. SessionOf[row'[call'[c].row].run] = s
      BY <2>0, <3>1 DEF SessionOfRow
    <3>3. QED
      BY <3>1, <3>2 DEF Responsible, SessionOfRow
  <2>3. CASE Retired(p)
    <3>1. Len(retiring'[s]) # 0
      BY <1>2, <2>3 DEF Retired
    <3>2. QED
      BY <3>1 DEF Responsible
  <2>4. QED
    BY <1>2, <2>1, <2>2, <2>3 DEF Carries, RowsMove, RegistryCarry
<1>3. CASE Len(retiring[s]) # 0
  <2>1. Len(retiring'[s]) # 0 \/ Finishes(s)
    BY <1>3 DEF Carries, OperationsCarry
  <2>2. QED
    BY <2>1, FinishedResponds DEF Responsible
<1>4. ASSUME NEW c \in Requests, call[c].pc = "replace", SessionOfRow(call[c].row) = s
      PROVE  Responsible(s)'
  <2>0. call[c].row \in Rows
    BY <1>0, <1>4, CallOf
  <2>1. CASE call'[c] = call[c]
    <3>1. SessionOf[row'[call'[c].row].run] = s
      BY <1>0, <1>4, <2>0, <2>1, SessionStays
    <3>2. QED
      BY <1>4, <2>1, <3>1 DEF Responsible, SessionOfRow
  <2>2. CASE StartReplace(c)
    <3>1. call'[c].pc = "create" /\ call'[c].run = call[c].run /\ row[call[c].row].run = call[c].run
      BY <1>0, <2>2, StartReplaceCall
    <3>2. SessionOf[call'[c].run] = s
      BY <1>4, <3>1 DEF SessionOfRow
    <3>3. QED
      BY <3>1, <3>2 DEF Responsible
  <2>3. QED
    BY <1>4, <2>1, <2>2 DEF Carries, CallsCarry
<1>5. ASSUME NEW c \in Requests, call[c].pc = "create", SessionOf[call[c].run] = s
      PROVE  Responsible(s)'
  <2>1. CASE call'[c] = call[c]
    BY <1>5, <2>1 DEF Responsible
  <2>2. CASE StartCreate(c)
    <3> DEFINE p == Len(row) + 1
    <3>1. /\ Len(row') = p /\ p \in 1..MaxPreviews
          /\ row'[p] = [run |-> call[c].run, status |-> "starting"]
      BY <2>2, StartCreateTables
    <3>2. p \in Rows' /\ p \notin Rows
      BY <1>0, <3>1 DEF Rows, RowsOK, RowsTyped
    <3>3. byId'[p] # 0
      BY <3>2 DEF Carries, RowsMove, Rows
    <3>4. SessionOf[row'[p].run] = s
      BY <1>5, <3>1
    <3> HIDE DEF p
    <3>5. QED
      BY <3>2, <3>3, <3>4 DEF Responsible, SessionOfRow
  <2>3. QED
    BY <1>5, <2>1, <2>2 DEF Carries, CallsCarry
<1>6. CASE Waits(s)
  <2>1. Waits(s)' \/ \E id \in Leases : SessionOfLease(id) = s /\ attempt'[id] = "driving"
    BY <1>6 DEF HostCarry
  <2>2. QED
    BY <2>1, AttemptResponds DEF Responsible, AtWork
<1>7. QED
  BY <1>1, <1>2, <1>3, <1>4, <1>5, <1>6 DEF Responsible

LEMMA ContainersKept ==
  ASSUME IInv, [Next]_vars, Fits, StartsAreUnderWay, Carries, HostCarry, ShownIsKept,
         ContainersHaveOwners, crashes' = crashes
  PROVE  ContainersHaveOwners'
<1> SUFFICES ASSUME crashes = 0, NEW s \in Sessions, container'[s], ~(left'[s] # "none")
             PROVE  Responsible(s)'
  BY DEF ContainersHaveOwners
<1>1. CASE container[s]
  <2>1. left[s] = "none"
    BY DEF HostCarry
  <2>2. Responsible(s)
    BY <1>1, <2>1 DEF ContainersHaveOwners
  <2>3. QED
    BY <2>2, ResponsibleStays
<1>2. ASSUME NEW id \in Leases, SessionOfLease(id) = s, attempt'[id] = "driving" PROVE Responsible(s)'
  BY <1>2, AttemptResponds DEF AtWork
<1>3. QED
  BY <1>1, <1>2 DEF HostCarry

-----------------------------------------------------------------------------
(* Numbers and ranks *)

\* The elements of a finite set can be numbered, and every number is of one of them.
LEMMA Numbering ==
  ASSUME NEW S, IsFiniteSet(S), NEW f,
         f = CHOOSE g \in [S -> 1..Cardinality(S)] : \A p, q \in S : g[p] = g[q] => p = q
  PROVE  /\ Cardinality(S) \in Nat /\ f \in [S -> 1..Cardinality(S)]
         /\ \A p, q \in S : f[p] = f[q] => p = q
         /\ \A k \in 1..Cardinality(S) : \E p \in S : f[p] = k
<1> DEFINE n == Cardinality(S)
<1>1. n \in Nat
  BY FS_CardinalityType
<1>2. IsFiniteSet(1..n) /\ Cardinality(1..n) = n
  <2>1. 1 \in Int /\ n \in Int
    BY <1>1
  <2>2. IsFiniteSet(1..n) /\ Cardinality(1..n) = IF 1 > n THEN 0 ELSE n - 1 + 1
    BY <2>1, FS_Interval
  <2> HIDE DEF n
  <2>3. QED
    BY <1>1, <2>2
<1>3. ExistsBijection(S, 1..n)
  BY <1>2, FS_SameCardinalityBij
<1>4. PICK g \in Bijection(S, 1..n) : TRUE
  BY <1>3, Fun_ExistsBij
<1>5. g \in [S -> 1..n] /\ \A p, q \in S : g[p] = g[q] => p = q
  BY <1>4, Fun_BijectionProperties
<1>6. f \in [S -> 1..n] /\ \A p, q \in S : f[p] = f[q] => p = q
  BY <1>5
<1>7. f \in Injection(S, 1..n)
  BY <1>6, Fun_IsInj
<1>8. f \in Surjection(S, 1..n)
  <2>1. Cardinality(S) = Cardinality(1..n) <=> f \in Surjection(S, 1..n)
    BY ONLY <1>2, <1>7, FS_Injection
  <2>2. Cardinality(S) = Cardinality(1..n)
    BY <1>2
  <2>3. QED
    BY <2>1, <2>2
<1>9. \A k \in 1..n : \E p \in S : f[p] = k
  BY ONLY <1>8, Fun_SurjectionProperties
<1>10. QED
  BY <1>1, <1>6, <1>9

\* Every position is the rank of an element.
LEMMA Ranks ==
  ASSUME NEW n \in Nat, NEW U, U \subseteq 1..n
  PROVE  /\ IsFiniteSet(U) /\ Cardinality(U) \in Nat
         /\ \A i \in 1..Cardinality(U) : \E p \in U : Cardinality({q \in U : q <= p}) = i
<1> DEFINE upTo(p) == {q \in U : q <= p}
           m == Cardinality(U)
           f == [p \in U |-> Cardinality(upTo(p))]
<1>0. \A p \in U : p \in Int
  OBVIOUS
<1>1. IsFiniteSet(U) /\ m \in Nat
  <2>1. 1 \in Int /\ n \in Int
    OBVIOUS
  <2>2. IsFiniteSet(1..n)
    BY <2>1, FS_Interval
  <2>3. IsFiniteSet(U)
    BY <2>2, FS_Subset
  <2>4. QED
    BY <2>3, FS_CardinalityType
<1>2. ASSUME NEW p \in U
      PROVE  IsFiniteSet(upTo(p)) /\ Cardinality(upTo(p)) \in 1..m
  <2>1. upTo(p) \in SUBSET U /\ p \in upTo(p)
    BY <1>0
  <2>2. IsFiniteSet(upTo(p)) /\ Cardinality(upTo(p)) <= m
    BY <1>1, <2>1, FS_Subset
  <2>3. Cardinality(upTo(p)) \in Nat /\ Cardinality(upTo(p)) # 0
    BY <2>1, <2>2, FS_CardinalityType, FS_EmptySet
  <2> HIDE DEF upTo, m
  <2>4. QED
    BY <1>1, <2>2, <2>3
<1>3. ASSUME NEW p \in U, NEW q \in U, p < q PROVE Cardinality(upTo(p)) # Cardinality(upTo(q))
  <2>0. (\A r \in U : r <= p => r <= q) /\ ~(q <= p) /\ q <= q
    BY <1>0, <1>3
  <2>1. upTo(p) \in SUBSET upTo(q) /\ q \in upTo(q) /\ q \notin upTo(p)
    BY <2>0
  <2>2. Cardinality(upTo(q)) = Cardinality(upTo(p)) => upTo(q) = upTo(p)
    BY <1>2, <2>1, FS_Subset
  <2>3. QED
    BY <2>1, <2>2
<1>4. f \in [U -> 1..m]
  <2> HIDE DEF upTo, m
  <2>1. QED
    BY <1>2
<1>5. ASSUME NEW p \in U, NEW q \in U, f[p] = f[q] PROVE p = q
  <2>1. p < q \/ q < p \/ p = q
    BY <1>0
  <2>2. Cardinality(upTo(p)) = Cardinality(upTo(q))
    BY <1>5
  <2> HIDE DEF upTo, f
  <2>3. QED
    BY <1>3, <2>1, <2>2
<1>6. IsFiniteSet(1..m) /\ Cardinality(1..m) = m
  <2>1. 1 \in Int /\ m \in Int
    BY <1>1
  <2>2. IsFiniteSet(1..m) /\ Cardinality(1..m) = IF 1 > m THEN 0 ELSE m - 1 + 1
    BY <2>1, FS_Interval
  <2> HIDE DEF m
  <2>3. QED
    BY <1>1, <2>2
<1> HIDE DEF f
<1>7. f \in Injection(U, 1..m)
  BY <1>4, <1>5, Fun_IsInj
<1>8. f \in Surjection(U, 1..m)
  BY <1>6, <1>7, FS_Injection
<1>9. \A i \in 1..m : \E p \in U : f[p] = i
  BY <1>8, Fun_SurjectionProperties
<1>10. \A i \in 1..m : \E p \in U : Cardinality(upTo(p)) = i
  BY <1>9 DEF f
<1>11. QED
  BY <1>1, <1>10

-----------------------------------------------------------------------------
(* The end of the process *)

LEMMA CrashFits ==
  ASSUME Fits, Crash
  PROVE  /\ Fits' /\ crashes' # 0 /\ UNCHANGED <<row, writes, overlapped>>
         /\ byId' = [p \in 1..MaxPreviews |-> 0] /\ \A c \in Requests : call'[c] = Idle
         /\ \A s \in Sessions : Len(retiring'[s]) = 0
<1>0. RowsOK /\ UpdatesOK /\ HostOK /\ ServiceFits
  BY DEF Fits
<1>1. /\ rec' = <<>> /\ byId' = [p \in 1..MaxPreviews |-> 0] /\ call' = [c \in Requests |-> Idle]
      /\ expired' = {} /\ retiring' = [s \in Sessions |-> <<>>] /\ crashes' = crashes + 1
      /\ service' = "down"
      /\ UNCHANGED <<row, writes, container, attempt, left, overlapped>>
  BY DEF Crash, hostVars
<1>2. rec' \in Seq(Record) /\ Len(rec') = 0 /\ 0 <= MaxRecords
  BY <1>1, PreviewBoundsAreNatural
<1>3. RowsOK'
  BY <1>0, <1>1 DEF RowsOK, RowsTyped
<1>4. RecordsOK'
  <2>1. RecordsTyped(row', rec')
    BY <1>2 DEF RecordsTyped
  <2>2. RegistryTyped(rec', byId')
    BY <1>1, <1>2 DEF RegistryTyped
  <2>3. QED
    BY <2>1, <2>2 DEF RecordsOK
<1>5. \A c \in Requests : call'[c] = Idle
  BY <1>1
<1>6. CallsOK'
  <2>1. Idle \in Call
    BY DEF Idle, Call
  <2>2. call' \in [Requests -> Call]
    BY <1>1, <2>1
  <2>3. QED
    BY <1>5, <2>2, IdleFits DEF CallsOK
<1>7. UpdatesOK'
  BY <1>0, <1>1 DEF UpdatesOK, Rows
<1>8. \A s \in Sessions : retiring'[s] = <<>>
  BY <1>1
<1>9. RetirementsOK'
  BY <1>1 DEF RetirementsOK
<1>10. HostOK'
  BY <1>0, <1>1 DEF HostOK
<1>11. ServiceFits' /\ crashes' # 0
  BY <1>0, <1>1, <1>5 DEF ServiceFits
<1>12. QED
  BY <1>1, <1>3, <1>4, <1>5, <1>6, <1>7, <1>8, <1>9, <1>10, <1>11 DEF Fits

\* Without records and calls, only an update under way can still show a preview.
LEMMA OnlyUpdatesExpose ==
  ASSUME NEW p, byId'[p] = 0, \A c \in Requests : call'[c] = Idle, writes' = writes, Exposed(p)'
  PROVE  Exposed(p)
<1>1. \A c \in Requests : call'[c].pc = "idle"
  BY DEF Idle
<1>2. \E w \in writes : w.row = p /\ w.status = "ready"
  BY <1>1 DEF Exposed
<1>3. QED
  BY <1>2 DEF Exposed

LEMMA SameGrants == ASSUME GrantedRunsStarted, UNCHANGED vars PROVE GrantedRunsStarted'
BY DEF GrantedRunsStarted, vars

LEMMA CrashKeeps == ASSUME PreviewInv, Crash PROVE PreviewInv'
<1>0. Fits /\ ExposedIsOverlapped
  BY DEF PreviewInv
<1>1. /\ Fits' /\ crashes' # 0 /\ UNCHANGED <<row, writes, overlapped>>
      /\ byId' = [p \in 1..MaxPreviews |-> 0] /\ \A c \in Requests : call'[c] = Idle
      /\ \A s \in Sessions : Len(retiring'[s]) = 0
  BY <1>0, CrashFits
<1>2. GrantedRunsStarted' /\ AttemptsFit'
  <2>1. UNCHANGED <<vars, attempt>>
    BY DEF Crash, hostVars
  <2>2. QED
    BY <2>1, SameStore, SameGrants DEF PreviewInv
<1>3. StartsAreUnderWay'
  BY <1>1 DEF StartsAreUnderWay
<1>4. ExposedIsOverlapped'
  <2> SUFFICES ASSUME NEW p \in Rows', row'[p].status = "stopped", Exposed(p)' PROVE p \in overlapped'
    BY DEF ExposedIsOverlapped
  <2>1. p \in Rows /\ row[p].status = "stopped"
    BY <1>1 DEF Rows
  <2>2. byId'[p] = 0
    BY <1>0, <1>1, <2>1, RowOf DEF Fits
  <2>3. Exposed(p)
    BY <1>1, <2>2, OnlyUpdatesExpose
  <2>4. QED
    BY <1>0, <1>1, <2>1, <2>3 DEF ExposedIsOverlapped
<1>5. ShownIsKept' /\ ContainersHaveOwners'
  BY <1>1 DEF ShownIsKept, ContainersHaveOwners
<1>6. QED
  BY <1>1, <1>2, <1>3, <1>4, <1>5 DEF PreviewInv

-----------------------------------------------------------------------------
(* The recovery *)

ActiveNow == {p \in Rows : row[p].status \in Live}
Numbered == CHOOSE f \in [ActiveNow -> 1..Cardinality(ActiveNow)] : \A p, q \in ActiveNow : f[p] = f[q] => p = q
RowNo(k) == CHOOSE p \in ActiveNow : Numbered[p] = k
Found(how, p) ==
    NewRecord(p, IF how[p] = "starting" THEN "starting" ELSE "ready", container[SessionOfRow(p)])
RecordFound(how, p) == IF how[p] = "starting" THEN Launched(Found(how, p)) ELSE Ended(Found(how, p))
Mine(how, s) == {p \in ActiveNow : how[p] = "retired" /\ SessionOfRow(p) = s}
Ranked(how, s, i) == CHOOSE p \in Mine(how, s) : Cardinality({q \in Mine(how, s) : q <= p}) = i
RecoversAs(how) ==
    /\ row' = [p \in Rows |-> IF p \in ActiveNow /\ how[p] = "failed"
                              THEN [row[p] EXCEPT !.status = "failed"] ELSE row[p]]
    /\ rec' = [k \in 1..Cardinality(ActiveNow) |-> RecordFound(how, RowNo(k))]
    /\ byId' = [p \in 1..MaxPreviews |->
                   IF p \in ActiveNow /\ how[p] \in Live THEN Numbered[p] ELSE 0]
    /\ retiring' = [s \in Sessions |-> [i \in 1..Cardinality(Mine(how, s)) |->
                       Operation(Numbered[Ranked(how, s, i)], "recovery")]]

LEMMA RecoverCases ==
  ASSUME Recover
  PROVE  /\ service = "down" /\ service' = "recovering" /\ Cardinality(ActiveNow) <= MaxRecords
         /\ UNCHANGED <<call, writes, expired, container, attempt, left, crashes, overlapped>>
         /\ \E how \in [ActiveNow -> Recoveries] : RecoversAs(how)
<1>1. /\ service = "down" /\ service' = "recovering" /\ Cardinality(ActiveNow) <= MaxRecords
      /\ UNCHANGED <<call, writes, expired, container, attempt, left, crashes, overlapped>>
  BY DEF Recover, ActiveNow, hostVars, historyVars
<1>2. \E how \in [ActiveNow -> Recoveries] : RecoversAs(how)
  BY DEF Recover, RecoversAs, ActiveNow, Numbered, RowNo, Found, RecordFound, Mine, Ranked
<1>3. QED
  BY <1>1, <1>2

\* Every active row has its number, and every number its row.
LEMMA NumbersFit ==
  ASSUME RowsOK
  PROVE  /\ Cardinality(ActiveNow) \in Nat /\ Numbered \in [ActiveNow -> 1..Cardinality(ActiveNow)]
         /\ \A p \in ActiveNow : RowNo(Numbered[p]) = p
         /\ \A k \in 1..Cardinality(ActiveNow) : RowNo(k) \in ActiveNow /\ Numbered[RowNo(k)] = k
<1>1. ActiveNow \subseteq 1..Len(row) /\ Len(row) \in Nat
  BY DEF ActiveNow, Rows, RowsOK, RowsTyped
<1>2. IsFiniteSet(ActiveNow)
  BY <1>1, Ranks
<1>3. Numbered = CHOOSE f \in [ActiveNow -> 1..Cardinality(ActiveNow)] : \A p, q \in ActiveNow : f[p] = f[q] => p = q
  BY DEF Numbered
<1>4. /\ Cardinality(ActiveNow) \in Nat /\ Numbered \in [ActiveNow -> 1..Cardinality(ActiveNow)]
      /\ \A p, q \in ActiveNow : Numbered[p] = Numbered[q] => p = q
      /\ \A k \in 1..Cardinality(ActiveNow) : \E p \in ActiveNow : Numbered[p] = k
  BY <1>2, <1>3, Numbering
<1>5. ASSUME NEW k \in 1..Cardinality(ActiveNow) PROVE RowNo(k) \in ActiveNow /\ Numbered[RowNo(k)] = k
  BY <1>4 DEF RowNo
<1>6. ASSUME NEW p \in ActiveNow PROVE RowNo(Numbered[p]) = p
  BY <1>4, <1>5
<1>7. QED
  BY <1>4, <1>5, <1>6

LEMMA FoundFits ==
  ASSUME RowsOK, HostOK, NEW how, NEW p \in Rows
  PROVE  /\ RecordFound(how, p) \in Record /\ RecordFound(how, p).row = p
         /\ RecordFound(how, p).status = "starting" => RecordFound(how, p).begin # "over"
<1> DEFINE st == IF how[p] = "starting" THEN "starting" ELSE "ready"
<1>1. st \in PreviewStatus /\ p \in Nat /\ container[SessionOfRow(p)] \in BOOLEAN
  BY RowOf, ContainerOf DEF PreviewStatus
<1>2. Found(how, p) = NewRecord(p, st, container[SessionOfRow(p)])
  BY DEF Found
<1> HIDE DEF st
<1>3. Found(how, p) \in Record /\ Found(how, p).row = p /\ Found(how, p).status = st
  BY <1>1, <1>2, NewRecordFits
<1>4. CASE how[p] = "starting"
  <2>1. RecordFound(how, p) = Launched(Found(how, p))
    BY <1>4 DEF RecordFound
  <2>2. QED
    BY <1>3, <2>1, LaunchedFits
<1>5. CASE how[p] # "starting"
  <2>1. RecordFound(how, p) = Ended(Found(how, p)) /\ st = "ready"
    BY <1>5 DEF RecordFound, st
  <2>2. QED
    BY <1>3, <2>1, EndedFits
<1>6. QED
  BY <1>4, <1>5

\* What is to be retired of a session is queued by its rank.
LEMMA RankedIsMine ==
  ASSUME RowsOK, NEW how, NEW s, NEW i \in 1..Cardinality(Mine(how, s))
  PROVE  Ranked(how, s, i) \in Mine(how, s)
<1>1. Mine(how, s) \subseteq 1..Len(row) /\ Len(row) \in Nat
  BY DEF Mine, ActiveNow, Rows, RowsOK, RowsTyped
<1>2. \A j \in 1..Cardinality(Mine(how, s)) :
         \E p \in Mine(how, s) : Cardinality({q \in Mine(how, s) : q <= p}) = j
  BY ONLY <1>1, Ranks
<1>3. QED
  BY <1>2 DEF Ranked

LEMMA RecoveredRows ==
  ASSUME RowsOK, NEW how, RecoversAs(how)
  PROVE  /\ RowsTyped(row') /\ Len(row') = Len(row)
         /\ \A p \in Rows : row'[p].run = row[p].run
         /\ \A p \in Rows : row'[p].status = "stopped" => p \notin ActiveNow /\ row[p].status = "stopped"
<1>1. row \in Seq(Row) /\ Len(row) \in Nat /\ Len(row) <= MaxPreviews /\ Rows = 1..Len(row)
  BY DEF RowsOK, RowsTyped, Rows
<1> DEFINE new(p) == IF p \in ActiveNow /\ how[p] = "failed" THEN [row[p] EXCEPT !.status = "failed"] ELSE row[p]
<1>2. row' = [p \in 1..Len(row) |-> new(p)]
  BY <1>1 DEF RecoversAs
<1>3. ASSUME NEW p \in Rows
      PROVE  /\ new(p) \in Row /\ new(p).run = row[p].run
             /\ new(p).status = "stopped" => p \notin ActiveNow /\ row[p].status = "stopped"
  <2>1. row[p] \in Row
    BY <1>3, RowOf
  <2>2. /\ [row[p] EXCEPT !.status = "failed"] \in Row
        /\ [row[p] EXCEPT !.status = "failed"].run = row[p].run
        /\ [row[p] EXCEPT !.status = "failed"].status = "failed"
    BY <2>1 DEF Row, PreviewStatus
  <2>3. row[p].status = "stopped" => p \notin ActiveNow
    BY DEF ActiveNow, Live
  <2>4. CASE p \in ActiveNow /\ how[p] = "failed"
    BY <2>2, <2>4
  <2>5. CASE ~(p \in ActiveNow /\ how[p] = "failed")
    BY <2>1, <2>3, <2>5
  <2>6. QED
    BY <2>4, <2>5
<1> HIDE DEF new
<1>4. row' \in Seq(Row) /\ Len(row') = Len(row) /\ \A p \in 1..Len(row) : row'[p] = new(p)
  BY <1>1, <1>2, <1>3
<1>5. QED
  BY <1>1, <1>3, <1>4 DEF RowsTyped

LEMMA RecoverFits ==
  ASSUME Fits, Recover
  PROVE  /\ Fits' /\ StartsAreUnderWay' /\ crashes' # 0
         /\ UNCHANGED <<writes, overlapped>> /\ \A c \in Requests : call'[c] = Idle
         /\ \A p \in Rows' : row'[p].status = "stopped" =>
               p \in Rows /\ row[p].status = "stopped" /\ byId'[p] = 0
<1>0. /\ RowsOK /\ RecordsOK /\ CallsOK /\ UpdatesOK /\ RetirementsOK /\ HostOK /\ ServiceFits
      /\ Len(row) \in Nat
  BY DEF Fits, RowsOK, RowsTyped
<1>1. /\ service = "down" /\ service' = "recovering" /\ Cardinality(ActiveNow) <= MaxRecords
      /\ UNCHANGED <<call, writes, expired, container, attempt, left, crashes, overlapped>>
  BY RecoverCases
<1>2. PICK how \in [ActiveNow -> Recoveries] : RecoversAs(how)
  BY RecoverCases
<1> DEFINE n == Cardinality(ActiveNow)
<1>3. /\ n \in Nat /\ Numbered \in [ActiveNow -> 1..n]
      /\ \A p \in ActiveNow : RowNo(Numbered[p]) = p
      /\ \A k \in 1..n : RowNo(k) \in ActiveNow
  BY <1>0, NumbersFit
<1>4. /\ RowsTyped(row') /\ Len(row') = Len(row)
      /\ \A p \in Rows : row'[p].run = row[p].run
      /\ \A p \in Rows : row'[p].status = "stopped" => p \notin ActiveNow /\ row[p].status = "stopped"
  BY <1>0, <1>2, RecoveredRows
<1>5. /\ rec' = [k \in 1..n |-> RecordFound(how, RowNo(k))]
      /\ byId' = [p \in 1..MaxPreviews |-> IF p \in ActiveNow /\ how[p] \in Live THEN Numbered[p] ELSE 0]
      /\ retiring' = [s \in Sessions |-> [i \in 1..Cardinality(Mine(how, s)) |->
                         Operation(Numbered[Ranked(how, s, i)], "recovery")]]
  BY <1>2 DEF RecoversAs
<1> HIDE DEF n
<1>6. \A p \in ActiveNow : p \in Rows /\ p \in 1..MaxPreviews
  BY <1>0, RowOf DEF ActiveNow
<1>7. \A p \in ActiveNow :
         /\ RecordFound(how, p) \in Record /\ RecordFound(how, p).row = p
         /\ RecordFound(how, p).status = "starting" => RecordFound(how, p).begin # "over"
  BY <1>0, <1>6, FoundFits
<1>8. rec' \in Seq(Record) /\ Len(rec') = n /\ \A k \in 1..n : rec'[k] = RecordFound(how, RowNo(k))
  BY <1>3, <1>5, <1>7
<1>9. \A p \in ActiveNow : Numbered[p] \in 1..n /\ rec'[Numbered[p]] = RecordFound(how, p)
  BY <1>3, <1>8
<1>10. RowsOK'
  BY <1>4 DEF RowsOK
<1>11. RecordsOK'
  <2>1. ASSUME NEW k \in 1..Len(rec') PROVE rec'[k].row \in 1..Len(row')
    <3>1. rec'[k].row = RowNo(k) /\ RowNo(k) \in Rows
      BY <1>3, <1>6, <1>7, <1>8
    <3>2. QED
      BY <1>4, <3>1 DEF Rows
  <2>2. RecordsTyped(row', rec')
    BY <1>1, <1>8, <2>1 DEF RecordsTyped, n
  <2>3. byId' \in [1..MaxPreviews -> 0..Len(rec')]
    <3>1. \A k \in 1..n : k \in 0..Len(rec')
      BY <1>3, <1>8
    <3>2. 0 \in 0..Len(rec')
      BY <1>3, <1>8
    <3>3. QED
      BY <1>5, <1>9, <3>1, <3>2
  <2>4. ASSUME NEW p \in 1..MaxPreviews, byId'[p] # 0 PROVE rec'[byId'[p]].row = p
    <3>1. p \in ActiveNow /\ byId'[p] = Numbered[p]
      BY <1>5, <2>4
    <3>2. QED
      BY <1>7, <1>9, <3>1
  <2>5. QED
    BY <2>2, <2>3, <2>4 DEF RecordsOK, RegistryTyped
<1>12. \A c \in Requests : call'[c] = Idle
  BY <1>0, <1>1 DEF ServiceFits
<1>13. CallsOK'
  BY <1>0, <1>1, <1>12, IdleFits DEF CallsOK
<1>14. UpdatesOK'
  BY <1>0, <1>1, <1>4 DEF UpdatesOK, WriteFits, Rows
<1>15. ASSUME NEW s \in Sessions, NEW i \in 1..Cardinality(Mine(how, s))
       PROVE  /\ Operation(Numbered[Ranked(how, s, i)], "recovery") \in Retirement
              /\ Operation(Numbered[Ranked(how, s, i)], "recovery").pc = "queued"
              /\ OperationFits(row', rec', s, Operation(Numbered[Ranked(how, s, i)], "recovery"))
  <2> DEFINE p == Ranked(how, s, i)
             k == Numbered[p]
  <2>1. p \in ActiveNow /\ SessionOfRow(p) = s
    BY <1>0, RankedIsMine DEF Mine
  <2>2. k \in 1..n /\ k \in Nat /\ rec'[k].row = p /\ p \in Rows
    BY <1>3, <1>6, <1>7, <1>9, <2>1
  <2>3. SessionOf[row'[rec'[k].row].run] = s
    BY <1>4, <2>1, <2>2 DEF SessionOfRow
  <2> HIDE DEF p, k
  <2>4. Operation(k, "recovery") \in Retirement /\ Operation(k, "recovery").rec = k /\ Operation(k, "recovery").pc = "queued"
    BY <2>2, NewOperation
  <2>5. OperationFits(row', rec', s, Operation(k, "recovery"))
    BY <1>8, <2>2, <2>3, <2>4 DEF OperationFits
  <2>6. QED
    BY <2>4, <2>5 DEF p, k
<1>16. ASSUME NEW s \in Sessions
       PROVE  /\ retiring'[s] \in Seq(Retirement) /\ Len(retiring'[s]) = Cardinality(Mine(how, s))
              /\ \A i \in 1..Cardinality(Mine(how, s)) :
                    retiring'[s][i] = Operation(Numbered[Ranked(how, s, i)], "recovery")
  <2> DEFINE m == Cardinality(Mine(how, s))
             op(i) == Operation(Numbered[Ranked(how, s, i)], "recovery")
  <2>1. m \in Nat
    <3>1. Mine(how, s) \subseteq 1..Len(row)
      BY DEF Mine, ActiveNow, Rows
    <3>2. QED
      BY <1>0, <3>1, Ranks
  <2>2. retiring'[s] = [i \in 1..m |-> op(i)] /\ \A i \in 1..m : op(i) \in Retirement
    BY <1>5, <1>15
  <2> HIDE DEF m, op
  <2>3. retiring'[s] \in Seq(Retirement) /\ Len(retiring'[s]) = m /\ \A i \in 1..m : retiring'[s][i] = op(i)
    BY <2>1, <2>2
  <2>4. QED
    BY <2>3 DEF m, op
<1>17. RetirementsOK'
  <2>1. retiring' \in [Sessions -> Seq(Retirement)]
    BY <1>5, <1>16
  <2>2. QED
    BY <1>15, <1>16, <2>1 DEF RetirementsOK
<1>19. HostOK'
  BY <1>0, <1>1 DEF HostOK
<1>20. ServiceFits' /\ crashes' # 0
  BY <1>0, <1>1, <1>12 DEF ServiceFits
<1>21. StartsAreUnderWay'
  <2> SUFFICES ASSUME NEW p \in 1..MaxPreviews, byId'[p] # 0, rec'[byId'[p]].status = "starting"
               PROVE  rec'[byId'[p]].begin # "over"
    BY DEF StartsAreUnderWay
  <2>1. p \in ActiveNow /\ byId'[p] = Numbered[p]
    BY <1>5
  <2>2. QED
    BY <1>7, <1>9, <2>1
<1>22. ASSUME NEW p \in Rows', row'[p].status = "stopped"
       PROVE  p \in Rows /\ row[p].status = "stopped" /\ byId'[p] = 0
  <2>1. p \in Rows
    BY <1>4 DEF Rows
  <2>2. p \notin ActiveNow /\ row[p].status = "stopped" /\ p \in 1..MaxPreviews
    BY <1>0, <1>4, <1>22, <2>1, RowOf
  <2>3. QED
    BY <1>5, <2>1, <2>2
<1>23. QED
  BY <1>1, <1>10, <1>11, <1>12, <1>13, <1>14, <1>17, <1>19, <1>20, <1>21, <1>22 DEF Fits

LEMMA RecoverKeeps == ASSUME PreviewInv, Recover PROVE PreviewInv'
<1>0. Fits /\ ExposedIsOverlapped
  BY DEF PreviewInv
<1>1. /\ Fits' /\ StartsAreUnderWay' /\ crashes' # 0
      /\ UNCHANGED <<writes, overlapped>> /\ \A c \in Requests : call'[c] = Idle
      /\ \A p \in Rows' : row'[p].status = "stopped" =>
            p \in Rows /\ row[p].status = "stopped" /\ byId'[p] = 0
  BY <1>0, RecoverFits
<1>2. ExposedIsOverlapped'
  <2> SUFFICES ASSUME NEW p \in Rows', row'[p].status = "stopped", Exposed(p)' PROVE p \in overlapped'
    BY DEF ExposedIsOverlapped
  <2>1. p \in Rows /\ row[p].status = "stopped" /\ byId'[p] = 0
    BY <1>1
  <2>2. Exposed(p)
    BY <1>1, <2>1, OnlyUpdatesExpose
  <2>3. QED
    BY <1>0, <1>1, <2>1, <2>2 DEF ExposedIsOverlapped
<1>3. ShownIsKept' /\ ContainersHaveOwners'
  BY <1>1 DEF ShownIsKept, ContainersHaveOwners
<1>4. GrantedRunsStarted' /\ AttemptsFit'
  <2>1. UNCHANGED <<vars, attempt>>
    BY DEF Recover, hostVars
  <2>2. QED
    BY <2>1, SameStore, SameGrants DEF PreviewInv
<1>5. QED
  BY <1>1, <1>2, <1>3, <1>4 DEF PreviewInv

\* A recovery that a rejected check ends: what it had registered is forgotten.
LEMMA RecoveryRejectedKeeps ==
  ASSUME PreviewInv, NEW s \in Sessions, NEW i \in DOMAIN retiring[s], RecoveryRejected(s, i)
  PROVE  PreviewInv'
<1>0. Fits /\ ExposedIsOverlapped /\ StartsAreUnderWay
      /\ RowsOK /\ RecordsOK /\ CallsOK /\ UpdatesOK /\ RetirementsOK /\ HostOK /\ ServiceFits
  BY DEF PreviewInv, Fits
<1>1. /\ UNCHANGED <<vars, row, rec, call, writes, expired, container, attempt, crashes, overlapped>>
      /\ retiring' = [retiring EXCEPT ![s] = Without(@, i)] /\ left' = [left EXCEPT ![s] = "check"]
      /\ byId' = [p \in 1..MaxPreviews |-> 0] /\ service = "recovering" /\ service' = "up"
      /\ \E pc \in {"stopped", "idle"} : At(s, i, pc)
  BY DEF RecoveryRejected, Rejected, Because, hostVars
<1>2. i = 1 /\ retiring[s] # <<>> /\ Len(retiring[s]) # 0
  BY <1>0, <1>1, FirstInTurn DEF RetirementsOK
<1>3. crashes # 0 /\ expired = {} /\ \A c \in Requests : call'[c] = Idle
  BY <1>0, <1>1 DEF ServiceFits
<1>4. RetirementsOK'
  <2>0. retiring \in [Sessions -> Seq(Retirement)] /\ Len(retiring[s]) \in Nat
    BY <1>0 DEF RetirementsOK
  <2> DEFINE rest == Without(retiring[s], 1)
  <2>1. /\ rest \in Seq(Retirement) /\ Len(rest) = Len(retiring[s]) - 1
        /\ \A j \in 1..Len(retiring[s]) - 1 : rest[j] = retiring[s][j + 1]
    BY <1>2, <2>0, FirstGone
  <2>2. retiring' = [retiring EXCEPT ![s] = rest]
    BY <1>1, <1>2
  <2> HIDE DEF rest
  <2>3. retiring' \in [Sessions -> Seq(Retirement)]
    BY <2>0, <2>1, <2>2
  <2>4. ASSUME NEW t \in Sessions, NEW j \in 1..Len(retiring'[t])
        PROVE  OperationFits(row', rec', t, retiring'[t][j])
    <3>1. CASE t # s
      BY <1>0, <1>1, <2>0, <2>2, <3>1 DEF RetirementsOK
    <3>2. CASE t = s
      <4>1. j + 1 \in 1..Len(retiring[s]) /\ retiring'[s][j] = retiring[s][j + 1]
        BY <2>0, <2>1, <2>2, <3>2
      <4>2. QED
        BY <1>0, <1>1, <3>2, <4>1 DEF RetirementsOK
    <3>3. QED
      BY <3>1, <3>2
  <2>5. QED
    BY <2>3, <2>4 DEF RetirementsOK
<1>5. RecordsOK'
  <2>1. RegistryTyped(rec', byId')
    BY <1>0, <1>1 DEF RecordsOK, RecordsTyped, RegistryTyped
  <2>2. QED
    BY <1>0, <1>1, <2>1 DEF RecordsOK
<1>6. HostOK'
  BY <1>0, <1>1 DEF HostOK, Reason
<1>7. ServiceFits' /\ RowsOK' /\ CallsOK' /\ UpdatesOK'
  BY <1>0, <1>1, <1>3 DEF ServiceFits, RowsOK, CallsOK, UpdatesOK, Rows
<1>8. ExposedIsOverlapped'
  <2> SUFFICES ASSUME NEW p \in Rows', row'[p].status = "stopped", Exposed(p)' PROVE p \in overlapped'
    BY DEF ExposedIsOverlapped
  <2>1. p \in Rows /\ row[p].status = "stopped"
    BY <1>1 DEF Rows
  <2>2. byId'[p] = 0
    BY <1>0, <1>1, <2>1, RowOf
  <2>3. Exposed(p)
    BY <1>1, <1>3, <2>2, OnlyUpdatesExpose
  <2>4. QED
    BY <1>0, <1>1, <2>1, <2>3 DEF ExposedIsOverlapped
<1>9. StartsAreUnderWay' /\ ShownIsKept' /\ ContainersHaveOwners'
  BY <1>1, <1>3 DEF StartsAreUnderWay, ShownIsKept, ContainersHaveOwners
<1>10. GrantedRunsStarted' /\ AttemptsFit'
  BY <1>1, SameStore, SameGrants DEF PreviewInv
<1>11. QED
  BY <1>4, <1>5, <1>6, <1>7, <1>8, <1>9, <1>10 DEF PreviewInv, Fits

-----------------------------------------------------------------------------
(* The invariant, and what follows from it *)

LEMMA ServesCarries ==
  ASSUME PreviewInv, Serves PROVE Carries /\ CallsOK' /\ CallsMove /\ expired' \subseteq Rows
<1>1. Fits /\ StartsAreUnderWay
  BY DEF PreviewInv
<1>2. TablesStep /\ TablesFit
  BY <1>1, TablesMove DEF TablesStep
<1>3. CallsOK' /\ CallsMove
  BY <1>1, <1>2, CallsKept
<1>4. WritesMove /\ RowsMove /\ CallsCarry
  BY <1>1, <1>2, WritesKept, RowsKept, CallsCarried
<1>5. OperationsCarry /\ RegistryCarry /\ expired' \subseteq Rows
  BY <1>1, OperationsCarried, RegistryCarried, ExpiredKept
<1>6. QED
  BY <1>2, <1>3, <1>4, <1>5 DEF Carries

LEMMA ServesKeeps == ASSUME IInv, [Next]_vars, PreviewInv, Serves PROVE PreviewInv'
<1>1. /\ Fits /\ GrantedRunsStarted /\ AttemptsFit /\ StartsAreUnderWay /\ ExposedIsOverlapped
      /\ ShownIsKept /\ ContainersHaveOwners
  BY DEF PreviewInv
<1>2. Carries /\ CallsOK' /\ CallsMove /\ expired' \subseteq Rows
  BY ServesCarries
<1>3. TablesStep /\ TablesFit /\ WritesMove /\ RowsMove
  BY <1>2 DEF Carries, TablesStep
<1>4. OperationsMove
  BY <1>1, OperationsKept
<1>5. ServiceFits' /\ crashes' = crashes
  BY <1>1, ServiceKept
<1>6. Fits'
  <2>1. RowsOK' /\ RecordsOK'
    BY <1>3 DEF TablesFit, RowsOK, RecordsOK
  <2>2. UpdatesOK' /\ RetirementsOK' /\ HostOK'
    BY <1>1, <1>2, <1>3, <1>4, UpdatesKept, RetirementsKept, HostKept
  <2>3. QED
    BY <1>2, <1>5, <2>1, <2>2 DEF Fits
<1>7. StartsAreUnderWay' /\ ExposedIsOverlapped'
  BY <1>1, <1>2, <1>3, StartsKept, ExposedKept
<1>8. ShownIsKept'
  BY <1>1, <1>2, <1>5, ShownKept
<1>9. HostCarry /\ AttemptsFit' /\ GrantedRunsStarted'
  BY <1>1, HostCarried, StepGranted
<1>10. ContainersHaveOwners'
  BY <1>1, <1>2, <1>5, <1>9, ContainersKept
<1>11. QED
  BY <1>6, <1>7, <1>8, <1>9, <1>10 DEF PreviewInv

LEMMA PreviewInitInv == PreviewInit => PreviewInv
<1> SUFFICES ASSUME PreviewInit PROVE PreviewInv
  OBVIOUS
<1>1. /\ row = <<>> /\ rec = <<>> /\ byId = [p \in 1..MaxPreviews |-> 0]
      /\ call = [c \in Requests |-> Idle] /\ writes = {} /\ expired = {}
      /\ retiring = [s \in Sessions |-> <<>>] /\ service = "up"
      /\ container = [s \in Sessions |-> FALSE]
      /\ attempt = [id \in 1..MaxLeases |-> "none"] /\ crashes = 0
      /\ left = [s \in Sessions |-> "none"] /\ grants = <<>>
  BY DEF PreviewInit, Init
<1>2. RowsOK /\ Len(row) = 0 /\ Rows = {}
  BY <1>1, PreviewBoundsAreNatural DEF RowsOK, RowsTyped, Rows
<1>3. RecordsOK
  <2>1. RecordsTyped(row, rec) /\ Len(rec) = 0
    BY <1>1, PreviewBoundsAreNatural DEF RecordsTyped
  <2>2. RegistryTyped(rec, byId)
    BY <1>1, <2>1 DEF RegistryTyped
  <2>3. QED
    BY <2>1, <2>2 DEF RecordsOK
<1>4. CallsOK
  <2>1. Idle \in Call
    BY DEF Idle, Call
  <2>2. QED
    BY <1>1, <2>1, IdleFits DEF CallsOK
<1>5. UpdatesOK /\ HostOK
  BY <1>1 DEF UpdatesOK, HostOK, Attempt, Reason
<1>6. \A s \in Sessions : retiring[s] = <<>>
  BY <1>1
<1>7. RetirementsOK /\ GrantedRunsStarted /\ AttemptsFit
  BY <1>1, <1>6 DEF RetirementsOK, GrantedRunsStarted, AttemptsFit, Leases
<1>8. ServiceFits
  BY <1>1 DEF ServiceFits
<1>9. StartsAreUnderWay
  BY <1>1 DEF StartsAreUnderWay
<1>10. ExposedIsOverlapped /\ ShownIsKept
  BY <1>2 DEF ExposedIsOverlapped, ShownIsKept
<1>11. ContainersHaveOwners
  BY <1>1 DEF ContainersHaveOwners
<1>12. QED
  BY <1>2, <1>3, <1>4, <1>5, <1>7, <1>8, <1>9, <1>10, <1>11 DEF PreviewInv, Fits

LEMMA PreviewStepKeeps == IInv /\ PreviewInv /\ [PreviewNext]_previewVars => PreviewInv'
BY PreviewStepIsStoreStep, StepKinds, ServesKeeps, CrashKeeps, RecoverKeeps, RecoveryRejectedKeeps
DEF RecoveryEnds

\* However calls, sweeps, retirements, runs and ends of the API process interleave, the
\* inductive invariant holds of every state.
THEOREM PreviewInvariance == PreviewSpec => []PreviewInv
<1>1. PreviewSpec => []IInv
  BY StoreInvariance
<1>2. QED
  BY <1>1, PreviewInitInv, PreviewStepKeeps, PTL DEF PreviewSpec

LEMMA PreviewTypes == Fits => PreviewTypeOK
<1> SUFFICES ASSUME Fits PROVE PreviewTypeOK
  OBVIOUS
<1>1. /\ row \in Seq(Row) /\ rec \in Seq(Record)
      /\ Len(rec) \in Nat /\ Len(rec) <= MaxRecords /\ MaxRecords \in Nat
  BY PreviewBoundsAreNatural DEF Fits, RowsOK, RowsTyped, RecordsOK, RecordsTyped
<1>2. /\ byId \in [1..MaxPreviews -> 0..Len(rec)]
      /\ \A p \in 1..MaxPreviews : byId[p] # 0 => rec[byId[p]].row = p
  BY DEF Fits, RecordsOK, RegistryTyped
<1>3. byId \in [1..MaxPreviews -> 0..MaxRecords]
  <2>1. \A k \in 0..Len(rec) : k \in 0..MaxRecords
    BY <1>1
  <2>2. QED
    BY <1>2, <2>1
<1>4. expired \subseteq Nat
  BY RowOf DEF Fits, UpdatesOK
<1>5. QED
  BY <1>1, <1>2, <1>3, <1>4
  DEF PreviewTypeOK, Fits, CallsOK, UpdatesOK, RetirementsOK, HostOK, ServiceFits, Row

\* As long as the API process has not ended: when the last preview of a session is off the
\* table and off the registry, no run of it is pending and nobody is left at work, the
\* session's container is gone, unless its last retirement noted why it stays: a run was
\* pending, a check was rejected or the preview was never attached.
THEOREM LastOwner == PreviewSpec => []LastOwnerReleases
<1>1. IInv /\ PreviewInv => LastOwnerReleases
  <2> SUFFICES ASSUME IInv, PreviewInv PROVE LastOwnerReleases
    OBVIOUS
  <2>1. PreviewTypeOK
    BY PreviewTypes DEF PreviewInv
  <2>2. ASSUME crashes = 0, NEW s \in Sessions,
               \A p \in Rows : SessionOfRow(p) = s =>
                   row[p].status \notin Live /\ byId[p] = 0 /\ p \notin overlapped,
               retiring[s] = <<>>, \A c \in Requests : call[c] = Idle,
               \A r \in Runs : SessionOf[r] = s => ~Unfinished(r),
               \A id \in DOMAIN grants : SessionOfLease(id) = s =>
                   attempt[id] \notin {"driving", "kept", "discarding"},
               container[s], ~(left[s] # "none")
        PROVE  FALSE
    <3>1. Responsible(s)
      BY <2>2 DEF PreviewInv, ContainersHaveOwners
    <3>2. Len(retiring[s]) = 0 /\ \A c \in Requests : call[c].pc = "idle"
      BY <2>2 DEF Idle
    <3>3. ASSUME NEW id \in Leases, SessionOfLease(id) = s, attempt[id] \in AtWork PROVE FALSE
      <4>1. attempt[id] \in Held /\ grants[id].run \in Runs
        BY <3>3, LeaseOf DEF AtWork, Held
      <4>2. lease[grants[id].run].live
        <5>1. HoldsLiveLease(id)
          BY <3>3, <4>1 DEF PreviewInv, AttemptsFit
        <5>2. QED
          BY <5>1 DEF HoldsLiveLease
      <4>3. Unfinished(grants[id].run)
        BY <4>1, <4>2, HeldRunIsActive DEF PreviewInv, Unfinished, Active, Terminal
      <4>4. QED
        BY <2>2, <3>3, <4>1, <4>3 DEF SessionOfLease
    <3>4. ~Waits(s)
      BY <2>2 DEF Waits, WaitsFor
    <3>5. QED
      BY <2>2, <3>1, <3>2, <3>3, <3>4 DEF Responsible
  <2>3. QED
    BY <2>1, <2>2 DEF LastOwnerReleases
<1>2. QED
  BY <1>1, StoreInvariance, PreviewInvariance, PTL

\* A stopped preview becomes active again only for somebody who was at work with it when
\* it was stopped, and whose work was noted then.
THEOREM StoppedPreviewsStay == PreviewSpec => StopStands
<1>1. IInv /\ PreviewInv /\ [PreviewNext]_previewVars =>
         \A p \in Rows : row[p].status = "stopped" /\ row'[p].status \in Live => p \in overlapped
  <2> SUFFICES ASSUME IInv, PreviewInv, [PreviewNext]_previewVars, NEW p \in Rows,
                      row[p].status = "stopped", row'[p].status \in Live
               PROVE  p \in overlapped
    OBVIOUS
  <2>0. Fits
    BY DEF PreviewInv
  <2>1. CASE Serves
    <3>1. RowsMove /\ p \in 1..Len(row')
      BY <2>0, <2>1, ServesCarries, SessionStays DEF Carries, TablesStep
    <3>2. row'[p] # row[p]
      BY DEF Live
    <3>3. PICK st \in PreviewStatus : SetRow(p, st) /\ (st \in Live => Shown(p))
      BY <3>1, <3>2 DEF RowsMove
    <3>4. st \in Live
      BY <2>0, <3>3, SetRowEffect DEF Fits
    <3>5. Exposed(p)
      BY <3>3, <3>4 DEF Shown, Live, Exposed
    <3>6. QED
      BY <3>5 DEF PreviewInv, ExposedIsOverlapped
  <2>2. CASE Crash
    BY <2>2 DEF Crash, Live
  <2>3. CASE Recover
    <3>1. PICK how \in [ActiveNow -> Recoveries] : RecoversAs(how)
      BY <2>3, RecoverCases
    <3>2. p \notin ActiveNow
      BY DEF ActiveNow, Live
    <3>3. row'[p] = row[p]
      BY <3>1, <3>2 DEF RecoversAs
    <3>4. QED
      BY <3>3 DEF Live
  <2>4. CASE RecoveryEnds
    BY <2>4 DEF RecoveryEnds, RecoveryRejected, Rejected, Live
  <2>5. QED
    BY <2>1, <2>2, <2>3, <2>4, StepKinds
<1>2. QED
  BY <1>1, StoreInvariance, PreviewInvariance, PTL DEF PreviewSpec, StopStands
=============================================================================
