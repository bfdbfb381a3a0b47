------------------------------ MODULE Previews ------------------------------
(***************************************************************************)
(* App previews: the API's preview service over the previews table, the    *)
(* one container of a build session, and the worker that owns the          *)
(* container while a run is at work (preview-service.ts, previews.ts, the  *)
(* worker's teardown and its park of an unanswered run).                   *)
(*                                                                         *)
(* The service is one process: what it does between two awaits is one      *)
(* action.  A call is at the await its pc names and holds what it read     *)
(* before it.  Updates sent without waiting commit whenever they do.       *)
(* Fifteen idle minutes may pass between any two steps, an app may stop    *)
(* answering at any time, and the checks of a retirement may be rejected;  *)
(* the other calls of the store and of Docker succeed.  A worker that is   *)
(* alive renews its lease.  Host ports, the relay and the proxied traffic  *)
(* are left out.                                                           *)
(***************************************************************************)
EXTENDS RunStore, FiniteSets

CONSTANTS
    Requests,      \* API calls under way at once
    Ends,          \* bound: the outcomes runs end with
    MaxPreviews,   \* bound: rows of the table
    MaxRecords,    \* bound: record objects one process creates
    MaxAsks,       \* bound: API calls, answers, sweeps and ends of processes together
    MaxCrashes     \* bound: ends of the API process

ASSUME EndsAreOutcomes == Ends \subseteq Outcome
ASSUME PreviewBoundsAreNatural == {MaxPreviews, MaxRecords, MaxLeases} \subseteq Nat

VARIABLES
    row,           \* the previews table by created_at: run and status
    rec,           \* PreviewRecord objects of this process
    byId,          \* the registry: the record of each row, 0 for none
    call,          \* API calls: where they are and what they hold
    writes,        \* updates of a status sent without waiting
    expired,       \* rows the idle sweep listed that had no record
    retiring,      \* retireSandbox operations per session, in order
    service,       \* "up", "recovering" or "down"
    container,     \* is the session's container running?
    attempt,       \* the worker's attempt with each lease id
    asks,          \* history: API calls, answers, sweeps and ends of processes so far
    crashes,       \* history: ends of the API process
    overlapped,    \* history: stopped rows that somebody was still at work on
    left           \* history: why a retirement left the container, siblings apart

apiVars == <<row, rec, byId, call, writes, expired, retiring, service>>
hostVars == <<container, attempt>>
historyVars == <<asks, crashes, overlapped, left>>
previewVars == <<vars, apiVars, hostVars, historyVars>>

PreviewStatus == {"starting", "ready", "failed", "stopped"}
Rows == 1..Len(row)
Live == {"starting", "ready"}

Record == [row: Nat, status: PreviewStatus, attached: BOOLEAN,
           begin: {"none", "attach", "relay", "over"}]
Call == [pc: {"idle", "looked", "adopt", "replace", "create", "load", "register", "refresh",
              "failing"},
         run: Runs \cup {None}, row: Nat, rec: Nat,
         status: PreviewStatus \cup {None}, op: {"start", "status", "target", "stop"}]
Retirement == [rec: Nat, why: {"stop", "sweep", "expired", "recovery"},
               pc: {"queued", "stopped", "idle", "alone", "free"}]
Attempt == {"none", "driving", "kept", "discarding", "over", "parking", "parked", "gone"}
Reason == {"none", "run", "check", "unattached"}

Idle == [pc |-> "idle", run |-> None, row |-> 0, rec |-> 0, status |-> None, op |-> "start"]

PreviewTypeOK ==
    /\ row \in Seq([run: Runs, status: PreviewStatus])
    /\ rec \in Seq(Record)
    /\ byId \in [1..MaxPreviews -> 0..MaxRecords]
    /\ call \in [Requests -> Call]
    /\ writes \subseteq [row: Nat, status: PreviewStatus]
    /\ expired \subseteq Nat
    /\ retiring \in [Sessions -> Seq(Retirement)]
    /\ service \in {"up", "recovering", "down"}
    /\ container \in [Sessions -> BOOLEAN]
    /\ attempt \in [1..MaxLeases -> Attempt]
    /\ left \in [Sessions -> Reason]
    /\ \A p \in DOMAIN byId : byId[p] # 0 => rec[byId[p]].row = p

PreviewInit ==
    /\ Init
    /\ row = <<>> /\ rec = <<>>
    /\ byId = [p \in 1..MaxPreviews |-> 0]
    /\ call = [c \in Requests |-> Idle]
    /\ writes = {} /\ expired = {}
    /\ retiring = [s \in Sessions |-> <<>>]
    /\ service = "up"
    /\ container = [s \in Sessions |-> FALSE]
    /\ attempt = [id \in 1..MaxLeases |-> "none"]
    /\ asks = 0 /\ crashes = 0 /\ overlapped = {} /\ left = [s \in Sessions |-> "none"]

-----------------------------------------------------------------------------
(* The table and the registry *)

SessionOfRow(p) == SessionOf[row[p].run]
ActiveRows(s) == {p \in Rows : SessionOfRow(p) = s /\ row[p].status \in Live}

\* getByRun: the newest starting or ready preview of the run, 0 for none.
GetByRun(r) ==
    LET found == {p \in Rows : row[p].run = r /\ row[p].status \in Live} IN
    IF found = {} THEN 0 ELSE CHOOSE p \in found : \A q \in found : q <= p

\* getBySession: the newest preview that was not stopped, 0 for none.
GetBySession(s) ==
    LET found == {p \in Rows : SessionOfRow(p) = s /\ row[p].status # "stopped"} IN
    IF found = {} THEN 0 ELSE CHOOSE p \in found : \A q \in found : q <= p

\* live: the registry still holds this very record.
IsLive_Always(k) == TRUE
IsLive(k) == byId[rec[k].row] = k

\* isBuildSessionActive: the session's latest run is pending.
SessionActive_AnyRun(p) == session[SessionOfRow(p)].run # None
SessionActive(p) == LET r == session[SessionOfRow(p)].run IN r # None /\ Unfinished(r)

\* isRunActive: the run has an active preview and is queued or running.
RunActive(p) == GetByRun(row[p].run) # 0 /\ status[row[p].run] \in {"queued", "running"}

\* Where somebody is still at work with what he read of row p.
UnderWay(p) ==
    \/ \E c \in Requests : call[c].row = p /\ call[c].pc \in {"looked", "adopt", "load", "register"}
    \/ \E w \in writes : w.row = p
    \/ \E k \in DOMAIN rec : byId[p] = k /\ rec[k].begin # "over"

SetRow(p, st) ==
    /\ row' = [row EXCEPT ![p].status = st]
    /\ overlapped' = IF st = "stopped" /\ UnderWay(p) THEN overlapped \cup {p} ELSE overlapped

-----------------------------------------------------------------------------
(* begin: attach to the run's sandbox, connect the relay, wait for it *)

NewRecord(p, st, there) == [row |-> p, status |-> st, attached |-> there, begin |-> "none"]

Launched(k) ==
    IF k.status = "starting" /\ k.begin \in {"none", "over"} THEN [k EXCEPT !.begin = "attach"] ELSE k

Ended(k) == [k EXCEPT !.begin = "over"]
Failed(k) == [k EXCEPT !.begin = "over", !.status = "failed"]

\* preparePreview up to its attach; a failure is told only while the record is live.
BeginAttach(k) ==
    LET there == container[SessionOfRow(rec[k].row)] IN
    /\ rec[k].begin = "attach" /\ service = "up"
    /\ IF rec[k].attached \/ there
       THEN /\ rec' = [rec EXCEPT ![k] =
                IF IsLive(k) THEN [@ EXCEPT !.attached = TRUE, !.begin = "relay"]
                ELSE Ended([@ EXCEPT !.attached = TRUE])]
            /\ UNCHANGED writes
       ELSE /\ rec' = [rec EXCEPT ![k] = IF IsLive(k) THEN Failed(@) ELSE Ended(@)]
            /\ writes' = IF IsLive(k) THEN writes \cup {[row |-> rec[k].row, status |-> "failed"]}
                         ELSE writes
    /\ UNCHANGED <<vars, row, byId, call, expired, retiring, service, hostVars, historyVars>>

\* The rest of preparePreview; the ready update is not waited for.
BeginRelay(k) ==
    /\ rec[k].begin = "relay"
    /\ \E served \in BOOLEAN :
          LET st == IF served THEN "ready" ELSE "failed" IN
          /\ served => container[SessionOfRow(rec[k].row)]
          /\ IF IsLive(k)
             THEN /\ rec' = [rec EXCEPT ![k].begin = "over", ![k].status = st]
                  /\ writes' = writes \cup {[row |-> rec[k].row, status |-> st]}
             ELSE rec' = [rec EXCEPT ![k] = Ended(@)] /\ UNCHANGED writes
    /\ UNCHANGED <<vars, row, byId, call, expired, retiring, service, hostVars, historyVars>>

\* A status update that nobody waits for commits.
WriteCommits(w) ==
    /\ w \in writes
    /\ SetRow(w.row, w.status)
    /\ writes' = writes \ {w}
    /\ UNCHANGED <<vars, rec, byId, call, expired, retiring, service, hostVars, asks, crashes, left>>

-----------------------------------------------------------------------------
(* teardown and retireSandbox: one operation per session at a time *)

Operation(k, why) == [rec |-> k, why |-> why, pc |-> "queued"]

\* teardown: off the registry at once, then the retirement waits for its turn.
TornDown(k, why) ==
    LET p == rec[k].row IN
    /\ byId' = [byId EXCEPT ![p] = IF @ = k THEN 0 ELSE @]
    /\ retiring' = [retiring EXCEPT ![SessionOfRow(p)] = Append(@, Operation(k, why))]

Turn(s) == IF retiring[s] = <<>> THEN {} ELSE {1}

Without(ops, i) == SubSeq(ops, 1, i - 1) \o SubSeq(ops, i + 1, Len(ops))
At(s, i, pc) == i \in Turn(s) /\ retiring[s][i].pc = pc
RowAt(s, i) == rec[retiring[s][i].rec].row

\* The operation is over: a stopped record says so, an expired row is updated again.
Over(s, i) ==
    LET op == retiring[s][i] IN
    /\ retiring' = [retiring EXCEPT ![s] = Without(@, i)]
    /\ rec' = IF op.why = "stop" THEN [rec EXCEPT ![op.rec].status = "stopped"] ELSE rec
    /\ writes' = IF op.why = "expired" THEN writes \cup {[row |-> RowAt(s, i), status |-> "stopped"]}
                 ELSE writes

RetirementRest == <<vars, byId, call, expired, service, attempt, asks, crashes>>

\* The retirement is published before the siblings are checked.
RetireUpdate(s, i) ==
    /\ At(s, i, "queued")
    /\ SetRow(RowAt(s, i), "stopped")
    /\ retiring' = [retiring EXCEPT ![s][i].pc = "stopped"]
    /\ UNCHANGED <<RetirementRest, rec, writes, container, left>>

Because(s, reason) == left' = [left EXCEPT ![s] = reason]

\* History: the container is left to a run of the session that is pending.
LeftToRun(s) ==
    IF \E r \in Runs : SessionOf[r] = s /\ Unfinished(r) THEN Because(s, "run") ELSE UNCHANGED left

\* A session with a pending run keeps its container.
RetireCheckSession(s, i) ==
    /\ At(s, i, "stopped")
    /\ IF SessionActive(RowAt(s, i))
       THEN Over(s, i) /\ LeftToRun(s)
       ELSE retiring' = [retiring EXCEPT ![s][i].pc = "idle"] /\ UNCHANGED <<rec, writes, left>>
    /\ UNCHANGED <<RetirementRest, row, container, overlapped>>

\* Another active preview of the session keeps the container.
Siblings(s, p) == ActiveRows(s) \ {p}

RetireCheckSiblings(s, i) ==
    /\ At(s, i, "idle")
    /\ IF Siblings(s, RowAt(s, i)) # {} THEN Over(s, i)
       ELSE retiring' = [retiring EXCEPT ![s][i].pc = "alone"] /\ UNCHANGED <<rec, writes>>
    /\ UNCHANGED <<RetirementRest, row, container, overlapped, left>>

\* Either check may be rejected: its caller goes no further and the container stays.
Rejected(s, i) ==
    /\ At(s, i, "stopped") \/ At(s, i, "idle")
    /\ retiring' = [retiring EXCEPT ![s] = Without(@, i)]
    /\ Because(s, "check")
    /\ UNCHANGED <<vars, row, rec, call, writes, expired, hostVars, asks, crashes, overlapped>>

RetireRejected(s, i) == service # "recovering" /\ Rejected(s, i) /\ UNCHANGED <<byId, service>>

\* A recovery one of whose retirements is rejected registers nothing of what it found.
RecoveryRejected(s, i) ==
    /\ service = "recovering" /\ Rejected(s, i)
    /\ byId' = [p \in 1..MaxPreviews |-> 0]
    /\ service' = "up"

\* A rejected check of the run counts as an active run.
RetireCheckRun(s, i) ==
    /\ At(s, i, "alone")
    /\ \/ RunActive(RowAt(s, i)) /\ Over(s, i) /\ LeftToRun(s)
       \/ Over(s, i) /\ Because(s, "check")
       \/ /\ ~RunActive(RowAt(s, i))
          /\ retiring' = [retiring EXCEPT ![s][i].pc = "free"]
          /\ UNCHANGED <<rec, writes, left>>
    /\ UNCHANGED <<RetirementRest, row, container, overlapped>>

\* destroySandbox: a record that was never attached removes a container named after its
\* preview, and there is none: the session's container keeps running.
RetireDestroy(s, i) ==
    /\ At(s, i, "free")
    /\ Over(s, i)
    /\ IF rec[retiring[s][i].rec].attached
       THEN container' = [container EXCEPT ![s] = FALSE] /\ Because(s, "none")
       ELSE UNCHANGED container /\ Because(s, "unattached")
    /\ UNCHANGED <<RetirementRest, row, overlapped>>

-----------------------------------------------------------------------------
(* start *)

Up(c, pc) == service = "up" /\ call[c].pc = pc
Becomes(c, value) == call' = [call EXCEPT ![c] = value]
RoomForRecord == Len(rec) < MaxRecords
Asked == asks < MaxAsks /\ asks' = asks + 1

StartLook(c, r) ==
    LET p == GetByRun(r) IN
    /\ Up(c, "idle") /\ Asked
    /\ status[r] # "absent"
    /\ Becomes(c, [Idle EXCEPT !.pc = "looked", !.run = r, !.row = p,
                               !.status = IF p = 0 THEN None ELSE row[p].status])
    /\ UNCHANGED <<vars, row, rec, byId, writes, expired, retiring, service, hostVars, crashes, overlapped, left>>

\* A registered preview is adopted; one that failed is replaced.
StartDecide(c) ==
    LET p == call[c].row
        k == IF p = 0 THEN 0 ELSE byId[p]
    IN
    /\ Up(c, "looked")
    /\ \/ p = 0 /\ Becomes(c, [call[c] EXCEPT !.pc = "create"]) /\ UNCHANGED <<rec, byId>>
       \/ p # 0 /\ k = 0 /\ Becomes(c, [call[c] EXCEPT !.pc = "adopt"]) /\ UNCHANGED <<rec, byId>>
       \/ /\ k # 0 /\ rec[k].status # "failed"
          /\ rec' = [rec EXCEPT ![k] = Launched(@)]
          /\ Becomes(c, Idle) /\ UNCHANGED byId
       \/ /\ k # 0 /\ rec[k].status = "failed"
          /\ byId' = [byId EXCEPT ![p] = 0]
          /\ Becomes(c, [call[c] EXCEPT !.pc = "replace"]) /\ UNCHANGED rec
    /\ UNCHANGED <<vars, row, writes, expired, retiring, service, hostVars, historyVars>>

\* A row without a record is adopted with the status that was read of it.
StartAdopt(c) ==
    LET p == call[c].row IN
    /\ Up(c, "adopt")
    /\ RoomForRecord
    /\ rec' = Append(rec, Launched(NewRecord(p, call[c].status, container[SessionOfRow(p)])))
    /\ byId' = [byId EXCEPT ![p] = Len(rec) + 1]
    /\ Becomes(c, Idle)
    /\ UNCHANGED <<vars, row, writes, expired, retiring, service, hostVars, historyVars>>

\* teardown of the failed record, without its sandbox.
StartReplace(c) ==
    /\ Up(c, "replace")
    /\ SetRow(call[c].row, "stopped")
    /\ Becomes(c, [call[c] EXCEPT !.pc = "create"])
    /\ UNCHANGED <<vars, rec, byId, writes, expired, retiring, service, hostVars, asks, crashes, left>>

\* Nobody can name the new preview before its row is in the table.
StartCreate(c) ==
    LET p == Len(row) + 1 IN
    /\ Up(c, "create")
    /\ Len(row) < MaxPreviews /\ RoomForRecord
    /\ row' = Append(row, [run |-> call[c].run, status |-> "starting"])
    /\ rec' = Append(rec, Launched(NewRecord(p, "starting", FALSE)))
    /\ byId' = [byId EXCEPT ![p] = Len(rec) + 1]
    /\ Becomes(c, Idle)
    /\ UNCHANGED <<vars, writes, expired, retiring, service, hostVars, historyVars>>

-----------------------------------------------------------------------------
(* status, target and stop *)

Ask(c, p, op) ==
    /\ Up(c, "idle") /\ Asked
    /\ IF byId[p] = 0
       THEN /\ Becomes(c, [Idle EXCEPT !.pc = "load", !.row = p, !.op = op])
            /\ UNCHANGED <<byId, retiring>>
       ELSE IF op = "stop"
       THEN TornDown(byId[p], "stop") /\ UNCHANGED call
       ELSE /\ op = "status"
            /\ Becomes(c, [Idle EXCEPT !.pc = "refresh", !.row = p, !.rec = byId[p]])
            /\ UNCHANGED <<byId, retiring>>
    /\ UNCHANGED <<vars, row, rec, writes, expired, service, hostVars, crashes, overlapped, left>>

LoadRead(c) ==
    /\ Up(c, "load")
    /\ Becomes(c, [call[c] EXCEPT !.pc = "register", !.status = row[call[c].row].status])
    /\ UNCHANGED <<vars, row, rec, byId, writes, expired, retiring, service, hostVars, historyVars>>

\* What was read becomes the record, whatever the registry holds by now; a stop only
\* tears it down.
LoadRegister(c) ==
    LET p == call[c].row
        k == Len(rec) + 1
    IN
    /\ Up(c, "register")
    /\ RoomForRecord
    /\ rec' = Append(rec, NewRecord(p, call[c].status, container[SessionOfRow(p)]))
    /\ IF call[c].op = "stop"
       THEN /\ retiring' = [retiring EXCEPT ![SessionOfRow(p)] = Append(@, Operation(k, "stop"))]
            /\ UNCHANGED byId
            /\ Becomes(c, Idle)
       ELSE /\ byId' = [byId EXCEPT ![p] = k]
            /\ UNCHANGED retiring
            /\ Becomes(c, IF call[c].op = "target" THEN Idle
                          ELSE [Idle EXCEPT !.pc = "refresh", !.row = p, !.rec = k])
    /\ UNCHANGED <<vars, row, writes, expired, service, hostVars, historyVars>>

\* refresh: the sandbox is gone, or a ready app no longer answers two probes.
Refresh(c) ==
    LET k == rec[call[c].rec]
        there == container[SessionOfRow(k.row)]
    IN
    /\ Up(c, "refresh")
    /\ \/ /\ k.status \notin Live \/ (there \/ (~k.attached /\ k.status = "starting"))
          /\ Becomes(c, Idle)
       \/ /\ k.status = "ready" \/ (k.status = "starting" /\ k.attached /\ ~there)
          /\ Becomes(c, [call[c] EXCEPT !.pc = "failing"])
    /\ UNCHANGED <<vars, row, rec, byId, writes, expired, retiring, service, hostVars, historyVars>>

\* fail: whatever became of the preview while it was probed.
RefreshFails(c) ==
    LET k == call[c].rec IN
    /\ Up(c, "failing")
    /\ rec' = [rec EXCEPT ![k].status = "failed"]
    /\ writes' = writes \cup {[row |-> rec[k].row, status |-> "failed"]}
    /\ Becomes(c, Idle)
    /\ UNCHANGED <<vars, row, byId, expired, retiring, service, hostVars, historyVars>>

-----------------------------------------------------------------------------
(* The idle sweep *)

SweepRecord(p) ==
    /\ service = "up" /\ Asked
    /\ byId[p] # 0
    /\ TornDown(byId[p], "sweep")
    /\ UNCHANGED <<vars, row, rec, call, writes, expired, service, hostVars, crashes, overlapped, left>>

SweepList(p) ==
    /\ service = "up" /\ Asked
    /\ row[p].status \in Live /\ byId[p] = 0
    /\ expired' = expired \cup {p}
    /\ UNCHANGED <<vars, row, rec, byId, call, writes, retiring, service, hostVars, crashes, overlapped, left>>

SweepRetire(p) ==
    /\ p \in expired
    /\ expired' = expired \ {p}
    /\ IF RunActive(p) THEN UNCHANGED <<rec, retiring>>
       ELSE /\ RoomForRecord
            /\ rec' = Append(rec, Ended(NewRecord(p, "ready", container[SessionOfRow(p)])))
            /\ retiring' = [retiring EXCEPT ![SessionOfRow(p)] =
                               Append(@, Operation(Len(rec) + 1, "expired"))]
    /\ UNCHANGED <<vars, row, byId, call, writes, service, hostVars, historyVars>>

-----------------------------------------------------------------------------
(* The end of the process, and the recovery the next one starts with *)

Crash ==
    /\ service # "down" /\ crashes < MaxCrashes /\ Asked
    /\ crashes' = crashes + 1
    /\ service' = "down"
    /\ rec' = <<>>
    /\ byId' = [p \in 1..MaxPreviews |-> 0]
    /\ call' = [c \in Requests |-> Idle]
    /\ expired' = {}
    /\ retiring' = [s \in Sessions |-> <<>>]
    /\ UNCHANGED <<vars, row, writes, hostVars, overlapped, left>>

Recoveries == {"retired", "failed", "starting", "ready"}

\* What recoverPreviewItem may find of an active row.
MayRecover(p, how) ==
    CASE how = "retired"  -> ~RunActive(p)
      [] how = "failed"   -> TRUE
      [] how = "starting" -> row[p].status = "starting" /\ container[SessionOfRow(p)]
      [] how = "ready"    -> container[SessionOfRow(p)]

\* recover: every active row is retired, failed or registered before a call is served.
Recover ==
    LET active == {p \in Rows : row[p].status \in Live} IN
    /\ service = "down"
    /\ Cardinality(active) <= MaxRecords
    /\ \E how \in [active -> Recoveries] :
          LET numbered == CHOOSE f \in [active -> 1..Cardinality(active)] :
                              \A p, q \in active : f[p] = f[q] => p = q
              RowNo(k) == CHOOSE p \in active : numbered[p] = k
              Found(p) == NewRecord(p, IF how[p] = "starting" THEN "starting" ELSE "ready",
                                    container[SessionOfRow(p)])
          IN
          /\ \A p \in active : MayRecover(p, how[p])
          /\ row' = [p \in Rows |-> IF p \in active /\ how[p] = "failed"
                                    THEN [row[p] EXCEPT !.status = "failed"] ELSE row[p]]
          /\ rec' = [k \in 1..Cardinality(active) |->
                        IF how[RowNo(k)] = "starting" THEN Launched(Found(RowNo(k)))
                        ELSE Ended(Found(RowNo(k)))]
          /\ byId' = [p \in 1..MaxPreviews |->
                        IF p \in active /\ how[p] \in Live THEN numbered[p] ELSE 0]
          /\ retiring' = [s \in Sessions |->
                LET mine == {p \in active : how[p] = "retired" /\ SessionOfRow(p) = s} IN
                [i \in 1..Cardinality(mine) |->
                    Operation(numbered[CHOOSE p \in mine :
                        Cardinality({q \in mine : q <= p}) = i], "recovery")]]
    /\ service' = "recovering"
    /\ UNCHANGED <<vars, call, writes, expired, hostVars, historyVars>>

Recovered ==
    /\ service = "recovering"
    /\ \A s \in Sessions : retiring[s] = <<>>
    /\ service' = "up"
    /\ UNCHANGED <<vars, row, rec, byId, call, writes, expired, retiring, hostVars, historyVars>>

-----------------------------------------------------------------------------
(* The worker *)

SessionOfLease(id) == SessionOf[grants[id].run]

Claim(r, w) == BeginRun(r, w) /\ UNCHANGED <<apiVars, hostVars, historyVars>>
Admit(r) == Admission(r) /\ UNCHANGED <<apiVars, hostVars, historyVars>>

\* The attempt attaches to the session's container, or creates it.
WorkerStart(id) ==
    /\ id \in DOMAIN grants /\ attempt[id] = "none" /\ HoldsLiveLease(id)
    /\ attempt' = [attempt EXCEPT ![id] = "driving"]
    /\ container' = [container EXCEPT ![SessionOfLease(id)] = TRUE]
    /\ UNCHANGED <<vars, apiVars, historyVars>>

\* retainForPreview
Retains(s) == LET p == GetBySession(s) IN p # 0 /\ row[p].status \in Live

TeardownRead(id) ==
    /\ attempt[id] = "driving"
    /\ attempt' = [attempt EXCEPT ![id] = IF Retains(SessionOfLease(id)) THEN "kept" ELSE "discarding"]
    /\ UNCHANGED <<vars, apiVars, container, historyVars>>

TeardownAct(id) ==
    /\ attempt[id] \in {"kept", "discarding"}
    /\ container' = IF attempt[id] = "discarding"
                    THEN [container EXCEPT ![SessionOfLease(id)] = FALSE] ELSE container
    /\ attempt' = [attempt EXCEPT ![id] = "over"]
    /\ UNCHANGED <<vars, apiVars, historyVars>>

\* finishRun comes after the teardown; its repeats change nothing here.
End(id, o) ==
    /\ id \in DOMAIN grants /\ attempt[id] = "over" /\ HoldsLiveLease(id)
    /\ FinishRun(id, o)
    /\ UNCHANGED <<apiVars, hostVars, historyVars>>

\* A worker dies: its lease lapses, its container runs on.
WorkerDies(id) ==
    /\ id \in DOMAIN grants /\ HoldsLiveLease(id)
    /\ LeaseLapses(grants[id].run) /\ Asked
    /\ attempt' = [attempt EXCEPT ![id] = "gone"]
    /\ UNCHANGED <<apiVars, container, crashes, overlapped, left>>

Driving(id) == id \in DOMAIN grants /\ attempt[id] = "driving" /\ HoldsLiveLease(id)

Suspend(id, c) ==
    Driving(id) /\ SuspendForQuestion(grants[id].run, c) /\ UNCHANGED <<apiVars, hostVars, historyVars>>
Resume(id, c) ==
    Driving(id) /\ TakeRunAnswer(grants[id].run, c) /\ UNCHANGED <<apiVars, hostVars, historyVars>>
Answered(r, c, a) ==
    /\ AnswerRunQuestion(r, c, a) /\ Asked
    /\ UNCHANGED <<apiVars, hostVars, crashes, overlapped, left>>

\* #park gives an unanswered run up: the lease goes first, then the container, whatever
\* preview there is.
Park(id) ==
    /\ Driving(id) /\ status[grants[id].run] = "awaiting_approval"
    /\ ParkRunSuspension(grants[id].run)
    /\ attempt' = [attempt EXCEPT ![id] = "parking"]
    /\ UNCHANGED <<apiVars, container, historyVars>>

ParkRelease(id) ==
    /\ id \in DOMAIN grants /\ attempt[id] = "parking"
    /\ ReleaseRunLease(id)
    /\ attempt' = [attempt EXCEPT ![id] = "parked"]
    /\ UNCHANGED <<apiVars, container, historyVars>>

ParkDrop(id) ==
    /\ attempt[id] = "parked"
    /\ attempt' = [attempt EXCEPT ![id] = "gone"]
    /\ container' = [container EXCEPT ![SessionOfLease(id)] = FALSE]
    /\ UNCHANGED <<vars, apiVars, historyVars>>

-----------------------------------------------------------------------------
(* Specification *)

CallStep ==
    \E c \in Requests :
        \/ \E r \in Runs : StartLook(c, r)
        \/ StartDecide(c) \/ StartAdopt(c) \/ StartReplace(c) \/ StartCreate(c)
        \/ \E p \in Rows, op \in {"status", "target", "stop"} : Ask(c, p, op)
        \/ LoadRead(c) \/ LoadRegister(c) \/ Refresh(c) \/ RefreshFails(c)

ServiceStep ==
    \/ \E k \in DOMAIN rec : BeginAttach(k) \/ BeginRelay(k)
    \/ \E w \in writes : WriteCommits(w)
    \/ \E p \in Rows : SweepRecord(p) \/ SweepList(p) \/ SweepRetire(p)
    \/ Crash \/ Recover \/ Recovered

RetirementStep ==
    \E s \in Sessions : \E i \in DOMAIN retiring[s] :
        \/ RetireUpdate(s, i) \/ RetireCheckSession(s, i) \/ RetireCheckSiblings(s, i)
        \/ RetireRejected(s, i) \/ RecoveryRejected(s, i)
        \/ RetireCheckRun(s, i) \/ RetireDestroy(s, i)

HostStep ==
    \/ \E r \in Runs :
          \/ Admit(r) \/ \E w \in Workers : Claim(r, w)
          \/ \E c \in Calls, a \in Answers : Answered(r, c, a)
    \/ \E id \in 1..MaxLeases :
          \/ WorkerStart(id) \/ TeardownRead(id) \/ TeardownAct(id) \/ WorkerDies(id)
          \/ Park(id) \/ ParkRelease(id) \/ ParkDrop(id)
          \/ \E o \in Ends : End(id, o)
          \/ \E c \in Calls : Suspend(id, c) \/ Resume(id, c)

PreviewNext == CallStep \/ ServiceStep \/ RetirementStep \/ HostStep

PreviewSpec == PreviewInit /\ [][PreviewNext]_previewVars

-----------------------------------------------------------------------------
(* Properties *)

\* However retirements of siblings overlap and whatever becomes of the workers: when the
\* last preview of a session is off the table and off the registry and no run or attempt
\* is left, the container is gone, unless the retirement that was to remove it left it to
\* a run that was pending, had a check rejected or was of a record that was never
\* attached, a preview was stopped while somebody was still at work with it, or the API
\* process restarted.
LastOwnerReleases ==
    /\ PreviewTypeOK
    /\ crashes = 0 => \A s \in Sessions :
        /\ \E p \in Rows : SessionOfRow(p) = s
        /\ \A p \in Rows : SessionOfRow(p) = s =>
               row[p].status \notin Live /\ byId[p] = 0 /\ p \notin overlapped
        /\ retiring[s] = <<>> /\ writes = {} /\ expired = {}
        /\ \A c \in Requests : call[c] = Idle
        /\ \A r \in Runs : SessionOf[r] = s => ~Unfinished(r)
        /\ \A id \in DOMAIN grants : SessionOfLease(id) = s =>
               attempt[id] \notin {"driving", "kept", "discarding"}
        => ~container[s] \/ left[s] # "none"

\* A stopped preview is not shown again: its row becomes active only for somebody who
\* was at work with it when it was stopped.
StopStands ==
    [][\A p \in Rows : row[p].status = "stopped" /\ row'[p].status \in Live
          => p \in overlapped]_previewVars
=============================================================================
