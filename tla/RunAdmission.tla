----------------------------- MODULE RunAdmission -----------------------------
(***************************************************************************)
(* The API requests that start runs, over the transactions of              *)
(* Conversations: a new conversation, its next turn, a retry and a branch  *)
(* (routes/build-sessions.ts, routes/conversation-actions.ts).  A request  *)
(* is a sequence of store calls: it looks its key up, reads the plan's     *)
(* usage, reserves a unit, writes the run and gives the unit back when     *)
(* there is no run to spend it on (project-state/usage.ts).  Requests      *)
(* interleave between those calls, are repeated by clients that lost the   *)
(* answer, and die with the API process.                                   *)
(***************************************************************************)
EXTENDS Conversations, Integers

CONSTANTS
    Requests,        \* requests ever received
    Keys,            \* Idempotency-Key values
    RunsPerPeriod,   \* entitlements.runsPerPeriod
    MaxPeriods,      \* bound: billing periods
    MaxFaults        \* bound: API processes that die and database answers lost

ASSUME PlanType == RunsPerPeriod \in Nat \ {0} /\ MaxPeriods \in Nat \ {0}
ASSUME FaultsAreNatural == MaxFaults \in Nat
ASSUME NoneIsNoRequest == None \notin Requests

VARIABLES
    req,             \* each request: where it is, what it asks, what it was answered
    keyed,           \* idempotency_records, conversation_turn_keys and history commands
    units,           \* usage_records of metric "runs", summed by billing period
    period,          \* the billing period of now()
    madeBy,          \* history: the request whose transaction created the run
    lost,            \* history: database answers lost so far
    strayed          \* history: a unit was given back in a month it was not reserved in

admVars == <<req, keyed, units, period, madeBy, lost, strayed>>
admState == <<convState, admVars>>

Kind == {"allocate", "turn", "retry", "branch"}
Phase == {"new", "lookup", "snapshot", "reserve", "write", "refund", "second refund", "preserve",
          "answered", "dead"}
Reply == {"none", "accepted", "refused"}   \* refused: limited, in conflict, or failed

\* What a request asks: the scope is a project for a new conversation and a
\* conversation for the others; only history commands name a turn.
Ask == [kind: Kind, key: Keys, scope: Projects \cup Sessions, turn: Runs \cup {None}]
Request == [pc: Phase, ask: Ask \cup {None}, month: Nat, run: Runs \cup {None}, reply: Reply]

\* A row of one of the key tables: the ask it was stored under, and its result.
KeyRow == [ask: Ask, run: Runs, session: Sessions]

AdmTypeOK ==
    /\ req \in [Requests -> Request]
    /\ keyed \subseteq KeyRow
    /\ units \in [1..MaxPeriods -> Int]
    /\ period \in 1..MaxPeriods
    /\ madeBy \in [Runs -> Requests \cup {None}]
    /\ lost \in 0..MaxFaults
    /\ strayed \in BOOLEAN

AdmInit ==
    /\ ConvInit
    /\ req = [q \in Requests |->
                 [pc |-> "new", ask |-> None, month |-> 0, run |-> None, reply |-> "none"]]
    /\ keyed = {}
    /\ units = [m \in 1..MaxPeriods |-> 0]
    /\ period = 1
    /\ madeBy = [r \in Runs |-> None]
    /\ lost = 0
    /\ strayed = FALSE

-----------------------------------------------------------------------------
(* Requests and keys *)

At(q, phase) == req[q].pc = phase
AskOf(q) == req[q].ask
Go(q, phase) == req' = [req EXCEPT ![q].pc = phase]
Made(q) == {r \in Runs : madeBy[r] = q}

\* The request ends; of one that was refused and made no run nothing is kept.
Answer(q, reply, r) ==
    req' = [req EXCEPT ![q] =
               IF reply = "refused" /\ Made(q) = {}
               THEN [pc |-> "answered", ask |-> None, month |-> 0, run |-> None, reply |-> reply]
               ELSE [@ EXCEPT !.pc = "answered", !.run = r, !.reply = reply]]

MayFail == lost + Cardinality({q \in Requests : At(q, "dead")}) < MaxFaults

\* The same row of the same table: allocations are keyed for the organization,
\* turns and history commands for their conversation.
SameKey(a, b) ==
    /\ a.key = b.key
    /\ \/ a.kind = "allocate" /\ b.kind = "allocate"
       \/ a.kind = "turn" /\ b.kind = "turn" /\ a.scope = b.scope
       \/ {a.kind, b.kind} \subseteq {"retry", "branch"} /\ a.scope = b.scope

KeyRows(a) == {row \in keyed : SameKey(row.ask, a)}

\* What the stored row answers: its run, or an error when it belongs to another
\* project (requireAllocation) or to another command (commandFingerprint).
Answerable(a, row) ==
    CASE a.kind = "allocate" -> ProjectOf[row.session] = a.scope
      [] a.kind = "turn" -> TRUE
      [] OTHER -> row.ask.kind = a.kind /\ row.ask.turn = a.turn

\* authorizeRequest and parseCommand: the conversation exists.
Submit(q, a) ==
    /\ At(q, "new")
    /\ a.kind = "allocate" <=> a.scope \in Projects
    /\ a.kind # "allocate" => Exists(a.scope)
    /\ a.kind \in {"retry", "branch"} <=> a.turn # None
    /\ req' = [req EXCEPT ![q].ask = a,
                          ![q].pc = IF a.turn = None THEN "snapshot" ELSE "lookup"]
    /\ UNCHANGED <<convState, keyed, units, period, madeBy, lost, strayed>>

\* perform: a recorded command is replayed before anything is reserved.
Lookup(q) ==
    /\ At(q, "lookup")
    /\ LET rows == KeyRows(AskOf(q)) IN
       \/ /\ rows = {}
          /\ Go(q, IF AskOf(q).kind = "retry" THEN "snapshot" ELSE "write")
       \/ \E row \in rows :
             IF Answerable(AskOf(q), row) THEN Answer(q, "accepted", row.run)
             ELSE Answer(q, "refused", None)
    /\ UNCHANGED <<convState, keyed, units, period, madeBy, lost, strayed>>

-----------------------------------------------------------------------------
(* Metering *)

\* usage.snapshot and decideEntitlement; UsageSnapshotSchema refuses a negative total.
\* The rate limiter in front of it may refuse any request.
Snapshot(q) ==
    /\ At(q, "snapshot")
    /\ \/ Answer(q, "refused", None)
       \/ /\ units[period] >= 0
          /\ units[period] + 1 <= RunsPerPeriod
          /\ req' = [req EXCEPT ![q].pc = "reserve", ![q].month = period]
    /\ UNCHANGED <<convState, keyed, units, period, madeBy, lost, strayed>>

\* usage.reserve, under the organization's row lock and in the snapshot's period.
Grants_Snapshot(q) == TRUE
Grants(q) == units[req[q].month] + 1 <= RunsPerPeriod

Reserve(q) ==
    /\ At(q, "reserve")
    /\ \/ /\ units[req[q].month] >= 0
          /\ Grants(q)
          /\ units' = [units EXCEPT ![req[q].month] = @ + 1]
          /\ Go(q, "write")
       \/ /\ ~Grants(q) \/ units[req[q].month] < 0
          /\ Answer(q, "refused", None)
          /\ UNCHANGED units
    /\ UNCHANGED <<convState, keyed, period, madeBy, lost, strayed>>

\* The reservation commits but its answer is lost: the request ends, the unit is kept.
ReserveAnswerLost(q) ==
    /\ At(q, "reserve")
    /\ units[req[q].month] >= 0 /\ Grants(q)
    /\ MayFail
    /\ lost' = lost + 1
    /\ units' = [units EXCEPT ![req[q].month] = @ + 1]
    /\ Answer(q, "refused", None)
    /\ UNCHANGED <<convState, keyed, period, madeBy, strayed>>

\* usage.record of -1: the period is that of the moment it is written.
RefundPeriod(q) == period
Refunded(q) == [units EXCEPT ![RefundPeriod(q)] = @ - 1]

-----------------------------------------------------------------------------
(* The transaction *)

Refused(a) ==
    CASE a.kind = "allocate" -> FALSE
      [] a.kind = "turn" -> archived[a.scope] \/ SessionBusy(a.scope)
      [] a.kind = "retry" -> ~Changeable(a.scope, a.turn) \/ Baseline(a.turn) = 0
      [] a.kind = "branch" -> ~Changeable(a.scope, a.turn) \/ BranchPoint(a.turn) = 0

\* The key is looked up again under the project's lock, before any other check.
Replays_Never(a) == {}
Replays(a) == KeyRows(a)

\* Who holds a unit when the transaction is over; only a replay, a refusal or an
\* error gives it back, and a branch never had one.
AfterWrite_NoRefund(q, made) ==
    IF AskOf(q).kind \in {"branch", "retry"} THEN "answered" ELSE "preserve"
AfterWrite_RefundsBranch(q, made) ==
    IF ~made THEN "refund"
    ELSE IF AskOf(q).kind \in {"branch", "retry"} THEN "answered" ELSE "preserve"
AfterWrite(q, made) ==
    IF ~made /\ AskOf(q).kind # "branch" THEN "refund"
    ELSE IF AskOf(q).kind \in {"branch", "retry"} THEN "answered" ELSE "preserve"

\* The answer the rest of the request is for.
After(q, made, reply, r) ==
    IF AfterWrite(q, made) = "answered" THEN Answer(q, reply, r)
    ELSE req' = [req EXCEPT ![q].pc = AfterWrite(q, made), ![q].reply = reply, ![q].run = r]

\* The run that one of Conversations' operations creates for the ask; a branch makes
\* a conversation that ends with the selected turn.
Creates(a, r, t) ==
    CASE a.kind = "allocate" -> t = SessionOf[r] /\ ProjectOf[t] = a.scope /\ Allocate(r)
      [] a.kind = "turn" -> t = a.scope /\ SessionOf[r] = t /\ AppendTurn(r)
      [] a.kind = "retry" -> t = a.scope /\ Retry(t, a.turn, r)
      [] a.kind = "branch" -> r = a.turn /\ Branch(a.scope, r, t)

Create(q, r, t) ==
    /\ Replays(AskOf(q)) = {}
    /\ Creates(AskOf(q), r, t)
    /\ keyed' = keyed \cup {[ask |-> AskOf(q), run |-> r, session |-> t]}
    /\ madeBy' = IF AskOf(q).kind = "branch" THEN madeBy ELSE [madeBy EXCEPT ![r] = q]

\* The transaction commits and its answer arrives.
Write(q) ==
    /\ At(q, "write")
    /\ \E r \in Runs, t \in Sessions : Create(q, r, t) /\ After(q, TRUE, "accepted", r)
    /\ UNCHANGED <<units, period, lost, strayed>>

\* The transaction finds the key, refuses, or is rolled back by an error.
WriteNothing(q) ==
    /\ At(q, "write")
    /\ \/ \E row \in Replays(AskOf(q)) :
             IF Answerable(AskOf(q), row) THEN After(q, FALSE, "accepted", row.run)
             ELSE After(q, FALSE, "refused", None)
       \/ Replays(AskOf(q)) = {} /\ Refused(AskOf(q)) /\ After(q, FALSE, "refused", None)
       \/ After(q, FALSE, "refused", None)
    /\ UNCHANGED <<convState, keyed, units, period, madeBy, lost, strayed>>

\* COMMIT is done but its answer is lost: the request takes it for a failure.
WriteAnswerLost(q) ==
    /\ At(q, "write")
    /\ MayFail
    /\ lost' = lost + 1
    /\ \E r \in Runs, t \in Sessions : Create(q, r, t)
    /\ After(q, FALSE, "refused", None)
    /\ UNCHANGED <<units, period, strayed>>

\* A replayed allocation or turn still stores its attachments.
AfterRefund(q) ==
    IF AskOf(q).kind # "retry" /\ req[q].reply = "accepted" THEN "preserve" ELSE "answered"

Refund(q) ==
    /\ At(q, "refund") \/ At(q, "second refund")
    /\ units' = Refunded(q)
    /\ strayed' = (strayed \/ RefundPeriod(q) # req[q].month)
    /\ IF At(q, "refund") /\ AfterRefund(q) = "preserve" THEN Go(q, "preserve")
       ELSE Answer(q, req[q].reply, req[q].run)
    /\ UNCHANGED <<convState, keyed, period, madeBy, lost>>

\* The refund's answer is lost, or the refund fails: perform's handler refunds a
\* replayed retry a second time, every other request ends with the error.
RefundFails(q) ==
    /\ At(q, "refund") \/ At(q, "second refund")
    /\ MayFail
    /\ lost' = lost + 1
    /\ units' \in {units, Refunded(q)}
    /\ IF At(q, "refund") /\ AskOf(q).kind = "retry" /\ req[q].reply = "accepted"
       THEN req' = [req EXCEPT ![q].pc = "second refund", ![q].reply = "refused", ![q].run = None]
       ELSE Answer(q, "refused", None)
    /\ UNCHANGED <<convState, keyed, period, madeBy, strayed>>

\* preserveFiles: a failure is the request's, the run stays.
Preserve(q) ==
    /\ At(q, "preserve")
    /\ Answer(q, "accepted", req[q].run) \/ Answer(q, "refused", None)
    /\ UNCHANGED <<convState, keyed, units, period, madeBy, lost, strayed>>

-----------------------------------------------------------------------------
(* Environment *)

\* The API process dies: what the request held stays held.
Crash(q) ==
    /\ req[q].pc \notin {"new", "answered", "dead"}
    /\ MayFail
    /\ req' = [req EXCEPT ![q].pc = "dead", ![q].reply = "none", ![q].run = None]
    /\ UNCHANGED <<convState, keyed, units, period, madeBy, lost, strayed>>

\* billingPeriodFor: the UTC month turns.
MonthTurns ==
    /\ period < MaxPeriods
    /\ period' = period + 1
    /\ UNCHANGED <<convState, req, keyed, units, madeBy, lost, strayed>>

RequestStep(q) ==
    \/ \E a \in Ask : Submit(q, a)
    \/ Lookup(q)
    \/ Snapshot(q)
    \/ Reserve(q)
    \/ ReserveAnswerLost(q)
    \/ Write(q)
    \/ WriteNothing(q)
    \/ WriteAnswerLost(q)
    \/ Refund(q)
    \/ RefundFails(q)
    \/ Preserve(q)
    \/ Crash(q)

AdmNext ==
    \/ \E q \in Requests : RequestStep(q)
    \/ MonthTurns
    \/ (UserStep \/ WorkerStep) /\ UNCHANGED admVars

AdmSpec == AdmInit /\ [][AdmNext]_admState

-----------------------------------------------------------------------------
(* Properties *)

\* The sum of the first m months, for every m.
Sums(u) ==
    LET upTo[m \in 0..MaxPeriods] == IF m = 0 THEN 0 ELSE upTo[m - 1] + u[m]
    IN  upTo

Metered == {r \in Runs : madeBy[r] # None}
Holding == {q \in Requests : req[q].pc \in {"write", "refund"} /\ AskOf(q).kind # "branch"}
Total == Sums(units)[MaxPeriods]

\* A request and its repeats under one key have one result: they are never accepted
\* with different runs and only one of them creates a run, whatever the interleaving,
\* the crashes and the lost answers between them.
OneResultPerKey ==
    /\ AdmTypeOK
    /\ \A q, p \in Requests :
        q # p /\ AskOf(q) # None /\ AskOf(p) # None /\ SameKey(AskOf(q), AskOf(p)) =>
            /\ req[q].reply = "accepted" /\ req[p].reply = "accepted" => req[q].run = req[p].run
            /\ ~ \E r, x \in Runs : r # x /\ madeBy[r] = q /\ madeBy[x] = p

\* While no database answer is lost, every run is paid for: replays, refusals and
\* crashes may leave a unit taken, they never leave one too few.
EveryRunIsPaid == lost = 0 => Total >= Cardinality(Metered) + Cardinality(Holding)

\* Nothing but a crash or a lost answer takes a unit for good: with no request on its
\* way, the units taken are the runs created, though refunds may land in a later month.
UnitsMatchRuns ==
    lost = 0 /\ (\A q \in Requests : req[q].pc \in {"new", "answered"}) =>
        Total = Cardinality(Metered)

\* Concurrent requests for the last unit of a month never start more runs than the
\* plan grants, as long as no refund of an earlier month lands in it.
WithinPlan ==
    lost = 0 /\ ~strayed =>
        \A m \in 1..MaxPeriods :
            Cardinality({r \in Metered : req[madeBy[r]].month = m}) <= RunsPerPeriod

\* A refund is summed away in the period its reservation landed in: no period's
\* total, which the next admission reads, is ever negative.
RefundInItsPeriod == \A m \in 1..MaxPeriods : units[m] >= 0
=============================================================================
