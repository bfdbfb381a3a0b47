------------------------------ MODULE Steering ------------------------------
(***************************************************************************)
(* Messages a user sends to a run while it is at work: the transactions of *)
(* project-state/steering.ts, the loop of the worker that delivers them    *)
(* (worker/src/steering.ts), and the store of RunStore, whose status,      *)
(* cancellation and leases decide what may be requested and delivered.     *)
(*                                                                         *)
(* A row is a message; its verdicts count the run.steering.delivered and   *)
(* run.steering.failed events of the ledger.  heard counts what reached    *)
(* the CTO, which no transaction sees.  Each lease has its own attempt     *)
(* with its own loop, so a worker that lost its lease goes on until it     *)
(* notices.  A store call of the loop may fail, before or after it is      *)
(* committed; the loop only asks the run to stop and ticks on.             *)
(***************************************************************************)
EXTENDS RunStore, FiniteSets

CONSTANTS
    Keys,          \* idempotency keys of the users' requests
    Limit          \* steering messages a run may have

ASSUME LimitIsPositive == Limit \in Nat \ {0}
ASSUME NoneIsNoKey == None \notin Keys

VARIABLES
    rows,          \* run_steering of each run, by creation
    loop,          \* the delivery loop of the attempt with each lease id
    heard          \* history: how often each run's CTO got the message of a key

steerVars == <<vars, rows, loop, heard>>

Settled == {"delivered", "failed"}
SteeringStatus == {"requested", "delivering"} \cup Settled
Resting(phase, stopAsked) == [pc |-> phase, key |-> None, delivered |-> FALSE, stopAsked |-> stopAsked]
LoopPhase == {"none", "idle", "sending", "acking", "stopping", "over", "dead"}

\* A message of a run; where one attempt's delivery of it is, and whether a failed
\* call of its loop has asked the run to stop.
Row == [key: Keys, status: SteeringStatus, lease: Nat, verdicts: Nat]
Loop == [pc: LoopPhase, key: Keys \cup {None}, delivered: BOOLEAN, stopAsked: BOOLEAN]

SteeringTypeOK ==
    /\ rows \in [Runs -> Seq(Row)]
    /\ loop \in [1..MaxLeases -> Loop]
    /\ heard \in [Runs -> [Keys -> Nat]]
    /\ \A r \in Runs : Len(rows[r]) <= Limit
    /\ \A id \in 1..MaxLeases : loop[id].pc \in {"sending", "acking"} <=> loop[id].key # None

SteeringInit ==
    /\ Init
    /\ rows = [r \in Runs |-> <<>>]
    /\ loop = [id \in 1..MaxLeases |-> Resting("none", FALSE)]
    /\ heard = [r \in Runs |-> [k \in Keys |-> 0]]

\* lockRun: the run is at work and not to be cancelled.
ActiveRun(r) == status[r] = "running" /\ ~cancelled[r]

RunOf(id) == grants[id].run
LoopAt(id, phase) == id \in DOMAIN grants /\ loop[id].pc = phase
LoopGoto(id, phase) == loop' = [loop EXCEPT ![id] = Resting(phase, @.stopAsked)]

\* onFailure: the run is asked to stop.  The loop ticks on until the drive stops it.
AskToStop(id) == loop' = [loop EXCEPT ![id] = Resting("idle", TRUE)]

Update(r, Which(_), New(_)) ==
    rows' = [rows EXCEPT ![r] =
        [i \in DOMAIN @ |-> IF Which(rows[r][i]) THEN New(rows[r][i]) ELSE rows[r][i]]]
Judged(row, verdict) == [row EXCEPT !.status = verdict, !.verdicts = @ + 1]
Fail(row) == Judged(row, "failed")

-----------------------------------------------------------------------------
(* The user's request *)

KeyUsed_Settled(r, k) == \E i \in DOMAIN rows[r] : rows[r][i].key = k /\ rows[r][i].status \in Settled
KeyUsed(r, k) == \E i \in DOMAIN rows[r] : rows[r][i].key = k

AtLimit(r) == Len(rows[r]) >= Limit

\* request: a used key is answered with its row; ten messages are the limit.
Request(r, k) ==
    /\ ~KeyUsed(r, k)
    /\ ActiveRun(r)
    /\ ~AtLimit(r)
    /\ rows' = [rows EXCEPT ![r] =
          Append(@, [key |-> k, status |-> "requested", lease |-> 0, verdicts |-> 0])]
    /\ UNCHANGED <<vars, loop, heard>>

-----------------------------------------------------------------------------
(* The worker's loop *)

StartLoop(id) ==
    /\ LoopAt(id, "none")
    /\ LoopGoto(id, "idle")
    /\ UNCHANGED <<vars, rows, heard>>

\* claim: what another lease left in delivery may have been heard, and is failed.
Interrupted_Requeued(id, row) == [row EXCEPT !.status = "requested"]
Interrupted(id, row) == Fail(row)

Abandoned(id, row) == row.status = "delivering" /\ row.lease # id

\* The oldest row waiting, counted before the abandoned ones are dealt with.
Oldest_HeadOnly(r) == {i \in {1} \cap DOMAIN rows[r] : rows[r][i].status = "requested"}
Oldest(r) ==
    {i \in DOMAIN rows[r] :
        rows[r][i].status = "requested"
        /\ \A j \in 1..(i - 1) : rows[r][j].status # "requested"}

MayDeliver(id) == ActiveRun(RunOf(id)) /\ HoldsLiveLease(id)

TakeOldest(id) ==
    LET r == RunOf(id) IN
    rows' = [rows EXCEPT ![r] = [i \in DOMAIN @ |->
        IF Abandoned(id, @[i]) THEN Interrupted(id, @[i])
        ELSE IF i \in Oldest(r) THEN [@[i] EXCEPT !.status = "delivering", !.lease = id]
        ELSE @[i]]]

ClaimSteering(id) ==
    LET r == RunOf(id) IN
    /\ LoopAt(id, "idle")
    /\ MayDeliver(id)
    /\ TakeOldest(id)
    /\ loop' = [loop EXCEPT ![id] =
          IF Oldest(r) = {} THEN @
          ELSE [@ EXCEPT !.pc = "sending",
                         !.key = rows[r][CHOOSE i \in Oldest(r) : TRUE].key]]
    /\ UNCHANGED <<vars, heard>>

\* claim rejects, with nothing written or with its answer lost.
ClaimFails(id) ==
    /\ LoopAt(id, "idle")
    /\ UNCHANGED rows \/ (MayDeliver(id) /\ TakeOldest(id))
    /\ AskToStop(id)
    /\ UNCHANGED <<vars, heard>>

\* What the loop takes a signal for that may or may not have been heard.
Unconfirmed_TakenForDelivered == TRUE
Unconfirmed == FALSE

\* sendSignal and the wait for its acceptance: accepted, discarded, or not confirmed
\* within 15 s, when the CTO may have got it all the same.
Send(id) ==
    /\ LoopAt(id, "sending")
    /\ \E reaches, confirmed \in BOOLEAN :
          /\ heard' = IF reaches THEN [heard EXCEPT ![RunOf(id)][loop[id].key] = @ + 1] ELSE heard
          /\ loop' = [loop EXCEPT ![id] = [@ EXCEPT !.pc = "acking",
                          !.delivered = IF confirmed THEN reaches ELSE Unconfirmed]]
    /\ UNCHANGED <<vars, rows>>

\* finish: only the holder's own delivery is judged.  To a loop without its lease that
\* is a failed call.
Judge(id) ==
    LET own(row) == row.key = loop[id].key /\ row.status = "delivering" /\ row.lease = id
        verdict(row) == Judged(row, IF loop[id].delivered THEN "delivered" ELSE "failed")
    IN Update(RunOf(id), own, verdict)

Acknowledge(id) ==
    /\ LoopAt(id, "acking")
    /\ IF HoldsLiveLease(id)
       THEN Judge(id) /\ LoopGoto(id, "idle")
       ELSE UNCHANGED rows /\ AskToStop(id)
    /\ UNCHANGED <<vars, heard>>

\* finish rejects: the message is in delivery still, or judged and the answer lost.
FinishFails(id) ==
    /\ LoopAt(id, "acking")
    /\ UNCHANGED rows \/ (HoldsLiveLease(id) /\ Judge(id))
    /\ AskToStop(id)
    /\ UNCHANGED <<vars, heard>>

\* The drive ends; a delivery in flight is awaited first.
StopLoop(id) ==
    /\ LoopAt(id, "idle")
    /\ LoopGoto(id, "stopping")
    /\ UNCHANGED <<vars, rows, heard>>

\* retire: the holder fails whatever is still waiting.
Retired(row) == row.status \notin Settled

FailWaiting(id) == HoldsLiveLease(id) /\ Update(RunOf(id), Retired, Fail)

Retire(id) ==
    /\ LoopAt(id, "stopping")
    /\ IF HoldsLiveLease(id) THEN FailWaiting(id) ELSE UNCHANGED rows
    /\ LoopGoto(id, "over")
    /\ UNCHANGED <<vars, heard>>

\* retire rejects: the drive ends all the same.
RetireFails(id) ==
    /\ LoopAt(id, "stopping")
    /\ UNCHANGED rows \/ FailWaiting(id)
    /\ LoopGoto(id, "over")
    /\ UNCHANGED <<vars, heard>>

\* The process is killed.
Dies(id) ==
    /\ id \in DOMAIN grants
    /\ loop[id].pc # "dead"
    /\ LoopGoto(id, "dead")
    /\ UNCHANGED <<vars, rows, heard>>

\* The store's other transactions.  An attempt releases its lease or ends its run
\* before its loop starts or after it is over.
StoreStep ==
    /\ \/ \E r \in Runs : Admission(r) \/ UserRequest(r) \/ RunWrite(r)
       \/ \E id \in 1..Len(grants) : loop[id].pc \in {"none", "over"} /\ LeaseCall(id)
    /\ UNCHANGED <<rows, loop, heard>>

-----------------------------------------------------------------------------
(* Specification *)

LoopStep(id) == ClaimSteering(id) \/ Send(id) \/ Acknowledge(id) \/ Retire(id)
CallFails(id) == ClaimFails(id) \/ FinishFails(id) \/ RetireFails(id)

SteeringNext ==
    \/ StoreStep
    \/ \E r \in Runs, k \in Keys : Request(r, k)
    \/ \E id \in 1..MaxLeases : StartLoop(id) \/ LoopStep(id) \/ StopLoop(id) \/ Dies(id)
    \/ \E id \in 1..MaxLeases : CallFails(id)

SteeringSpec == SteeringInit /\ [][SteeringNext]_steerVars

\* The loop ticks on a timer and its store calls return.  Nothing starts or ends a
\* drive by fairness.
FairSteeringSpec == SteeringSpec /\ \A id \in 1..MaxLeases : WF_steerVars(LoopStep(id))

-----------------------------------------------------------------------------
(* Properties *)

\* A message reaches the CTO at most once, over takeovers, repeated requests, lost
\* acknowledgements and late acceptances.
HeardOnce == \A r \in Runs, k \in Keys : heard[r][k] <= 1

\* A message said to be delivered was heard.
DeliveredWasHeard ==
    \A r \in Runs : \A i \in DOMAIN rows[r] :
        rows[r][i].status = "delivered" => heard[r][rows[r][i].key] > 0

\* Each message gets one verdict in the ledger, which its row shows from then on.
OneVerdict ==
    \A r \in Runs : \A i \in DOMAIN rows[r] :
        rows[r][i].verdicts = IF rows[r][i].status \in Settled THEN 1 ELSE 0

\* Messages of a run that are in delivery together carry one lease, however many
\* attempts have taken one and not come back; and more than one is in delivery only
\* where a failed call of that attempt's loop has asked the run to stop.
OneInDelivery ==
    \A r \in Runs : \A i, j \in DOMAIN rows[r] :
        rows[r][i].status = "delivering" /\ rows[r][j].status = "delivering" =>
            /\ rows[r][i].lease = rows[r][j].lease
            /\ i # j => loop[rows[r][i].lease].stopAsked

\* A key names one message of a run.
KeysDiffer ==
    \A r \in Runs : \A i, j \in DOMAIN rows[r] : rows[r][i].key = rows[r][j].key => i = j

\* A message in delivery is in the hands of the attempt whose lease it carries, as
\* long as that attempt is alive and no failed call has asked its run to stop.
DeliveryIsInHand ==
    \A r \in Runs : \A i \in DOMAIN rows[r] :
        rows[r][i].status = "delivering" =>
            LET id == rows[r][i].lease IN
            /\ id \in 1..MaxLeases
            /\ id \in DOMAIN grants
            /\ RunOf(id) = r
            /\ \/ loop[id].pc \in {"sending", "acking"} /\ loop[id].key = rows[r][i].key
               \/ loop[id].pc = "dead"
               \/ loop[id].stopAsked

\* What an attempt has in hand is a message it claimed and nobody can claim again.
HandIsClaimed ==
    \A id \in 1..MaxLeases :
        loop[id].pc \in {"sending", "acking"} =>
            /\ id \in DOMAIN grants
            /\ \E i \in DOMAIN rows[RunOf(id)] :
                  LET row == rows[RunOf(id)][i] IN
                  row.key = loop[id].key /\ row.lease = id /\ row.status # "requested"

\* Nobody heard a message before it was claimed, or before its attempt sent it.
HeardIsClaimed ==
    \A r \in Runs, k \in Keys :
        heard[r][k] > 0 =>
            \E i \in DOMAIN rows[r] : rows[r][i].key = k /\ rows[r][i].status # "requested"
SentOnlyOnce ==
    \A id \in 1..MaxLeases :
        /\ loop[id].pc = "sending" => heard[RunOf(id)][loop[id].key] = 0
        /\ loop[id].pc = "acking" /\ loop[id].delivered => heard[RunOf(id)][loop[id].key] > 0

\* The inductive invariant behind the four properties above.
SteeringInv ==
    /\ SteeringTypeOK
    /\ KeysDiffer
    /\ DeliveryIsInHand
    /\ HandIsClaimed
    /\ HeardIsClaimed
    /\ SentOnlyOnce
    /\ HeardOnce
    /\ DeliveredWasHeard
    /\ OneVerdict
    /\ OneInDelivery

\* The loop of a run that stays at work under its lease gets through every message,
\* whatever an earlier holder left in delivery.
WaitingIsTaken ==
    \A id \in 1..MaxLeases, r \in Runs, i \in 1..Limit :
        <>[](LoopAt(id, "idle") \/ LoopAt(id, "sending") \/ LoopAt(id, "acking"))
        /\ <>[](id \in DOMAIN grants /\ RunOf(id) = r /\ MayDeliver(id))
            => <>[](i \in DOMAIN rows[r] => rows[r][i].status # "requested")
=============================================================================
