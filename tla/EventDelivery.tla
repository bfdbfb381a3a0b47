---------------------------- MODULE EventDelivery ----------------------------
(***************************************************************************)
(* How one run's durable events reach the browsers that follow it: the     *)
(* ledger and its outbox (project-state/postgres.ts), the relays that move *)
(* outbox rows onto the run's Redis stream (relay.ts, outbox-relay.ts),    *)
(* and, in one API process, the shared reader of that stream               *)
(* (redis-topic-stream.ts, run-event-fanout.ts) with the event stream of   *)
(* each follower (routes/run-events.ts).  An event is its sequence number. *)
(* Live text deltas, which nobody replays, are left out.                   *)
(***************************************************************************)
EXTENDS Naturals, FiniteSets, Sequences

CONSTANTS
    Relays,        \* drains that may be at work at once: API replicas, timed-out drains
    Followers,     \* browser tabs following the run through one API process
    BatchSize,     \* outbox rows per drain
    PageSize,      \* ledger rows per replay query
    MaxStream,     \* entries a trimmed stream keeps at least
    MaxEvents,     \* bound: events committed
    MaxFaults      \* bound: failed publications and relays that die

ASSUME SizesArePositive == {BatchSize, PageSize, MaxStream} \subseteq Nat \ {0}
ASSUME BoundsAreNumbers == {MaxEvents, MaxFaults} \subseteq Nat
\* The limit of 10 000 entries is far above what stale drains of 100 rows repeat.
ASSUME StreamOutlastsRepeats ==
    IsFiniteSet(Relays) /\ MaxStream + BatchSize > Cardinality(Relays) * BatchSize

VARIABLES
    committed,     \* run_events of the run are 1..committed
    marked,        \* outbox rows with published_at set
    stream,        \* every entry ever added to the Redis stream
    trimmed,       \* how many of its oldest entries the stream has dropped
    drain,         \* each relay's drain: its batch, and what it has published of it
    pos,           \* entries the shared reader has handed on
    conn,          \* each follower's connection
    faults         \* faults that happened

ledger == <<committed, marked>>
transport == <<stream, trimmed, drain, faults>>
deliveryVars == <<ledger, transport, pos, conn>>

Events == 1..MaxEvents

NoDrain == [batch |-> {}, done |-> {}]

\* A queued task of the stream that reads the ledger; any other task writes an event.
Backfill == 0

\* sent: history, what this connection and the cursor it started from cover;
\* asked: a ledger query is out, and page is the last event its snapshot holds.
NoConn == [pc |-> "off", lastSent |-> 0, sent |-> {}, lastDelivered |-> 0, tasks |-> <<>>,
           asked |-> FALSE, page |-> 0]

ConnPhase == {"off", "replay", "live"}

Live == {f \in Followers : conn[f].pc = "live"}

DeliveryTypeOK ==
    /\ committed \in 0..MaxEvents
    /\ marked \subseteq 1..committed
    /\ stream \in Seq(1..committed)
    /\ trimmed \in 0..Len(stream)
    /\ \A r \in Relays :
          /\ drain[r].batch \subseteq 1..committed
          /\ drain[r].done \subseteq drain[r].batch
    /\ pos \in 0..Len(stream)
    /\ Live = {} => pos = 0
    /\ \A f \in Followers :
          /\ conn[f].pc \in ConnPhase
          /\ conn[f].lastSent \in 0..committed
          /\ conn[f].sent \subseteq Events
          /\ conn[f].lastDelivered \in 0..committed
          /\ conn[f].tasks \in Seq(0..committed)
          /\ conn[f].asked \in BOOLEAN
          /\ conn[f].page \in 0..committed
    /\ faults \in 0..MaxFaults

DeliveryInit ==
    /\ committed = 0
    /\ marked = {}
    /\ stream = <<>>
    /\ trimmed = 0
    /\ drain = [r \in Relays |-> NoDrain]
    /\ pos = 0
    /\ conn = [f \in Followers |-> NoConn]
    /\ faults = 0

-----------------------------------------------------------------------------
(* The ledger and the relays *)

\* insertRunEvent: event and outbox row in one transaction, numbered under the
\* lock of the run's row.
Commit ==
    /\ committed < MaxEvents
    /\ committed' = committed + 1
    /\ UNCHANGED <<marked, transport, pos, conn>>

Pending == {e \in 1..committed : e \notin marked}

\* The oldest BatchSize pending rows.
ListPending(r) ==
    /\ drain[r] = NoDrain
    /\ Pending # {}
    /\ drain' = [drain EXCEPT ![r].batch =
                    {e \in Pending : Cardinality({d \in Pending : d < e}) < BatchSize}]
    /\ UNCHANGED <<ledger, stream, trimmed, faults, pos, conn>>

IsNext(r, e) ==
    LET left == drain[r].batch \ drain[r].done IN e \in left /\ \A d \in left : e <= d

\* xAdd with MAXLEN ~: what exceeds the limit may go, at once or later.
Added(e) ==
    /\ stream' = Append(stream, e)
    /\ trimmed' \in trimmed..Len(stream')
    /\ trimmed' = trimmed \/ Len(stream') - trimmed' >= MaxStream

Publish(r) ==
    /\ \E e \in drain[r].batch :
          /\ IsNext(r, e)
          /\ Added(e)
          /\ drain' = [drain EXCEPT ![r].done = @ \cup {e}]
    /\ UNCHANGED <<ledger, faults, pos, conn>>

\* A failed publication ends the batch: what was published before it is marked.
AfterFailure_Continues(r, e) == [drain[r] EXCEPT !.batch = @ \ {e}]
AfterFailure_MarksBatch(r, e) == [drain[r] EXCEPT !.done = drain[r].batch]
AfterFailure(r, e) == [drain[r] EXCEPT !.batch = drain[r].done]

\* The entry may have reached the stream although the answer did not come back.
PublishFails(r) ==
    /\ faults < MaxFaults
    /\ faults' = faults + 1
    /\ \E e \in drain[r].batch :
          /\ IsNext(r, e)
          /\ Added(e) \/ UNCHANGED <<stream, trimmed>>
          /\ drain' = [drain EXCEPT ![r] = AfterFailure(r, e)]
    /\ UNCHANGED <<ledger, pos, conn>>

Mark(r) ==
    /\ drain[r].batch # {}
    /\ drain[r].done = drain[r].batch
    /\ marked' = marked \cup drain[r].done
    /\ drain' = [drain EXCEPT ![r] = NoDrain]
    /\ UNCHANGED <<committed, stream, trimmed, faults, pos, conn>>

\* The process dies, or the store does not take the mark.
RelayStops(r) ==
    /\ faults < MaxFaults
    /\ faults' = faults + 1
    /\ drain[r] # NoDrain
    /\ drain' = [drain EXCEPT ![r] = NoDrain]
    /\ UNCHANGED <<ledger, stream, trimmed, pos, conn>>

-----------------------------------------------------------------------------
(* The shared reader *)

\* A reader starts before the oldest entry the stream retains.
StartPos_Newest == Len(stream)
StartPos == 0

\* What one delivery queues for a listener that has not had the event: the gap is
\* read from the ledger first.
Handed_NoBackfill(f, e) == <<e>>
Handed(f, e) == IF e > conn[f].lastDelivered + 1 THEN <<Backfill, e>> ELSE <<e>>

\* The next entry still retained goes to every listener in one step; the tasks it
\* queues run later.
Deliver ==
    /\ Live # {}
    /\ pos < Len(stream)
    /\ LET at == (IF pos < trimmed THEN trimmed ELSE pos) + 1
           fresh == {f \in Live : stream[at] > conn[f].lastDelivered}
       IN  /\ at <= Len(stream)
           /\ pos' = at
           /\ conn' = [f \in Followers |->
                 IF f \in fresh
                 THEN [conn[f] EXCEPT !.lastDelivered = stream[at],
                                      !.tasks = @ \o Handed(f, stream[at])]
                 ELSE conn[f]]
    /\ UNCHANGED <<ledger, transport>>

\* The transport fails: every follower is disconnected and the reader is gone.
ReaderFails ==
    /\ Live # {}
    /\ pos' = 0
    /\ conn' = [f \in Followers |->
          IF f \in Live THEN [NoConn EXCEPT !.lastSent = conn[f].lastSent] ELSE conn[f]]
    /\ UNCHANGED <<ledger, transport>>

-----------------------------------------------------------------------------
(* A follower's event stream *)

\* A connection resumes after the last event the browser has.
Open(f) ==
    /\ conn[f].pc = "off"
    /\ \E cursor \in 0..conn[f].lastSent :
          conn' = [conn EXCEPT ![f] = [NoConn EXCEPT !.pc = "replay", !.lastSent = cursor,
                                                     !.sent = 1..cursor]]
    /\ UNCHANGED <<ledger, transport, pos>>

Reading(f) ==
    \/ conn[f].pc = "replay"
    \/ conn[f].pc = "live" /\ conn[f].tasks # <<>> /\ Head(conn[f].tasks) = Backfill

\* listRunEvents: a page of what is committed as the query runs.
Query(f) ==
    /\ Reading(f)
    /\ ~conn[f].asked
    /\ conn' = [conn EXCEPT
          ![f].asked = TRUE,
          ![f].page = IF committed < conn[f].lastSent + PageSize
                      THEN committed ELSE conn[f].lastSent + PageSize]
    /\ UNCHANGED <<ledger, transport, pos>>

\* The page is written; a page that is not full ends the reading.
PageIsLast(f) == conn[f].page < conn[f].lastSent + PageSize
Written(f) ==
    [conn[f] EXCEPT !.asked = FALSE, !.page = 0, !.lastSent = conn[f].page,
                    !.sent = @ \cup (conn[f].lastSent + 1)..conn[f].page]

\* The replay is over: the follower joins the reader, which starts with its first
\* listener.
Join(f) ==
    /\ conn[f].pc = "replay"
    /\ conn[f].asked
    /\ PageIsLast(f)
    /\ conn' = [conn EXCEPT ![f] = [Written(f) EXCEPT !.pc = "live",
                                                      !.lastDelivered = conn[f].page]]
    /\ pos' = IF Live = {} THEN StartPos ELSE pos
    /\ UNCHANGED <<ledger, transport>>

PageArrives(f) ==
    /\ conn[f].asked
    /\ ~(conn[f].pc = "replay" /\ PageIsLast(f))
    /\ conn' = [conn EXCEPT ![f] =
          IF PageIsLast(f) THEN [Written(f) EXCEPT !.tasks = Tail(@)] ELSE Written(f)]
    /\ UNCHANGED <<ledger, transport, pos>>

\* emit: what the cursor covers is not written again.
AlreadySent(f, e) == e <= conn[f].lastSent

Emit(f) ==
    /\ conn[f].pc = "live"
    /\ conn[f].tasks # <<>>
    /\ LET e == Head(conn[f].tasks) IN
          /\ e # Backfill
          /\ conn' = [conn EXCEPT
                ![f].tasks = Tail(@),
                ![f].lastSent = IF AlreadySent(f, e) THEN @ ELSE e,
                ![f].sent = IF AlreadySent(f, e) THEN @ ELSE @ \cup {e}]
    /\ UNCHANGED <<ledger, transport, pos>>

\* The last listener's leaving closes the reader.
PosWithout(f) == IF Live \subseteq {f} THEN 0 ELSE pos

\* The browser goes away, or a write or a ledger query fails.
Disconnect(f) ==
    /\ conn[f].pc # "off"
    /\ conn' = [conn EXCEPT ![f] = [NoConn EXCEPT !.lastSent = conn[f].lastSent]]
    /\ pos' = PosWithout(f)
    /\ UNCHANGED <<ledger, transport>>

-----------------------------------------------------------------------------
(* Specification *)

RelayStep(r) == ListPending(r) \/ Publish(r) \/ Mark(r)
RelayFault(r) == PublishFails(r) \/ RelayStops(r)
FollowerStep(f) == Query(f) \/ Join(f) \/ PageArrives(f) \/ Emit(f)

DeliveryNext ==
    \/ Commit
    \/ \E r \in Relays : RelayStep(r) \/ RelayFault(r)
    \/ Deliver
    \/ ReaderFails
    \/ \E f \in Followers : Open(f) \/ FollowerStep(f) \/ Disconnect(f)

DeliverySpec == DeliveryInit /\ [][DeliveryNext]_deliveryVars

\* Relays poll on a timer, the reader reads on, queries are answered and queued
\* tasks run.  No event, browser or reconnection is owed.
FairDeliverySpec ==
    /\ DeliverySpec
    /\ \A r \in Relays : WF_deliveryVars(RelayStep(r))
    /\ WF_deliveryVars(Deliver)
    /\ \A f \in Followers : WF_deliveryVars(FollowerStep(f))

-----------------------------------------------------------------------------
(* Properties *)

\* However many relays publish and fail, an event reaches the stream for the
\* first time only after its predecessor did.
StreamInOrder ==
    /\ DeliveryTypeOK
    /\ \A i \in 1..Len(stream) :
          stream[i] > 1 => \E j \in 1..i : stream[j] = stream[i] - 1

\* What a browser has been sent has no holes, over late joins, trimmed entries,
\* duplicates and pages: it has every event up to the last one it was sent.
NoHoles == \A f \in Followers : conn[f].pc # "off" => conn[f].sent = 1..conn[f].lastSent

\* Every committed event gets to the stream: none is marked without having been
\* published and then forgotten.
Relayed ==
    \A e \in Events : committed >= e ~> \E i \in 1..Len(stream) : stream[i] = e

\* A connection that stays open is sent every committed event.
FollowedToEnd ==
    \A f \in Followers, e \in Events :
        conn[f].pc = "live" /\ committed >= e
            ~> conn[f].lastSent >= e \/ conn[f].pc = "off"
=============================================================================
