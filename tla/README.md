# Formal model of ReasonateAI's run execution

This directory holds TLA+ modules for the core of the repository: the durable
state of *runs* in PostgreSQL, the workers that execute runs under leases, the
conversations whose turns the runs are, the requests that start and pay for them,
the messages users send to a run at work, the delivery of a run's events to
browsers, the previews of what a run built, and sign-in. TLC checks the modules on
small instances; TLAPS proves, for all values of the constants, the store's
invariants, that the store implements an abstract run lifecycle, and the safety
properties of the workers, conversations, admission, steering, event delivery,
previews, sign-in and of the claim at statement level.

    tlc -workers 2 -config RunStore.cfg MCRunStore      # model-check one run
    tlapm RunStoreProofs.tla                            # check the proofs

`PROJECT.json` lists every run, the definition-to-source map, the deliberate
defects each property is tried against, the hazards and the theorems.

## 1. The system

| Component | State | Operations | Interacts with |
| --- | --- | --- | --- |
| Project-state store (`packages/project-state`, `postgres.ts`) | rows of `runs`, `run_leases`, `build_sessions`, `sandbox_environments`, `run_events`, `outbox` | admit a session or a turn, claim, renew, release, finish, ask, answer, resume, park, cancel, list runnable runs | every other part; one transaction per operation |
| Worker (`apps/worker`) | up to `maxConcurrentRuns` attempts per process; for each a lease keeper and a cancellation poll | poll, claim, recover, prepare, drive, park, settle | store, Docker, checkpoint store |
| Sandbox (`packages/sandbox`) | one container and one named volume per build session | start, attach, destroy, remove the volume; reclaim, which no process calls | worker, previews |
| Checkpoint store (`checkpoint.ts`) | Git bundles per project, newest first | snapshot, restore | worker, API |
| Conversation history (`conversation-history.ts`) | the turns a conversation shows, its head, the boundary each run started from | publish (fenced by the lease), branch, retry, archive, restore | worker, API |
| Admission of runs (`routes/build-sessions.ts`, `routes/conversation-actions.ts`, `usage.ts`) | idempotency keys, the month's usage | look up, reserve a unit, write the run, refund | store, conversations |
| Steering (`project-state/steering.ts`, `worker/steering.ts`) | `run_steering` rows; a delivery loop per drive | request, claim, finish, retire | API, worker, the CTO's session |
| Event delivery (`relay.ts`, `outbox-relay.ts`, `redis-topic-stream.ts`, `run-event-fanout.ts`, `routes/run-events.ts`) | outbox marks, the Redis stream, one shared reader per topic, one event stream per follower | publish, mark, read, hand on, replay, back-fill | store, browsers |
| App previews (`preview-service.ts`, `previews.ts`) | the table, the registry of one process, queues of retirements | start, status, stop, sweep, recover, retire a container | sandbox, worker's start and teardown |
| Sign-in (`routes/auth.ts`, `magic-links.ts`, `identity.ts`, `users.ts`, `sessions.ts`) | links, OIDC states, users, linked Google accounts, first organizations, sessions | redeem, claim, establish a session, resolve, revoke, onboard | API |
| Memberships, authorization, audit, rate windows | tables, counters | single transactions and pure decisions | API |
| Artifact store, contracts, authorization, CTO runtime, web client, services | files, pure functions, prompts and tools, rendering | | |

What makes it hard: workers are separate processes, a lease is only a row with a
time, and no call to Docker or to the checkpoint store is fenced by it. A worker
can be killed or stall between any two awaits, its lease can lapse and be taken
over while it still acts, and a user can answer, cancel or send a message at any
moment. The relay is at-least-once; the shared reader is joined and left while
it reads. A request of the API is a sequence of store calls, any of which may be the
last one its process makes; its client repeats it. The preview service shares one
container among the turns of a session, with itself and with the worker.

What makes each part correct:

- **Store**: one active run per project; no live lease on an ended run; a live
  lease is never taken over; the first end and the first answer stand; question
  and session rows fit their run.
- **Worker**: the recorded outcome and the end agree; no edit is lost; a running run
  has a lease; cancelled, answered and queued runs get on.
- **Steering**: a message is heard at most once, gets exactly one true verdict,
  and does not block its successors. More than one is in delivery only under one lease
  whose loop has asked its run to stop.
- **Event delivery**: the ledger's order on the stream; no hole in what a
  browser was sent; every event arrives.
- **Conversations**: a conversation shows what is at work in it; work a retry or
  a branch discarded stays out of its files, unless its user restored it or a worker
  recovered it for a run that had its outcome; other conversations keep theirs, and only
  the newest holder publishes.
- **Admission**: a request and its repeats have one result; every run is paid for and
  every unit without a run is given back; races stay within the plan.
- **Previews**: the shared container goes with the last who needs it, unless the
  retirement left it to a pending run, had a check rejected or was of a preview never
  attached, or somebody was still at work with a preview when it was stopped. A stopped
  preview becomes active again only for somebody who was at work with it then.
- **Sign-in**: what happens to an account for the first time happens once; a
  Google account keeps its account; what is spent lets nobody in.
- **Reclaim of volumes, rate windows**: see the plan.

## 2. The modules

| Module | Models | Role |
| --- | --- | --- |
| `RunLifecycle` | what the store promises: a run is new, open or ended, and has at most one holder (`Admit`, `Take`, `Drop`, `End`) | abstract specification |
| `RunStore` | the transactions of `postgres.ts`, one action each | core |
| `RunStoreRefinement` | the mapping of `RunStore` to `RunLifecycle` | refinement |
| `LeaseTransactions` | `beginRun`, `finishRun`, `releaseRunLease` of one run, statement by statement | detail of the core |
| `RunExecution` | the workers over `RunStore`, with container, volume, checkpoints and conversation head | composition |
| `Steering` | steering rows and delivery loops over `RunStore` | composition |
| `Conversations` | histories, heads, boundaries and checkpoints over `RunStore` | composition |
| `RunAdmission` | the API's requests over `Conversations`, with keys and usage | composition |
| `Previews` | the preview service over `RunStore`, with the worker's use of the container, its park and its death | composition |
| `EventDelivery` | ledger, outbox, relays, stream, reader, followers | component |
| `SignIn` | links, Google sign-in, accounts, first organizations, sessions | component |
| `MCRunStore`, `MCRunExecution`, `MCSteering`, `MCConversations`, `MCRunAdmission`, `MCPreviews`, `MCSignIn` | constants for TLC | model checking |
| `RunStoreProofs`, `LeaseTransactionsProofs`, `RunExecutionProofs`, `ConversationsProofs`, `RunAdmissionProofs`, `PreviewsProofs`, `SignInProofs` | theorems about the module of that name; the refinement is in `RunStoreProofs` | proofs |
| `RunChannelsProofs` | theorems about `Steering` and `EventDelivery`, the two channels of a run | proofs |

An operator named `X_Y` just before `X` is `X` with the defect `Y` (a dropped
guard, a wrong order). No specification uses one; replacing `X` by it shows that
a property notices.

### RunStore

The variables are the columns that decide: `status`, `cancelled`
(`cancellation_requested_at`), `question` (`pending_tool_call_id`), `answer`,
`parked`, `lease` (the row's id and whether `expires_at` is to come), `session`,
`sandbox`, and the questions the ledger holds, `asked`. `grants` and `endedBy` are
history. Callers are free: any lease id ever granted may be presented at any later
time, which covers delayed, repeated and stale calls. A renewal changes nothing
the properties see, so it is the absence of `LeaseLapses`. `claimRunLease` and
`setRunStatus`, which only tests call, are left out.

### LeaseTransactions

At READ COMMITTED a statement reads the rows committed before it started, and
re-reads only the row it waited for. Each client has a transaction with a program
counter; three variables are the row locks. This is where `RunStore`'s atomic
actions are stronger than the code: the claim's `insert` decides on a snapshot
that a concurrent finish may outdate (section 5).

### RunExecution

`att[w]` is the attempt of worker `w`: its program counter names the await it is at, and
its fields are the locals the executor carries across awaits (the lease id, the
question, whether the lease is lost, the snapshot). Docker state is one container and
one volume per session; an edit of the workspace is a token, the lease id of the attempt
that made it, so that lost and saved work can be told apart. `outcomes` are the ledger's
terminal events, which no transaction of the store reads. The phases follow
`executor.ts`: poll and claim, recovery of a recorded outcome, preparation (stop, start,
restore), drive (edit, ask, resume, stop), park, settle (record, save, publish, drop,
remove, note, finish) and the path of a lost lease.

A start that attaches to a running container and one that creates it are one
step. Attachments, live text, logging and configuration are left out; steering has
its module. A process of the code runs up to `maxConcurrentRuns` attempts, which share
nothing but the process: a member of `Workers` is one of these slots, and an end of the
process is the end of several of them, one after the other.

Processes are prompt: the schedule keeps the deadlines the configuration is built
for. A live holder renews in time (three renewals fit in the lease's life), an
attempt that gave its lease up is gone before the next lease lapses, a listed run
is claimed at once. What a process does that stalls for longer is in `Conversations`
(late publications) and in section 5. When the store cannot be reached, the renewal
and the drain of the ledger fail together: that is one fault.

### Conversations

`history[s]` are the turns a session shows, `head[s]` its row of
`conversation_heads`, `saved[p]` the project's checkpoints, oldest first, each the
set of runs whose edits it contains. A retry cuts the history before a turn and
starts a run from that turn's `boundary`; a branch copies a prefix; both pin the
heads of the project's other conversations first. An attempt is reduced to what a
conversation sees of it: what it starts from, saves and publishes, at any time
before or after its lease lapsed. `Record` is an outcome that reaches the ledger before
the workspace is touched. An attempt that finds one restores no base
(`#recoverRecordedTerminal`): `Recover` saves whatever the session's volume holds,
`PublishRecovered` publishes it. What a recovery put into a session is remembered in
`picked` beside what its user restored. `UpdateConversation` archives and brings back;
a rename changes nothing the module keeps. The fallback of `resolveBoundary` for turns
without a recorded boundary is left out: only workers that are older than the boundary's
table leave such a turn.

### RunAdmission

`req[q]` is a handler's request with the await it is at; `keyed` the rows that hold
an answered key, `units[m]` the sum of the usage records of month `m`. The phases
are the handler's: look the key up, read the usage, reserve, write (the
transaction of `Conversations`), refund, preserve. A database answer may be lost and
a process may end between any two of them. `MonthTurns` is the UTC month.

### Previews

`row` is the table, `rec` the `PreviewRecord` objects of the process and `byId` its
registry. A call is at the await its program counter names. `retiring[s]` is the
chain of `retireSandbox` operations of a session, and `writes` are the updates sent
without waiting. `attempt[id]` is the worker's use of the container: its start, the
teardown's look at `getBySession`, the park of an unanswered run (mark, release, then
destroy, whatever preview there is), or its death, which leaves the container running. A
refresh probes in one step and fails the record in another, whatever became of it in
between. The first two checks of a retirement may be rejected (`RetireRejected`): the row
says stopped and the container stays; the third takes a rejection for an active run. A
recovery one of whose retirements is rejected registers nothing (`RecoveryRejected`). A
record that was never attached removes a container named after its preview, which is
not the session's (`RetireDestroy`). `left[s]` remembers why a retirement left the
container, `overlapped` the rows that were stopped while somebody was still at work
with them. An end of the process forgets everything but the table; `Recover` is what
the next one makes of it. Rejected updates of the table and a removal that Docker
refuses are left out, with host ports, the relay, the proxied traffic and its tokens.

### SignIn

A request is at the statement its program counter names (`claim` or `claimGoogle`,
then the statements of `establishSession`), and may die at any of them. A link or
an OIDC state is redeemed by one conditional update; the account comes from
the unique index on the lowercased address, or from the subject of the Google account;
the first organization is looked for again under the user's row lock. Rate windows,
CSRF, the browser a link is bound to, invitations and profiles (display names too) are
left out. `CompleteOnboarding` writes where `onboarding_completed_at` is null, as its statement does.

### Steering

`rows` are the `run_steering` rows in creation order, `loop[id]` the delivery loop of
the attempt with lease `id`, `heard` what reached the CTO, which no transaction sees.
`Send` covers `sendSignal` and the 15-second wait: accepted, discarded, or not
confirmed, heard all the same or not. `ClaimFails`, `FinishFails` and `RetireFails` are
store calls that reject, with nothing written or with the answer lost: the loop only
asks the run to stop (`stopAsked`) and its timer ticks on, so it may claim a second
message under the same lease before the drive stops it. `StoreStep` is the rest of the
store; an attempt releases its lease or ends its run only before its loop starts or
after it is over, as `#drive`'s `finally` does.

### EventDelivery

An event is its sequence number; `committed` is the ledger. `drain[r]` is the
batch of one drain and what it has published: the two drains stand for API
replicas or for a drain that timed out and is still at work. The stream keeps its
history and `trimmed`, the number of entries dropped. `conn[f]` is one follower's
event stream: its cursor `lastSent`, the queue of chained tasks, a ledger page in
flight, and `lastDelivered`, the fan-out's cursor. A delivery reaches all listeners
in one step, as the synchronous loop does; the tasks it queues run later.

## 3. What the runs check

| Run | Instance | Question |
| --- | --- | --- |
| `run_store` | two turns of one session and a second session of the project, 1 question, 2 answers, 2 leases | the store's invariants, the inductive invariant of the proofs, the step properties, and the refinement |
| `lease_transactions` | 3 connections, 2 leases | no live lease row is replaced, a granted lease is for an open run, no deadlock |
| `run_execution` | 2 workers, 1 run, 1 question, 1 fault | leases, outcomes and work survive one fault anywhere; cancelled, answered and queued runs get on |
| `steering` | 1 run, 2 leases, 3 keys, 2 messages | heard once, one true verdict, nothing held up |
| `event_delivery` | 2 drains, 1 follower, 2 events, 1 fault | order, no holes, everything arrives |
| `conversations` | 2 conversations, 3 runs, 2 leases, 1 restore | histories, heads and files over turns, branches, retries, archiving and late attempts |
| `run_admission` | 3 requests, 2 keys, 2 runs a month, 2 months, 1 fault | one result per key, every run paid, refunds, the plan |
| `previews` | 2 turns of a session, 1 question, 2 previews, 2 API calls at once besides sweep and retirements, 3 records, 3 requests or ends of processes, 1 restart | the shared container, stopped previews |
| `sign_in` | 2 requests, 1 link, 2 OIDC states, 1 Google account, 2 addresses in 3 spellings, 1 fault | first times, linked accounts, spent credentials |
| `event_delivery_late_join`, `run_admission_refund`, `conversations_superseded_work` | two followers; as `run_admission`; a turn and its retry in one conversation, 3 leases, no restore | section 5 |

Each module has one type invariant, which is a conjunct of one of its invariants.

Why the bounds are enough. Two runs of a session are the smallest case of "an
earlier run ends late", a second session of the project the smallest of
"competing". Two leases give a holder and one that took over. In `run_execution`
the bound of six leases never blocks: with seven the state space is the same. One
fault gives a crash at every program point, and a lapse or a takeover needs no
fault. Three clients in `LeaseTransactions` are two claims and a finish.
`EventDelivery` has the smallest stream that outlasts what a stale drain repeats
(the code keeps 10 000 entries and drains 100 rows), so both trimming and repeated
entries occur. The steering limit is two instead of ten, with a third key to meet
it.

In `Conversations` three runs are the smallest case of a turn that was retried or
branched while another conversation of the project works on. `RunAdmission` needs three
requests for a race for the last of two units, or for a repeat beside another
request. Its constraint `AttemptsComplete` lets the attempts between requests take
their course (lapses and failures are in `Conversations`), archives only in a
first month without a fault, and turns the month only on a request that it finds;
requests are symmetric. Two previews of two turns are the smallest case of a shared
container; three requests are one for each preview and a stop, an answer, a sweep or the
death of a worker. `View` drops record objects nothing refers to and what no step asks
about again (how a run ended, attempts that are over, which reason left a container); API
calls are symmetric, and so are the two turns, which only their admission tells
apart. Two requests of `SignIn`
race by link and by Google for one address spelled in two ways, and a second OIDC
state and address let the Google account change its address; two sessions are an
earlier one and the one that replaces it.

Deadlock is not checked: users owe nothing, so every instance may come to rest.

## 4. Fairness

- `RunExecution`: weak fairness of each worker's own steps that are not faults
  (the poll timer, promises that settle), and of the lapse of each lease (time
  passes). An agent that is driven may edit, ask or end; it is assumed to end or
  to ask at some time, which the stop grace and the suspension timeout give. No
  user has to answer, cancel or send.
- `LeaseTransactions`: strong fairness of each client's statements, because
  PostgreSQL queues the waiters of a lock.
- `EventDelivery`: weak fairness of drains (timer), of the reader, and of a
  connection's queries and tasks. No event, browser or reconnection is owed.
- `Steering`: weak fairness of the loop's steps. Starting and stopping a drive are
  not owed.

Liveness is stated where the code promises that something gets on by itself. A
request, a preview or a sign-in that is given up is given up for good, until its user
asks again, so `Conversations`, `RunAdmission`, `Previews` and `SignIn` state none.

## 5. Where code and documentation disagree

Three are runs that TLC refutes:

- `event_delivery_late_join`: a follower that joins a reader already at work
  misses what the reader handed on between its ledger query and its subscription,
  until a further event shows the gap. `pump`'s comment says that reading from the
  start of the stream covers this; it does so for the first consumer only.
- `run_admission_refund`: a refund is recorded in the month of the refund, not of its
  reservation. When the month turns in between, the new month's total is -1, which
  the schema of the snapshot refuses until a run makes up for it.
  `allocateOrRefund`'s comment says the refund lands in the reservation's period.

- `conversations_superseded_work`: a retry whose first attempt fails before it restores
  anything, records that outcome and dies before `finishRun` is recovered by an attempt
  that snapshots the volume as it is, with the edits of the turn the retry superseded, and
  publishes it as the conversation's head (`executor.ts:517-528`).
  `docs/operations/conversation-history.md:7` says that the worker restores the source
  before the retried turn and leaves the superseded ones out.

Seen while modelling and not kept as runs:

- `finishRun` guards the session row by the run but not the sandbox row: a repeated
  call sets the sandbox of the next turn to `destroyed`.
- A claim can commit a live lease row for a run that a concurrent `finishRun` ended,
  against "a run is never left terminal while a live lease still covers it". Nothing
  is executed under it and it lapses.
- `#park` releases its lease and then destroys the container by name; the next holder
  may have started in it.
- The volume is removed without another look at the lease; after a long stall it is
  the successor's volume. `takeRunAnswer` is not fenced by the lease either.
- The worker's teardown looks at the session's newest preview only; a newer one that
  failed hides an older one that is shown, and its container goes.
- A preview that is stopped before it was attached runs `docker rm` on `preview-<id>`
  (`preview-service.ts:414-420`), a name no container of the session has: the shared
  container runs on, against the comment that "the last owner releases the shared
  sandbox exactly once" (440-441). A rejected check of a retirement leaves it too, and a
  rejected one during a recovery leaves every preview of that recovery unregistered.
- The update of a preview to ready is not waited for and may commit after its stop; a
  refresh that fails does not look whether its preview was stopped while it probed.
- `listRunnableRuns` says it applies exactly `beginRun`'s predicate, but `beginRun` also
  accepts a parked run nobody answered.
- A holder whose lease was taken over can end the run once the taker's lease has
  lapsed. On a lost lease the run is ended before its outcome is recorded, and a
  crash in between leaves none.
- A `finish` that rejects leaves its message in delivery while the loop's timer goes on
  until the drive ends (`worker/steering.ts:98`), so two messages of a run may be in
  delivery under one lease. `OneInDelivery` says just that; none is heard twice.
- A steering message accepted after the drive retired its messages stays `requested` on
  the ended run.
- `.context/PHASE.md:134` says audit events are written in the same transaction; those
  of sign-in and sign-out are statements of their own.

## 6. What is proved

`RunStoreProofs`, for any runs, sessions, projects, workers, calls and answers and
any bounds, from the assumptions named in `RunStore` (the session of a run and the
project of a session are functions; `None` is no value):

- `Invariance`: `Spec => []IInv`. `IInv` is the conjunction of the type invariant,
  the store's invariants and two links they need: a lease row carries an id
  granted for that run, and a session row names a run of its session. The parts
  need each other. That a claim keeps `SessionTellsLatestRun` needs
  `OnlyLatestTurnPending`: the claimed run is unfinished, hence the one its
  session row names. That a finish keeps `NoLiveLeaseOnEndedRun` needs the link
  between lease ids and runs. The proof has one step per action and below it one
  per conjunct that the action can disturb.
- `TypeCorrect`, `ProjectExclusion`, `QuestionsFit`, `SessionRowTruth`,
  `LatestTurn`: invariants, from `Invariance`. That no live lease is on an ended run is a
  conjunct the others need; it is no theorem of its own, because the code, whose claim is
  not one step, does not have it (section 5).
- `FirstEnd`, `LeaseExclusion`, `AnswerKept`: the step properties, from the
  invariant and each action.

- `Refinement`: `Spec => RefinesLifecycle`. The initial states map to initial states
  and each transaction to `Admit`, `Take`, `Drop`, `End` or a stutter. The only
  additional invariant is that a run with a lease id was claimed.

`LeaseTransactionsProofs` (the bound on leases is a natural number):

- `LocksAndRowsAgree`, the inductive invariant, and from it `LiveRowsAreKept`
  (`LiveRowKept`) and `GrantedClaimsRun` (`GrantedClaimRuns`). At READ COMMITTED the
  danger is a statement that acts on what an earlier one read. The invariant says what
  each program counter entitles a transaction to: which locks it has, that what it read
  under a lock is still so (`LocksHeld`, `WritesPlaced`), that lease ids in hand are new
  (`IdsIssued`, `FreshIds`), and that the row an insert decides to replace is dead
  (`InsertsOverDead`).

`RunExecutionProofs`:

- `ExecInvariance`, and from it `RunsStayRecoverable` (`NoRunningWithoutLease`),
  `LedgerTellsTheEnd` (`OutcomesAgree`) and `WorkIsKept` (`NoWorkLost`). The invariant
  contains the store's `IInv`. It adds that an attempt at a given await holds what it
  was given there (`LeasesFit`), that a parked run is on no list and a running one has a
  lease (`ParkedUnlisted`, `RunningIsLeased`), that the ledger's outcome is of the lease
  that may end the run (`OutcomesFit`), and where each edit is (`WorkInv`). The many
  moves of an attempt that leave the store alone are first reduced to one relation,
  `HolderMove`. The timing of section 2 is part of the module: the theorems say nothing
  of an attempt that stalls for longer.
- `WorkersUseTheStore`: `ExecSpec => Spec`, so the theorems of `RunStoreProofs` hold
  here.

`ConversationsProofs`:

- `ConvInvariance`, and from it `ConversationsShowTheirWork` (`TurnsFitHistory`),
  `DiscardedWork` (`DiscardedWorkStaysOut`), `OthersKeepTheirFiles`
  (`OthersFilesStand`) and `LateAttemptsPublishNothing` (`TakenOverNeverPublishes`).
  Discarded work could come back through a checkpoint, a boundary, a head, an attempt's
  start or a late publication. Hence the invariant says of each of them what work it
  can contain (`CheckpointsFit`, `FilesFit`, `WorkFits`), and that an attempt which still
  has its lease is of a turn that is shown (`TurnsFit`, `LeasesFit`).
- `ConvSpec => Spec` is not claimed: a branch copies turns, so the row of the new
  session names a run of another session, which `RunStore` never does. Of the store's
  invariants the proof uses those that do not speak of that row.

`RunAdmissionProofs` (the plan and the number of months are positive, the number of
faults is natural, `None` is no request):

- `AdmInvariance`, and from it `OneResult` (`OneResultPerKey`) and `PlanIsKept`
  (`WithinPlan`). A request's fields fit its program counter (`AsksFit`), a key's row
  names what its request made (`RowsFit`), an accepted request names the run of its key
  (`ResultsFit`). That a month stays within its plan needs that its units cover its runs
  and the requests on their way (`PlanFits`).
- `RequestsKeepConversations`: `AdmSpec => ConvSpec`. With `ConvInvariance` it gives that
  each run a request made exists (`MadeExist`), from which `RunsArePaid`
  (`EveryRunIsPaid`) and `UnitsAreSpent` (`UnitsMatchRuns`) follow with `SumsFit`.
- A step of a request either passes by the conversations or creates one run, and in the
  books it idles, takes, gives back or spends a unit; each lemma is stated for these.
- The total over the months is a recursive function. What it does when one month
  changes is proved by induction, as a least element of the set of months where it
  fails (`LeastNatural`, `SetInduction`, `SumMoves`).

`RunChannelsProofs`, on `Steering`, with two more assumptions (the limit is positive,
`None` is no key):

- `SteeringImplementsStore`: `SteeringSpec => Spec`. Each step of messages, loops and
  crashes is a step or a stutter of `RunStore`, so the theorems above hold of it.
- `SteeringInvariance`: `SteeringSpec => []SteeringInv`, and from it
  `NeverHeardTwice`, `DeliveredIsTrue`, `VerdictStands` and `DeliveryExclusion`.
  None of the four is inductive alone. A message is sent once because the attempt
  that has it in hand claimed it under its own lease (`HandIsClaimed`), because
  keys differ within a run, and because what was heard is never waiting again
  (`HeardIsClaimed`). A claim leaves the deliveries of one lease, the claiming one, and
  a row that carries this lease already is there because a failed call asked the run to
  stop: it would otherwise be in its loop's hand, and an idle loop has nothing in hand
  (`DeliveryIsInHand`). The lemmas first say what a step does to the rows
  (`InPlace`: each row is kept, taken or judged), then to the loops.

`RunChannelsProofs`, on `EventDelivery`, from the assumptions on sizes there (positive, and the
stream keeps more entries than the drains of stale batches can repeat, as 10 000 to 100
do in the code):

- `DeliveryInvariance`, and from it `StreamStaysInOrder` (`StreamInOrder`) and
  `BrowsersSeeNoHoles` (`NoHoles`). For the stream: what is marked was published, an
  entry's predecessor is before it, and what a drain has in hand joins on to what is
  published (`DoneIsPublished`, `Ordered`, `BatchesJoinOn`). For a browser, the
  tasks that are chained on its connection are followed one by one: each starts where
  the ones before it will have ended, or fetches the gap first (`Chained`,
  `BackfillsCover`), and an event that the reader handed over is queued or sent
  (`DeliveredIsQueued`, `Covered`).

`PreviewsProofs` (the numbers of previews, records and leases are natural, and what a run of
the instance ends with is an outcome of the store):

- `PreviewsUseTheStore`: `PreviewSpec => Spec`, and with it the store's `IInv` here.
- `PreviewInvariance`: `PreviewSpec => []PreviewInv`, and from it `LastOwner`
  (`LastOwnerReleases`) and `StoppedPreviewsStay` (`StopStands`). A call, an update or a
  retirement acts at an await on rows and records it read before it. The invariant says
  that what they hold still names rows and records of the same run and session (`Fits`),
  and that an attempt at work holds its lease (`AttemptsFit`). Whoever may show a
  stopped preview was at work on it when it was stopped (`StartsAreUnderWay`,
  `ExposedIsOverlapped`, from which `StopStands` follows). A preview that is shown has
  somebody who will retire it, and a container that runs has somebody responsible: an
  attempt, a preview, a retirement, a call, or a pending run that nobody has started on
  since its worker died or parked it (`ShownIsKept`, `ContainersHaveOwners`); the last
  to go either destroys it or is noted with the reason it left it. These two speak of a
  process that has not ended yet, as the property does, since a new process knows
  nothing of what only the old one's memory held.
- Every action but the end of the process, the recovery and its rejection is reduced to
  what it may do to the tables, calls, retirements and the host (`StepKinds`,
  `TablesMove`, `OperationsCarried`, `HostCarried`), and each conjunct is proved of
  those.
- The recovery numbers the records it makes and queues the retirements of a session in
  the order of their rows. That such a numbering exists, and that the ranks in a finite
  set of numbers are a sequence of it, are `Numbering` and `Ranks`.

`SignInProofs`, from the assumptions cited:

- `SignInInvariance`: `SignInSpec => []SignInInv`, and from it `EachFirstOnce`
  (`FirstTimesOnce`), `SubjectKept` (`SubjectKeepsAccount`) and `SpentIsSpent`
  (`SpentStaysSpent`). None follows from the rows alone: what a request holds between
  its statements has to be said as well. A first organization is recorded once because
  the row lock lets nobody insert another one, and whoever is answered has it because a
  request past `list` owns one (`OrganizationInv`). A first sign-in is recorded once
  because the requests that created an account are of different accounts, and none of
  theirs is recorded yet (`FirstInv`). Onboarding is recorded once because its statement
  writes only where no onboarding is recorded yet. A subject keeps its account because
  every request and session of it is of the user it is linked to (`SubjectInv`). A
  credential establishes one session because each request that is under way stands for
  one that was consumed for it, and none of those before `create` has a session yet
  (`SpentInv`); links and OIDC states are told apart for that (`CredentialsDiffer`).

Only model-checked: all liveness, which like `ENABLED` the prover does not reach, and
the three properties of section 5 that the code does not have. Every other invariant and
action property of the runs is a theorem. The library's induction theorems take an
operator as a parameter and cannot be used either; where induction over numbers is
needed, the least element of a set does.

## 7. Plan

Done: the modules above. Left, in this order:

1. `Limits`: the windows of the rate limit.
2. The two Docker calls of a start as two steps of `RunExecution`.
3. `VolumeReclaim`, once a process of the repository runs the sweep.

## 8. Not modelled

- The web client, the UI package, the CTO runtime's prompts, tools and text editing,
  the speech and pipeline services, scripts: most of the repository's lines. They are
  rendering, text processing or code outside the processes above; the repository
  tests them directly. What the client does to the system is in the models as
  the free choice of requests and repeats.
- Request parsing, authorization tables, rate windows, audit rows of other events:
  sequential, one transaction each.
- File formats of checkpoints and artifacts, command execution in the sandbox, ports,
  relay and proxy of a preview, live text: pure I/O.
- Volume reclaim (`packages/sandbox/src/reclaim.ts`): only its tests call it.
- `claimRunLease`, `setRunStatus`, `claimOutbox`, `rotateSession`: no production code
  calls them.
