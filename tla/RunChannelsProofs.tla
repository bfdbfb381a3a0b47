------------------------- MODULE RunChannelsProofs -------------------------
(***************************************************************************)
(* Proofs about the two channels of a run, between its browsers and its    *)
(* worker: the messages that go in (Steering) and the events that come out *)
(* (EventDelivery).                                                        *)
(*                                                                         *)
(* For every set of keys, runs, sessions, projects, workers and questions  *)
(* and every value of the bounds, the store under the messages behaves as  *)
(* RunStore says, and no message is delivered twice, judged twice or       *)
(* reported as delivered unheard.  For every set of relays and followers   *)
(* and every size of batches, pages and the stream, events first reach the *)
(* stream in their order, whatever relays publish twice or fail to         *)
(* publish, and what a browser has been sent has no holes.                 *)
(***************************************************************************)
EXTENDS Steering, EventDelivery, RunStoreProofs, FiniteSetTheorems, SequenceTheorems

-----------------------------------------------------------------------------
(* The store under the messages *)

\* Whatever the messages do, the store only makes steps of its own.
LEMMA StepIsStoreStep == [SteeringNext]_steerVars => [Next]_vars
<1> SUFFICES ASSUME [SteeringNext]_steerVars PROVE [Next]_vars
  OBVIOUS
<1>1. CASE StoreStep
  BY <1>1 DEF StoreStep, Next
<1>2. ASSUME NEW r \in Runs, NEW k \in Keys, Request(r, k) PROVE [Next]_vars
  BY <1>2 DEF Request
<1>3. ASSUME NEW id \in 1..MaxLeases, StartLoop(id) \/ LoopStep(id) \/ StopLoop(id) \/ Dies(id)
      PROVE [Next]_vars
  BY <1>3 DEF StartLoop, LoopStep, ClaimSteering, Send, Acknowledge, Retire, StopLoop, Dies
<1>4. ASSUME NEW id \in 1..MaxLeases, CallFails(id) PROVE [Next]_vars
  BY <1>4 DEF CallFails, ClaimFails, FinishFails, RetireFails
<1>5. CASE UNCHANGED steerVars
  BY <1>5 DEF steerVars
<1>6. QED
  BY <1>1, <1>2, <1>3, <1>4, <1>5 DEF SteeringNext

\* A run with messages, loops, crashes and retries is a behaviour of the store
\* of RunStore, so the theorems about the store hold of it.
THEOREM SteeringImplementsStore == SteeringSpec => Spec
<1>1. SteeringInit => Init
  BY DEF SteeringInit
<1>2. QED
  BY <1>1, StepIsStoreStep, PTL DEF SteeringSpec, Spec

-----------------------------------------------------------------------------
(* What a step does to the messages *)

\* What may become of the message that is row i of run r, at the hands of lease id:
\* nothing, a delivery, or its one verdict.
Kept(r, i) == rows'[r][i] = rows[r][i]
Taken(r, i, id) ==
    /\ rows[r][i].status = "requested"
    /\ rows'[r][i] = [key |-> rows[r][i].key, status |-> "delivering", lease |-> id,
                      verdicts |-> rows[r][i].verdicts]
Settles(r, i) ==
    /\ rows[r][i].status \notin Settled
    /\ \E st \in Settled :
          /\ rows'[r][i] = [key |-> rows[r][i].key, status |-> st, lease |-> rows[r][i].lease,
                            verdicts |-> rows[r][i].verdicts + 1]
          /\ st = "delivered" => heard[r][rows[r][i].key] > 0

\* Every message stays in its place and moves on as above.
InPlace(id) ==
    /\ rows' \in [Runs -> Seq(Row)]
    /\ \A r \in Runs :
          /\ Len(rows'[r]) = Len(rows[r])
          /\ DOMAIN rows'[r] = DOMAIN rows[r]
          /\ \A i \in DOMAIN rows[r] : Kept(r, i) \/ Taken(r, i, id) \/ Settles(r, i)

\* Run r keeps as many rows, and the other runs keep theirs.
Rewritten(r) ==
    /\ rows' \in [Runs -> Seq(Row)]
    /\ \A q \in Runs \ {r} : rows'[q] = rows[q]
    /\ Len(rows'[r]) = Len(rows[r])
    /\ DOMAIN rows'[r] = DOMAIN rows[r]

\* The messages of run r in W, none of them settled, get the verdict v, and those said
\* to be delivered were heard.
Judges(r, W, v) ==
    /\ W \subseteq DOMAIN rows[r]
    /\ \A i \in W : rows[r][i].status \notin Settled
    /\ \A i \in W : v = "delivered" => heard[r][rows[r][i].key] > 0
    /\ \A i \in DOMAIN rows[r] :
          rows'[r][i] = IF i \in W THEN Judged(rows[r][i], v) ELSE rows[r][i]

\* Rows rewritten in place stay a sequence of rows, of the same length.
LEMMA RewriteType ==
  ASSUME rows \in [Runs -> Seq(Row)], NEW r \in Runs, NEW f,
         rows' = [rows EXCEPT ![r] = [i \in DOMAIN rows[r] |-> f[i]]],
         \A i \in DOMAIN rows[r] : f[i] \in Row
  PROVE  Rewritten(r) /\ \A i \in DOMAIN rows[r] : rows'[r][i] = f[i]
<1> DEFINE n == Len(rows[r])
           t == [i \in DOMAIN rows[r] |-> f[i]]
<1>1. n \in Nat /\ DOMAIN rows[r] = 1..n
  OBVIOUS
<1>2. t \in [1..n -> Row]
  BY <1>1
<1>3. t \in Seq(Row)
  BY <1>1, <1>2, SeqDef
<1>4. Len(t) = n /\ DOMAIN t = DOMAIN rows[r]
  BY <1>1, <1>2, <1>3, LenProperties
<1>5. rows'[r] = t /\ \A q \in Runs \ {r} : rows'[q] = rows[q]
  OBVIOUS
<1>6. rows' \in [Runs -> Seq(Row)]
  <2> HIDE DEF t
  <2> QED
    BY <1>3, <1>5
<1>7. QED
  BY <1>4, <1>5, <1>6 DEF Rewritten

\* The row of a message, field by field.
LEMMA RowFields ==
  ASSUME rows \in [Runs -> Seq(Row)], NEW r \in Runs, NEW i \in DOMAIN rows[r]
  PROVE  /\ rows[r][i] \in Row
         /\ rows[r][i].key \in Keys
         /\ rows[r][i].status \in SteeringStatus
         /\ rows[r][i].lease \in Nat
         /\ rows[r][i].verdicts \in Nat
<1>1. rows[r][i] \in Row
  OBVIOUS
<1>2. QED
  BY <1>1 DEF Row

\* A key stays, and so does the lease of a message that was claimed, which is never
\* waiting again.
LEMMA ClaimedStays ==
  ASSUME SteeringTypeOK, NEW id \in Nat, InPlace(id), NEW r \in Runs, NEW i \in DOMAIN rows[r]
  PROVE  /\ i \in DOMAIN rows'[r]
         /\ rows'[r][i].key = rows[r][i].key
         /\ rows[r][i].status # "requested" =>
               rows'[r][i].status # "requested" /\ rows'[r][i].lease = rows[r][i].lease
<1>1. DOMAIN rows'[r] = DOMAIN rows[r]
  BY DEF InPlace
<1>2. Kept(r, i) \/ Taken(r, i, id) \/ Settles(r, i)
  BY DEF InPlace
<1>3. CASE Kept(r, i)
  BY <1>1, <1>3 DEF Kept
<1>4. CASE Taken(r, i, id)
  BY <1>1, <1>4 DEF Taken
<1>5. CASE Settles(r, i)
  BY <1>1, <1>5 DEF Settles, Settled
<1>6. QED
  BY <1>2, <1>3, <1>4, <1>5

\* What needs no look at the loops is kept by every step that rewrites in place.
LEMMA InPlaceKeeps ==
  ASSUME SteeringInv, NEW id \in Nat, InPlace(id), UNCHANGED heard
  PROVE  /\ \A r \in Runs : Len(rows'[r]) <= Limit
         /\ KeysDiffer'
         /\ HeardIsClaimed'
         /\ HeardOnce'
         /\ DeliveredWasHeard'
         /\ OneVerdict'
<1>0. SteeringTypeOK /\ \A r \in Runs : DOMAIN rows'[r] = DOMAIN rows[r]
  BY DEF SteeringInv, InPlace
<1>1. \A r \in Runs : Len(rows'[r]) <= Limit
  BY DEF SteeringInv, SteeringTypeOK, InPlace
<1>2. KeysDiffer'
  <2> SUFFICES ASSUME NEW r \in Runs, NEW i \in DOMAIN rows[r], NEW j \in DOMAIN rows[r],
                      rows'[r][i].key = rows'[r][j].key
               PROVE  i = j
    BY <1>0 DEF KeysDiffer
  <2>1. rows[r][i].key = rows[r][j].key
    BY <1>0, ClaimedStays
  <2>2. QED
    BY <2>1 DEF SteeringInv, KeysDiffer
<1>3. HeardIsClaimed'
  <2> SUFFICES ASSUME NEW r \in Runs, NEW k \in Keys, heard[r][k] > 0
               PROVE  \E i \in DOMAIN rows'[r] :
                          rows'[r][i].key = k /\ rows'[r][i].status # "requested"
    BY DEF HeardIsClaimed
  <2>1. PICK i \in DOMAIN rows[r] : rows[r][i].key = k /\ rows[r][i].status # "requested"
    BY DEF SteeringInv, HeardIsClaimed
  <2>2. QED
    BY <1>0, <2>1, ClaimedStays
<1>4. HeardOnce'
  BY DEF SteeringInv, HeardOnce
<1>5. ASSUME NEW r \in Runs, NEW i \in DOMAIN rows[r]
      PROVE  /\ rows'[r][i].status = "delivered" => heard[r][rows'[r][i].key] > 0
             /\ rows'[r][i].verdicts = IF rows'[r][i].status \in Settled THEN 1 ELSE 0
  <2>1. /\ rows[r][i].status = "delivered" => heard[r][rows[r][i].key] > 0
        /\ rows[r][i].verdicts = IF rows[r][i].status \in Settled THEN 1 ELSE 0
    BY DEF SteeringInv, DeliveredWasHeard, OneVerdict
  <2>2. Kept(r, i) \/ Taken(r, i, id) \/ Settles(r, i)
    BY DEF InPlace
  <2>3. CASE Kept(r, i)
    BY <2>1, <2>3 DEF Kept
  <2>4. CASE Taken(r, i, id)
    BY <2>1, <2>4 DEF Taken, Settled
  <2>5. CASE Settles(r, i)
    BY <2>1, <2>5 DEF Settles, Settled
  <2>6. QED
    BY <2>2, <2>3, <2>4, <2>5
<1>6. DeliveredWasHeard' /\ OneVerdict'
  BY <1>0, <1>5 DEF DeliveredWasHeard, OneVerdict
<1>7. QED
  BY <1>1, <1>2, <1>3, <1>4, <1>6

-----------------------------------------------------------------------------
(* The steps that rewrite the messages of a run *)

\* A verdict changes the status of a row and is counted.
LEMMA JudgedRow ==
  ASSUME NEW row \in Row, NEW v \in Settled
  PROVE  /\ Judged(row, v) = [key |-> row.key, status |-> v, lease |-> row.lease,
                              verdicts |-> row.verdicts + 1]
         /\ Judged(row, v) \in Row
<1>1. /\ row.key \in Keys /\ row.lease \in Nat /\ row.verdicts \in Nat
      /\ v \in SteeringStatus
  BY DEF Row, SteeringStatus
<1>2. Judged(row, v) = [key |-> row.key, status |-> v, lease |-> row.lease,
                        verdicts |-> row.verdicts + 1]
  <2>1. row = [key |-> row.key, status |-> row.status, lease |-> row.lease,
               verdicts |-> row.verdicts]
    BY DEF Row
  <2>2. Judged(row, v) = [row EXCEPT !.status = v, !.verdicts = row.verdicts + 1]
    BY DEF Judged
  <2>3. QED
    BY <2>1, <2>2
<1>3. row.verdicts + 1 \in Nat
  BY <1>1
<1>4. QED
  BY <1>1, <1>2, <1>3 DEF Row

\* The attempt whose loop makes a step has a lease, of an existing run.
LEMMA LoopHasRun ==
  ASSUME TypeOK, NEW id \in DOMAIN grants
  PROVE  id \in Nat /\ RunOf(id) \in Runs
<1>1. grants \in Seq(Grant) /\ DOMAIN grants = 1..Len(grants)
  BY DEF TypeOK
<1>2. QED
  BY <1>1, GrantOf DEF RunOf

\* Two messages cannot both be the oldest one waiting.
LEMMA OldestIsOne ==
  ASSUME SteeringTypeOK, NEW r \in Runs, NEW i \in Oldest(r), NEW j \in Oldest(r)
  PROVE  i = j
<1>1. DOMAIN rows[r] \subseteq Nat
  BY DEF SteeringTypeOK
<1>2. /\ i \in DOMAIN rows[r] /\ rows[r][i].status = "requested"
      /\ j \in DOMAIN rows[r] /\ rows[r][j].status = "requested"
      /\ \A k \in 1..(i - 1) : rows[r][k].status # "requested"
      /\ \A k \in 1..(j - 1) : rows[r][k].status # "requested"
  BY DEF Oldest
<1>3. i \in Nat \ {0} /\ j \in Nat \ {0}
  BY <1>2 DEF SteeringTypeOK
<1>4. ~(i < j) /\ ~(j < i)
  <2>1. i < j => i \in 1..(j - 1)
    BY <1>3
  <2>2. j < i => j \in 1..(i - 1)
    BY <1>3
  <2>3. QED
    BY <1>2, <2>1, <2>2
<1>5. QED
  BY <1>3, <1>4

\* A claim fails what other leases left in delivery and takes the oldest message waiting.
\* What its own lease left there, after a failed call, stays.
LEMMA ClaimEffect ==
  ASSUME TypeOK, SteeringInv, NEW id \in 1..MaxLeases, LoopAt(id, "idle"), TakeOldest(id)
  PROVE  /\ InPlace(id)
         /\ \A q \in Runs \ {RunOf(id)} : rows'[q] = rows[q]
         /\ \A i \in DOMAIN rows[RunOf(id)] :
               rows'[RunOf(id)][i].status = "delivering" =>
                  \/ i \in Oldest(RunOf(id)) /\ Taken(RunOf(id), i, id)
                  \/ /\ Kept(RunOf(id), i)
                     /\ rows[RunOf(id)][i].lease = id
                     /\ loop[id].stopAsked
         /\ \A i \in Oldest(RunOf(id)) : Taken(RunOf(id), i, id)
<1> DEFINE r == RunOf(id)
           f == [i \in DOMAIN rows[r] |->
                   IF Abandoned(id, rows[r][i]) THEN Interrupted(id, rows[r][i])
                   ELSE IF i \in Oldest(r)
                        THEN [rows[r][i] EXCEPT !.status = "delivering", !.lease = id]
                        ELSE rows[r][i]]
<1>0. id \in DOMAIN grants /\ loop[id].pc = "idle" /\ id \in Nat /\ r \in Runs
  BY LoopHasRun DEF LoopAt
<1>1. rows \in [Runs -> Seq(Row)]
  BY DEF SteeringInv, SteeringTypeOK
<1>2. ASSUME NEW i \in DOMAIN rows[r]
      PROVE  /\ f[i] \in Row
             /\ \/ /\ f[i] = rows[r][i] /\ i \notin Oldest(r)
                   /\ f[i].status = "delivering" => f[i].lease = id /\ loop[id].stopAsked
                \/ /\ i \in Oldest(r)
                   /\ rows[r][i].status = "requested"
                   /\ f[i] = [key |-> rows[r][i].key, status |-> "delivering", lease |-> id,
                              verdicts |-> rows[r][i].verdicts]
                \/ /\ rows[r][i].status \notin Settled
                   /\ i \notin Oldest(r)
                   /\ f[i] = [key |-> rows[r][i].key, status |-> "failed",
                              lease |-> rows[r][i].lease, verdicts |-> rows[r][i].verdicts + 1]
    <2> DEFINE row == rows[r][i]
    <2>1. /\ row \in Row /\ row.key \in Keys /\ row.status \in SteeringStatus
          /\ row.lease \in Nat /\ row.verdicts \in Nat
      BY <1>0, <1>1, RowFields
    <2>2. Abandoned(id, row) <=> row.status = "delivering" /\ row.lease # id
      BY DEF Abandoned
    <2>3. row.status = "delivering" /\ row.lease = id => loop[id].stopAsked
      BY <1>0 DEF SteeringInv, DeliveryIsInHand
    <2>4. i \in Oldest(r) => row.status = "requested"
      BY DEF Oldest
    <2>5. CASE row.status = "delivering" /\ row.lease # id
      <3>1. f[i] = Judged(row, "failed")
        BY <2>2, <2>5 DEF Interrupted, Fail
      <3>2. QED
        BY <2>1, <2>4, <2>5, <3>1, JudgedRow DEF Settled
    <2>6. CASE row.status # "delivering" /\ i \in Oldest(r)
      <3>1. f[i] = [row EXCEPT !.status = "delivering", !.lease = id]
        BY <2>2, <2>6
      <3>2. f[i] = [key |-> row.key, status |-> "delivering", lease |-> id,
                    verdicts |-> row.verdicts]
        BY <2>1, <3>1 DEF Row
      <3>3. "delivering" \in SteeringStatus
        BY DEF SteeringStatus
      <3> HIDE DEF f, row
      <3>4. f[i] \in Row
        BY <1>0, <2>1, <3>2, <3>3 DEF Row
      <3>5. QED
        BY <2>4, <2>6, <3>2, <3>4 DEF row
    <2>7. CASE row.status # "delivering" /\ i \notin Oldest(r)
      BY <2>1, <2>2, <2>7
    <2>8. CASE row.status = "delivering" /\ row.lease = id
      BY <2>1, <2>2, <2>3, <2>4, <2>8
    <2>9. QED
      BY <2>5, <2>6, <2>7, <2>8
<1>3. rows' = [rows EXCEPT ![r] = [i \in DOMAIN rows[r] |-> f[i]]]
  BY <1>0, <1>1 DEF TakeOldest
<1>4. /\ rows' \in [Runs -> Seq(Row)]
      /\ \A q \in Runs \ {r} : rows'[q] = rows[q]
      /\ Len(rows'[r]) = Len(rows[r])
      /\ DOMAIN rows'[r] = DOMAIN rows[r]
      /\ \A i \in DOMAIN rows[r] : rows'[r][i] = f[i]
  <2> HIDE DEF f, r
  <2> QED
    BY <1>0, <1>1, <1>2, <1>3, RewriteType DEF Rewritten
<1> HIDE DEF f, r
<1>5. ASSUME NEW i \in DOMAIN rows[r]
      PROVE  /\ Kept(r, i) \/ Taken(r, i, id) \/ Settles(r, i)
             /\ rows'[r][i].status = "delivering" =>
                   \/ i \in Oldest(r) /\ Taken(r, i, id)
                   \/ Kept(r, i) /\ rows[r][i].lease = id /\ loop[id].stopAsked
             /\ i \in Oldest(r) => Taken(r, i, id)
  <2>1. rows'[r][i] = f[i]
    BY <1>4
  <2>2. CASE /\ f[i] = rows[r][i] /\ i \notin Oldest(r)
             /\ f[i].status = "delivering" => f[i].lease = id /\ loop[id].stopAsked
    BY <2>1, <2>2 DEF Kept
  <2>3. CASE /\ i \in Oldest(r)
             /\ rows[r][i].status = "requested"
             /\ f[i] = [key |-> rows[r][i].key, status |-> "delivering", lease |-> id,
                        verdicts |-> rows[r][i].verdicts]
    BY <2>1, <2>3 DEF Taken
  <2>4. CASE /\ rows[r][i].status \notin Settled
             /\ i \notin Oldest(r)
             /\ f[i] = [key |-> rows[r][i].key, status |-> "failed",
                        lease |-> rows[r][i].lease, verdicts |-> rows[r][i].verdicts + 1]
    <3>1. Settles(r, i)
      BY <2>1, <2>4 DEF Settles, Settled
    <3>2. rows'[r][i].status = "failed"
      BY <2>1, <2>4
    <3>3. QED
      BY <2>4, <3>1, <3>2
  <2>5. QED
    BY <1>2, <2>2, <2>3, <2>4
<1>6. InPlace(id)
  BY <1>4, <1>5 DEF InPlace, Kept
<1>7. \A i \in Oldest(r) : i \in DOMAIN rows[r]
  BY DEF Oldest
<1>8. QED
  BY <1>4, <1>5, <1>6, <1>7 DEF r

\* A set W of unsettled messages of one run gets a verdict.
LEMMA JudgingEffect ==
  ASSUME SteeringTypeOK, NEW id \in Nat, NEW r \in Runs, NEW W, NEW v \in Settled,
         Rewritten(r), Judges(r, W, v)
  PROVE  /\ InPlace(id)
         /\ \A q \in Runs \ {r} : rows'[q] = rows[q]
         /\ \A i \in W : rows'[r][i].status \in Settled
         /\ \A i \in DOMAIN rows[r] \ W : Kept(r, i)
<1>1. rows \in [Runs -> Seq(Row)]
  BY DEF SteeringTypeOK
<1>2. ASSUME NEW i \in W PROVE Settles(r, i) /\ rows'[r][i].status \in Settled
  <2>1. i \in DOMAIN rows[r] /\ rows[r][i] \in Row
    BY <1>1, RowFields DEF Judges
  <2>2. rows'[r][i] = [key |-> rows[r][i].key, status |-> v, lease |-> rows[r][i].lease,
                       verdicts |-> rows[r][i].verdicts + 1]
    BY <2>1, JudgedRow DEF Judges
  <2>3. QED
    BY <2>2 DEF Settles, Judges
<1>3. ASSUME NEW i \in DOMAIN rows[r] \ W PROVE Kept(r, i)
  BY DEF Kept, Judges
<1>4. InPlace(id)
  BY <1>2, <1>3 DEF InPlace, Kept, Rewritten
<1>5. QED
  BY <1>2, <1>3, <1>4 DEF Rewritten

\* A verdict settles the attempt's own delivery, if it still has one: what its lease has
\* in delivery besides was left by a failed call.
LEMMA JudgeEffect ==
  ASSUME TypeOK, SteeringInv, NEW id \in 1..MaxLeases, LoopAt(id, "acking"), Judge(id)
  PROVE  /\ InPlace(id)
         /\ \A q \in Runs \ {RunOf(id)} : rows'[q] = rows[q]
         /\ \A i \in DOMAIN rows[RunOf(id)] :
               rows'[RunOf(id)][i].status = "delivering" =>
                  /\ Kept(RunOf(id), i)
                  /\ rows[RunOf(id)][i].lease = id => loop[id].stopAsked
<1> DEFINE r == RunOf(id)
           own(i) == /\ rows[r][i].key = loop[id].key
                     /\ rows[r][i].status = "delivering"
                     /\ rows[r][i].lease = id
           W == {i \in DOMAIN rows[r] : own(i)}
           v == IF loop[id].delivered THEN "delivered" ELSE "failed"
           f == [i \in DOMAIN rows[r] |-> IF own(i) THEN Judged(rows[r][i], v) ELSE rows[r][i]]
<1>0. /\ id \in DOMAIN grants /\ loop[id].pc = "acking" /\ id \in Nat /\ r \in Runs
      /\ SteeringTypeOK /\ v \in Settled
  BY LoopHasRun DEF LoopAt, SteeringInv, Settled
<1>1. /\ rows' = [rows EXCEPT ![r] = [i \in DOMAIN rows[r] |-> f[i]]]
      /\ rows \in [Runs -> Seq(Row)]
  BY <1>0 DEF Judge, Update, SteeringTypeOK
<1>2. \A i \in W : rows[r][i].status \notin Settled
  BY DEF Settled
<1>3. \A i \in W : v = "delivered" => heard[r][rows[r][i].key] > 0
  BY <1>0 DEF SteeringInv, SentOnlyOnce
<1>4. /\ InPlace(id)
      /\ \A q \in Runs \ {r} : rows'[q] = rows[q]
      /\ \A i \in W : rows'[r][i].status \in Settled
      /\ \A i \in DOMAIN rows[r] \ W : Kept(r, i)
  <2>1. /\ W \subseteq DOMAIN rows[r]
        /\ \A i \in DOMAIN rows[r] :
              f[i] = IF i \in W THEN Judged(rows[r][i], v) ELSE rows[r][i]
    OBVIOUS
  <2> HIDE DEF W, v, r, f
  <2>2. \A i \in DOMAIN rows[r] : f[i] \in Row
    BY <1>0, <1>1, <2>1, RowFields, JudgedRow
  <2>3. Rewritten(r) /\ \A i \in DOMAIN rows[r] : rows'[r][i] = f[i]
    BY <1>0, <1>1, <2>2, RewriteType
  <2>4. Judges(r, W, v)
    BY <1>2, <1>3, <2>1, <2>3 DEF Judges
  <2>5. QED
    BY <1>0, <2>3, <2>4, JudgingEffect
<1>5. ASSUME NEW i \in DOMAIN rows[r], rows'[r][i].status = "delivering"
      PROVE  Kept(r, i) /\ (rows[r][i].lease = id => loop[id].stopAsked)
  <2>1. i \notin W
    BY <1>4, <1>5 DEF Settled
  <2>2. Kept(r, i) /\ rows[r][i].status = "delivering"
    BY <1>4, <1>5, <2>1 DEF Kept
  <2>3. rows[r][i].lease = id => rows[r][i].key = loop[id].key \/ loop[id].stopAsked
    BY <1>0, <2>2 DEF SteeringInv, DeliveryIsInHand
  <2>4. QED
    BY <2>1, <2>2, <2>3
<1>6. QED
  BY <1>4, <1>5

\* A retirement that is written leaves nothing in delivery.
LEMMA RetireEffect ==
  ASSUME TypeOK, SteeringInv, NEW id \in 1..MaxLeases, LoopAt(id, "stopping"), FailWaiting(id)
  PROVE  /\ InPlace(id)
         /\ \A q \in Runs \ {RunOf(id)} : rows'[q] = rows[q]
         /\ \A i \in DOMAIN rows[RunOf(id)] : rows'[RunOf(id)][i].status # "delivering"
<1> DEFINE r == RunOf(id)
           v == "failed"
           W == {i \in DOMAIN rows[r] : Retired(rows[r][i])}
           f == [i \in DOMAIN rows[r] |->
                   IF Retired(rows[r][i]) THEN Fail(rows[r][i]) ELSE rows[r][i]]
<1>0. /\ id \in DOMAIN grants /\ id \in Nat /\ r \in Runs
      /\ SteeringTypeOK /\ rows \in [Runs -> Seq(Row)]
  BY LoopHasRun DEF LoopAt, SteeringInv, SteeringTypeOK
<1>1. /\ rows' = [rows EXCEPT ![r] = [i \in DOMAIN rows[r] |-> f[i]]]
      /\ W \subseteq DOMAIN rows[r]
      /\ \A i \in W : rows[r][i].status \notin Settled
      /\ \A i \in DOMAIN rows[r] \ W : rows[r][i].status \in Settled
      /\ \A i \in DOMAIN rows[r] :
            f[i] = IF i \in W THEN Judged(rows[r][i], v) ELSE rows[r][i]
  BY <1>0 DEF FailWaiting, Update, Retired, Fail
<1>2. v \in Settled /\ v # "delivered"
  BY DEF Settled
<1> HIDE DEF W, f, r, v
<1>3. \A i \in DOMAIN rows[r] : f[i] \in Row
  BY <1>0, <1>1, <1>2, RowFields, JudgedRow
<1>4. Rewritten(r) /\ \A i \in DOMAIN rows[r] : rows'[r][i] = f[i]
  BY <1>0, <1>1, <1>3, RewriteType
<1>5. Judges(r, W, v)
  BY <1>1, <1>2, <1>4 DEF Judges
<1>6. /\ InPlace(id)
      /\ \A q \in Runs \ {r} : rows'[q] = rows[q]
      /\ \A i \in W : rows'[r][i].status \in Settled
      /\ \A i \in DOMAIN rows[r] \ W : Kept(r, i)
  BY <1>0, <1>2, <1>4, <1>5, JudgingEffect
<1>7. \A i \in DOMAIN rows[r] : rows'[r][i].status \in Settled
  BY <1>1, <1>6 DEF Kept
<1>8. QED
  BY <1>6, <1>7 DEF Settled, r

-----------------------------------------------------------------------------
(* What a step does to the loops *)

\* A message keeps its key, and once claimed its lease; it never waits again.
CarriesOn ==
    \A r \in Runs : \A i \in DOMAIN rows[r] :
        /\ i \in DOMAIN rows'[r]
        /\ rows'[r][i].key = rows[r][i].key
        /\ rows[r][i].status # "requested" =>
              rows'[r][i].status # "requested" /\ rows'[r][i].lease = rows[r][i].lease

\* An attempt that has a message in hand before and after a step has claimed it.
LEMMA HandsKeep ==
  ASSUME TypeOK, [Next]_vars, SteeringInv, CarriesOn, UNCHANGED heard,
         \A id \in 1..MaxLeases : loop'[id] = loop[id] \/ loop'[id].pc \notin {"sending", "acking"}
  PROVE  HandIsClaimed' /\ SentOnlyOnce'
<1>1. ASSUME NEW id \in 1..MaxLeases, loop'[id].pc \in {"sending", "acking"}
      PROVE  /\ loop'[id] = loop[id]
             /\ id \in DOMAIN grants
             /\ id \in DOMAIN grants'
             /\ RunOf(id) \in Runs
             /\ RunOf(id)' = RunOf(id)
             /\ \E i \in DOMAIN rows[RunOf(id)] :
                  /\ rows[RunOf(id)][i].key = loop[id].key
                  /\ rows[RunOf(id)][i].lease = id
                  /\ rows[RunOf(id)][i].status # "requested"
  <2>1. loop'[id] = loop[id]
    BY <1>1
  <2>2. id \in DOMAIN grants /\ \E i \in DOMAIN rows[RunOf(id)] :
            /\ rows[RunOf(id)][i].key = loop[id].key
            /\ rows[RunOf(id)][i].lease = id
            /\ rows[RunOf(id)][i].status # "requested"
    BY <1>1, <2>1 DEF SteeringInv, HandIsClaimed
  <2>3. QED
    BY <2>1, <2>2, GrantsStay, LoopHasRun DEF RunOf
<1>2. HandIsClaimed'
  <2> SUFFICES ASSUME NEW id \in 1..MaxLeases, loop'[id].pc \in {"sending", "acking"}
               PROVE  /\ id \in DOMAIN grants'
                      /\ \E i \in DOMAIN rows'[RunOf(id)'] :
                            /\ rows'[RunOf(id)'][i].key = loop'[id].key
                            /\ rows'[RunOf(id)'][i].lease = id
                            /\ rows'[RunOf(id)'][i].status # "requested"
    BY DEF HandIsClaimed
  <2>1. PICK i \in DOMAIN rows[RunOf(id)] : /\ rows[RunOf(id)][i].key = loop[id].key
                                            /\ rows[RunOf(id)][i].lease = id
                                            /\ rows[RunOf(id)][i].status # "requested"
    BY <1>1
  <2>2. QED
    BY <1>1, <2>1 DEF CarriesOn
<1>3. SentOnlyOnce'
  BY <1>1 DEF SteeringInv, SentOnlyOnce
<1>4. QED
  BY <1>2, <1>3

\* The loop of lease l goes on, dies, or its run is asked to stop, which is not taken back.
GoesOn(l) ==
    \/ loop'[l] = loop[l]
    \/ loop'[l].stopAsked
    \/ loop'[l].pc = "dead" /\ loop'[l].stopAsked = loop[l].stopAsked

\* A delivery nobody touches stays where it is, while its attempt stays at work on it,
\* dies or is asked to stop.
LEMMA DeliveriesKeep ==
  ASSUME TypeOK, [Next]_vars, SteeringInv,
         \A r \in Runs : \A i \in DOMAIN rows'[r] :
            rows'[r][i].status = "delivering" =>
               /\ i \in DOMAIN rows[r]
               /\ rows'[r][i] = rows[r][i]
               /\ GoesOn(rows[r][i].lease)
  PROVE  DeliveryIsInHand' /\ OneInDelivery'
<1>1. ASSUME NEW r \in Runs, NEW i \in DOMAIN rows'[r], rows'[r][i].status = "delivering",
             NEW id, id = rows'[r][i].lease
      PROVE  /\ id \in 1..MaxLeases
             /\ id \in DOMAIN grants'
             /\ grants'[id].run = r
             /\ \/ loop'[id].pc \in {"sending", "acking"} /\ loop'[id].key = rows'[r][i].key
                \/ loop'[id].pc = "dead"
                \/ loop'[id].stopAsked
  <2>1. i \in DOMAIN rows[r] /\ rows'[r][i] = rows[r][i] /\ id = rows[r][i].lease /\ GoesOn(id)
    BY <1>1
  <2>2. /\ id \in 1..MaxLeases /\ id \in DOMAIN grants /\ grants[id].run = r
        /\ \/ loop[id].pc \in {"sending", "acking"} /\ loop[id].key = rows[r][i].key
           \/ loop[id].pc = "dead"
           \/ loop[id].stopAsked
    BY <1>1, <2>1 DEF SteeringInv, DeliveryIsInHand, RunOf
  <2>3. id \in DOMAIN grants' /\ grants'[id].run = r
    BY <2>2, GrantsStay
  <2>4. QED
    BY <2>1, <2>2, <2>3 DEF GoesOn
<1>2. DeliveryIsInHand'
  BY <1>1 DEF DeliveryIsInHand, RunOf
<1>3. OneInDelivery'
  <2> SUFFICES ASSUME NEW r \in Runs, NEW i \in DOMAIN rows'[r], NEW j \in DOMAIN rows'[r],
                      rows'[r][i].status = "delivering", rows'[r][j].status = "delivering"
               PROVE  /\ rows'[r][i].lease = rows'[r][j].lease
                      /\ i # j => loop'[rows'[r][i].lease].stopAsked
    BY DEF OneInDelivery
  <2>1. /\ i \in DOMAIN rows[r] /\ rows'[r][i] = rows[r][i] /\ GoesOn(rows[r][i].lease)
        /\ j \in DOMAIN rows[r] /\ rows'[r][j] = rows[r][j]
    OBVIOUS
  <2>2. /\ rows[r][i].lease = rows[r][j].lease
        /\ i # j => loop[rows[r][i].lease].stopAsked
    BY <2>1 DEF SteeringInv, OneInDelivery
  <2>3. QED
    BY <2>1, <2>2 DEF GoesOn
<1>4. QED
  BY <1>2, <1>3

\* A loop that goes to another phase has nothing in hand there.
LEMMA LoopRests ==
  ASSUME SteeringTypeOK, NEW id \in 1..MaxLeases, NEW asks \in BOOLEAN,
         NEW phase \in {"idle", "stopping", "over", "dead"},
         loop' = [loop EXCEPT ![id] = Resting(phase, asks)]
  PROVE  /\ loop' \in [1..MaxLeases -> Loop]
         /\ loop'[id].pc = phase
         /\ loop'[id].stopAsked = asks
         /\ \A l \in 1..MaxLeases \ {id} : loop'[l] = loop[l]
         /\ \A l \in 1..MaxLeases : loop'[l].pc \in {"sending", "acking"} <=> loop'[l].key # None
<1> DEFINE next == [pc |-> phase, key |-> None, delivered |-> FALSE, stopAsked |-> asks]
<1>1. loop' = [loop EXCEPT ![id] = next]
  BY DEF Resting
<1>2. next \in Loop
  BY DEF Loop, LoopPhase
<1>3. /\ loop \in [1..MaxLeases -> Loop]
      /\ \A l \in 1..MaxLeases : loop[l].pc \in {"sending", "acking"} <=> loop[l].key # None
  BY DEF SteeringTypeOK
<1>4. loop' \in [1..MaxLeases -> Loop]
  <2> HIDE DEF next
  <2> QED
    BY <1>1, <1>2, <1>3
<1>5. loop'[id] = next /\ \A l \in 1..MaxLeases \ {id} : loop'[l] = loop[l]
  <2> HIDE DEF next
  <2> QED
    BY <1>1, <1>3
<1>6. QED
  BY <1>3, <1>4, <1>5

\* Going to a phase neither asks the run to stop nor takes that back.
LEMMA LoopGoes ==
  ASSUME SteeringTypeOK, NEW id \in 1..MaxLeases, NEW phase, LoopGoto(id, phase)
  PROVE  /\ loop[id].stopAsked \in BOOLEAN
         /\ loop' = [loop EXCEPT ![id] = Resting(phase, loop[id].stopAsked)]
BY DEF SteeringTypeOK, Loop, LoopGoto

\* Steps in place carry every message on.
LEMMA InPlaceCarriesOn ==
  ASSUME SteeringTypeOK, NEW id \in Nat, InPlace(id)
  PROVE  CarriesOn
BY ClaimedStays DEF CarriesOn

\* A step that touches no message, and moves loops only to where they have nothing in
\* hand: the store's own, a loop's start, stop and death, and a call of a loop that
\* failed with nothing written.
LEMMA StepQuiet ==
  ASSUME TypeOK, [Next]_vars, SteeringInv, UNCHANGED <<rows, heard>>,
         loop' \in [1..MaxLeases -> Loop],
         \A l \in 1..MaxLeases : loop'[l].pc \in {"sending", "acking"} <=> loop'[l].key # None,
         \A l \in 1..MaxLeases :
            \/ loop'[l] = loop[l]
            \/ /\ loop'[l].pc \notin {"sending", "acking"}
               /\ \/ loop'[l].stopAsked
                  \/ /\ loop'[l].stopAsked = loop[l].stopAsked
                     /\ loop'[l].pc = "dead" \/ loop[l].pc \notin {"sending", "acking", "dead"}
  PROVE  SteeringInv'
<1>1. InPlace(0) /\ SteeringTypeOK
  BY DEF InPlace, Kept, SteeringInv, SteeringTypeOK
<1>2. CarriesOn
  BY <1>1, InPlaceCarriesOn
<1>3. HandIsClaimed' /\ SentOnlyOnce'
  BY <1>2, HandsKeep
<1>4. DeliveryIsInHand' /\ OneInDelivery'
  <2>1. ASSUME NEW r \in Runs, NEW i \in DOMAIN rows[r], rows[r][i].status = "delivering"
        PROVE  GoesOn(rows[r][i].lease)
    BY <2>1 DEF SteeringInv, DeliveryIsInHand, GoesOn
  <2>2. QED
    BY <2>1, DeliveriesKeep
<1>5. KeysDiffer' /\ HeardIsClaimed' /\ HeardOnce' /\ DeliveredWasHeard' /\ OneVerdict'
  BY <1>1, InPlaceKeeps
<1>6. SteeringTypeOK'
  BY <1>1 DEF SteeringTypeOK
<1>7. QED
  BY <1>3, <1>4, <1>5, <1>6 DEF SteeringInv

\* A loop comes to rest with messages judged in place: what its lease has in delivery
\* then is there because its run was asked to stop.
LEMMA StepRests ==
  ASSUME TypeOK, [Next]_vars, SteeringInv, UNCHANGED heard,
         NEW id \in 1..MaxLeases, id \in DOMAIN grants,
         NEW asks \in BOOLEAN, NEW phase \in {"idle", "stopping", "over", "dead"},
         loop' = [loop EXCEPT ![id] = Resting(phase, asks)],
         InPlace(id),
         \A q \in Runs \ {RunOf(id)} : rows'[q] = rows[q],
         \A i \in DOMAIN rows[RunOf(id)] :
            rows'[RunOf(id)][i].status = "delivering" =>
               Kept(RunOf(id), i) /\ (rows[RunOf(id)][i].lease = id => asks)
  PROVE  SteeringInv'
<1> DEFINE r == RunOf(id)
<1>0. SteeringTypeOK /\ heard' = heard /\ id \in Nat /\ r \in Runs
  BY LoopHasRun DEF SteeringInv
<1>1. /\ loop' \in [1..MaxLeases -> Loop]
      /\ loop'[id].pc = phase /\ loop'[id].stopAsked = asks
      /\ \A l \in 1..MaxLeases \ {id} : loop'[l] = loop[l]
      /\ \A l \in 1..MaxLeases : loop'[l].pc \in {"sending", "acking"} <=> loop'[l].key # None
  BY <1>0, LoopRests
<1>2. CarriesOn
  BY <1>0, InPlaceCarriesOn
<1>3. HandIsClaimed' /\ SentOnlyOnce'
  BY <1>0, <1>1, <1>2, HandsKeep
<1>4. ASSUME NEW q \in Runs, NEW i \in DOMAIN rows'[q], rows'[q][i].status = "delivering"
      PROVE  i \in DOMAIN rows[q] /\ rows'[q][i] = rows[q][i] /\ GoesOn(rows[q][i].lease)
  <2>1. i \in DOMAIN rows[q] /\ rows'[q][i] = rows[q][i]
    BY <1>4 DEF InPlace, Kept
  <2>2. rows[q][i].lease \in 1..MaxLeases /\ RunOf(rows[q][i].lease) = q
    BY <1>4, <2>1 DEF SteeringInv, DeliveryIsInHand
  <2>3. CASE rows[q][i].lease # id
    BY <1>1, <2>1, <2>2, <2>3 DEF GoesOn
  <2>4. CASE rows[q][i].lease = id
    BY <1>1, <1>4, <2>1, <2>2, <2>4 DEF GoesOn
  <2>5. QED
    BY <2>1, <2>3, <2>4
<1>5. DeliveryIsInHand' /\ OneInDelivery'
  BY <1>4, DeliveriesKeep
<1>6. /\ KeysDiffer' /\ HeardIsClaimed' /\ HeardOnce' /\ DeliveredWasHeard' /\ OneVerdict'
      /\ \A q \in Runs : Len(rows'[q]) <= Limit
  BY <1>0, InPlaceKeeps
<1>7. SteeringTypeOK'
  BY <1>0, <1>1, <1>6 DEF SteeringTypeOK, InPlace
<1>8. QED
  BY <1>3, <1>5, <1>6, <1>7 DEF SteeringInv

\* A request adds one message that nobody has claimed or heard of.
LEMMA StepRequest ==
  ASSUME TypeOK, [Next]_vars, SteeringInv, NEW r \in Runs, NEW k \in Keys, Request(r, k)
  PROVE  SteeringInv'
<1> DEFINE new == [key |-> k, status |-> "requested", lease |-> 0, verdicts |-> 0]
           n == Len(rows[r])
<1>0. SteeringTypeOK /\ rows \in [Runs -> Seq(Row)] /\ n \in Nat /\ n <= Limit
  BY DEF SteeringInv, SteeringTypeOK
<1>1. new \in Row
  BY DEF Row, SteeringStatus
<1>2. /\ rows' = [rows EXCEPT ![r] = Append(@, new)]
      /\ loop' = loop /\ heard' = heard
  BY DEF Request
<1>3. /\ rows' \in [Runs -> Seq(Row)]
      /\ \A q \in Runs \ {r} : rows'[q] = rows[q]
      /\ Len(rows'[r]) = n + 1
      /\ DOMAIN rows[r] = 1..n
      /\ DOMAIN rows'[r] = 1..(n + 1)
      /\ \A i \in 1..n : rows'[r][i] = rows[r][i]
      /\ rows'[r][n + 1] = new
  <2> HIDE DEF new
  <2> QED
    BY <1>0, <1>1, <1>2
<1>4. \A q \in Runs : \A i \in DOMAIN rows'[q] :
         \/ i \in DOMAIN rows[q] /\ rows'[q][i] = rows[q][i]
         \/ q = r /\ i = n + 1 /\ rows'[q][i] = new
  BY <1>0, <1>3
<1>5. \A q \in Runs : \A i \in DOMAIN rows[q] : i \in DOMAIN rows'[q] /\ rows'[q][i] = rows[q][i]
  <2>1. ASSUME NEW i \in DOMAIN rows[r] PROVE i \in DOMAIN rows'[r] /\ rows'[r][i] = rows[r][i]
    BY <1>0, <1>3
  <2>2. QED
    BY <1>3, <2>1
<1>6. CarriesOn
  BY <1>5 DEF CarriesOn
<1>7. HandIsClaimed' /\ SentOnlyOnce'
  BY <1>2, <1>6, HandsKeep
<1>8. DeliveryIsInHand' /\ OneInDelivery'
  BY <1>2, <1>4, DeliveriesKeep DEF GoesOn
<1>9. SteeringTypeOK'
  <2>1. n < Limit
    BY <1>0, LimitIsPositive DEF Request, AtLimit
  <2>2. \A q \in Runs : Len(rows'[q]) <= Limit
    <3>1. Len(rows'[r]) <= Limit
      BY <1>0, <1>3, <2>1, LimitIsPositive
    <3>2. \A q \in Runs \ {r} : Len(rows'[q]) <= Limit
      BY <1>0, <1>3 DEF SteeringTypeOK
    <3>3. QED
      BY <3>1, <3>2
  <2>3. QED
    BY <1>0, <1>2, <1>3, <2>2 DEF SteeringTypeOK
<1>10. KeysDiffer'
  <2>1. \A i \in DOMAIN rows[r] : rows[r][i].key # k
    BY DEF Request, KeyUsed
  <2>2. QED
    BY <1>4, <2>1 DEF SteeringInv, KeysDiffer
<1>11. HeardIsClaimed' /\ HeardOnce'
  BY <1>2, <1>5 DEF SteeringInv, HeardIsClaimed, HeardOnce
<1>12. DeliveredWasHeard' /\ OneVerdict'
  BY <1>2, <1>4 DEF SteeringInv, DeliveredWasHeard, OneVerdict, Settled
<1>13. QED
  BY <1>7, <1>8, <1>9, <1>10, <1>11, <1>12 DEF SteeringInv

\* A verdict ends the delivery of the attempt that made it; one that cannot be written
\* asks the run to stop.
LEMMA StepAcknowledge ==
  ASSUME TypeOK, [Next]_vars, SteeringInv, NEW id \in 1..MaxLeases,
         Acknowledge(id) \/ FinishFails(id)
  PROVE  SteeringInv'
<1>0. /\ SteeringTypeOK /\ heard' = heard /\ LoopAt(id, "acking") /\ id \in DOMAIN grants
      /\ UNCHANGED rows \/ Judge(id)
  BY DEF Acknowledge, FinishFails, LoopAt, SteeringInv
<1>1. PICK asks \in BOOLEAN : /\ loop' = [loop EXCEPT ![id] = Resting("idle", asks)]
                              /\ loop[id].stopAsked => asks
                              /\ UNCHANGED rows => asks \/ Judge(id)
  BY <1>0, LoopGoes DEF Acknowledge, FinishFails, AskToStop
<1>2. CASE Judge(id)
  <2>1. /\ InPlace(id)
        /\ \A q \in Runs \ {RunOf(id)} : rows'[q] = rows[q]
        /\ \A i \in DOMAIN rows[RunOf(id)] :
              rows'[RunOf(id)][i].status = "delivering" =>
                 Kept(RunOf(id), i) /\ (rows[RunOf(id)][i].lease = id => asks)
    BY <1>0, <1>1, <1>2, JudgeEffect
  <2>2. QED
    BY <1>0, <1>1, <2>1, StepRests
<1>3. CASE UNCHANGED rows /\ asks
  <2>1. /\ loop' \in [1..MaxLeases -> Loop]
        /\ loop'[id].pc = "idle" /\ loop'[id].stopAsked
        /\ \A l \in 1..MaxLeases \ {id} : loop'[l] = loop[l]
        /\ \A l \in 1..MaxLeases : loop'[l].pc \in {"sending", "acking"} <=> loop'[l].key # None
    BY <1>0, <1>1, <1>3, LoopRests
  <2>2. QED
    BY <1>0, <1>3, <2>1, StepQuiet
<1>4. QED
  BY <1>0, <1>1, <1>2, <1>3

LEMMA StepRetire ==
  ASSUME TypeOK, [Next]_vars, SteeringInv, NEW id \in 1..MaxLeases,
         Retire(id) \/ RetireFails(id)
  PROVE  SteeringInv'
<1>0. /\ SteeringTypeOK /\ heard' = heard /\ LoopAt(id, "stopping") /\ id \in DOMAIN grants
      /\ LoopGoto(id, "over")
      /\ UNCHANGED rows \/ FailWaiting(id)
  BY DEF Retire, RetireFails, LoopAt, SteeringInv
<1>1. /\ loop[id].stopAsked \in BOOLEAN
      /\ loop' = [loop EXCEPT ![id] = Resting("over", loop[id].stopAsked)]
  BY <1>0, LoopGoes
<1>2. CASE FailWaiting(id)
  <2>1. /\ InPlace(id)
        /\ \A q \in Runs \ {RunOf(id)} : rows'[q] = rows[q]
        /\ \A i \in DOMAIN rows[RunOf(id)] : rows'[RunOf(id)][i].status # "delivering"
    BY <1>0, <1>2, RetireEffect
  <2>2. QED
    BY <1>0, <1>1, <2>1, StepRests
<1>3. CASE UNCHANGED rows
  <2>1. /\ loop' \in [1..MaxLeases -> Loop]
        /\ loop'[id].pc = "over" /\ loop'[id].stopAsked = loop[id].stopAsked
        /\ loop[id].pc = "stopping"
        /\ \A l \in 1..MaxLeases \ {id} : loop'[l] = loop[l]
        /\ \A l \in 1..MaxLeases : loop'[l].pc \in {"sending", "acking"} <=> loop'[l].key # None
    BY <1>0, <1>1, LoopRests DEF LoopAt
  <2>2. QED
    BY <1>0, <1>3, <2>1, StepQuiet
<1>4. QED
  BY <1>0, <1>2, <1>3

\* Two attempts never have the same message of the same run in hand.
LEMMA HandsDiffer ==
  ASSUME TypeOK, SteeringInv, NEW id \in 1..MaxLeases, NEW l \in 1..MaxLeases,
         loop[id].pc \in {"sending", "acking"}, loop[l].pc \in {"sending", "acking"},
         RunOf(id) = RunOf(l), loop[id].key = loop[l].key
  PROVE  id = l
<1>1. RunOf(id) \in Runs
  BY LoopHasRun DEF SteeringInv, HandIsClaimed
<1>2. PICK i \in DOMAIN rows[RunOf(id)] :
         rows[RunOf(id)][i].key = loop[id].key /\ rows[RunOf(id)][i].lease = id
  BY DEF SteeringInv, HandIsClaimed
<1>3. PICK j \in DOMAIN rows[RunOf(id)] :
         rows[RunOf(id)][j].key = loop[id].key /\ rows[RunOf(id)][j].lease = l
  BY DEF SteeringInv, HandIsClaimed
<1>4. i = j
  BY <1>1, <1>2, <1>3 DEF SteeringInv, KeysDiffer
<1>5. QED
  BY <1>2, <1>3, <1>4

\* A sending reaches the CTO for the first time, if it does.
LEMMA StepSend ==
  ASSUME TypeOK, [Next]_vars, SteeringInv, NEW id \in 1..MaxLeases, Send(id)
  PROVE  SteeringInv'
<1> DEFINE r == RunOf(id)
           k == loop[id].key
<1>0. /\ SteeringTypeOK /\ loop[id].pc = "sending" /\ id \in DOMAIN grants /\ id \in Nat
      /\ r \in Runs /\ rows' = rows /\ vars' = vars
  BY LoopHasRun DEF Send, LoopAt, SteeringInv
<1>1. /\ loop \in [1..MaxLeases -> Loop] /\ heard \in [Runs -> [Keys -> Nat]]
      /\ \A l \in 1..MaxLeases : loop[l].pc \in {"sending", "acking"} <=> loop[l].key # None
  BY <1>0 DEF SteeringTypeOK
<1>2. k \in Keys
  BY <1>0, <1>1 DEF Loop
<1>3. PICK reaches \in BOOLEAN, confirmed \in BOOLEAN :
         /\ heard' = IF reaches THEN [heard EXCEPT ![r][k] = @ + 1] ELSE heard
         /\ loop' = [loop EXCEPT ![id] = [loop[id] EXCEPT !.pc = "acking",
                         !.delivered = IF confirmed THEN reaches ELSE FALSE]]
  BY <1>1 DEF Send, Unconfirmed
<1>4. /\ loop' \in [1..MaxLeases -> Loop]
      /\ loop'[id].pc = "acking" /\ loop'[id].key = k
      /\ loop'[id].delivered => reaches
      /\ loop'[id].stopAsked = loop[id].stopAsked
      /\ \A l \in 1..MaxLeases \ {id} : loop'[l] = loop[l]
  <2> DEFINE next == [loop[id] EXCEPT !.pc = "acking",
                                      !.delivered = IF confirmed THEN reaches ELSE FALSE]
  <2>0. loop[id] \in Loop
    BY <1>1
  <2>1. next \in Loop
    BY <1>2, <2>0 DEF Loop, LoopPhase
  <2>2. /\ next.pc = "acking" /\ next.key = k /\ (next.delivered => reaches)
        /\ next.stopAsked = loop[id].stopAsked
    BY <2>0 DEF Loop
  <2>3. loop' = [loop EXCEPT ![id] = next]
    BY <1>3
  <2> HIDE DEF next, k
  <2>4. QED
    BY <1>1, <2>1, <2>2, <2>3
<1>5. heard[r][k] = 0
  BY <1>0 DEF SteeringInv, SentOnlyOnce
<1>6. /\ heard' \in [Runs -> [Keys -> Nat]]
      /\ heard'[r][k] = IF reaches THEN 1 ELSE 0
      /\ \A q \in Runs, c \in Keys : q # r \/ c # k => heard'[q][c] = heard[q][c]
  <2> HIDE DEF k, r
  <2>1. QED
    BY <1>0, <1>1, <1>2, <1>3, <1>5
<1>7. SteeringTypeOK'
  BY <1>0, <1>1, <1>2, <1>4, <1>6, NoneIsNoKey DEF SteeringTypeOK
<1>8. grants' = grants
  BY <1>0 DEF vars
<1>9. DeliveryIsInHand'
  BY <1>0, <1>4, <1>8 DEF SteeringInv, DeliveryIsInHand, RunOf
<1>10. HandIsClaimed'
  BY <1>0, <1>4, <1>8 DEF SteeringInv, HandIsClaimed, RunOf
<1>11. SentOnlyOnce'
  <2> SUFFICES ASSUME NEW l \in 1..MaxLeases
               PROVE  /\ loop'[l].pc = "sending" => heard'[RunOf(l)][loop'[l].key] = 0
                      /\ loop'[l].pc = "acking" /\ loop'[l].delivered
                           => heard'[RunOf(l)][loop'[l].key] > 0
    BY <1>8 DEF SentOnlyOnce, RunOf
  <2>1. CASE l = id
    BY <1>4, <1>6, <2>1
  <2>2. CASE l # id /\ loop[l].pc \in {"sending", "acking"}
    <3>1. loop'[l] = loop[l]
      BY <1>4, <2>2
    <3>2. RunOf(l) # r \/ loop[l].key # k
      BY <1>0, <2>2, HandsDiffer
    <3>3. RunOf(l) \in Runs /\ loop[l].key \in Keys
      BY <1>1, <2>2, LoopHasRun DEF SteeringInv, HandIsClaimed, Loop
    <3>4. heard'[RunOf(l)][loop[l].key] = heard[RunOf(l)][loop[l].key]
      BY <1>6, <3>2, <3>3
    <3>5. QED
      BY <3>1, <3>4 DEF SteeringInv, SentOnlyOnce
  <2>3. CASE l # id /\ loop[l].pc \notin {"sending", "acking"}
    BY <1>4, <2>3
  <2>4. QED
    BY <2>1, <2>2, <2>3
<1>12. HeardOnce'
  BY <1>6 DEF SteeringInv, HeardOnce
<1>13. HeardIsClaimed'
  <2>1. \E i \in DOMAIN rows[r] : rows[r][i].key = k /\ rows[r][i].status # "requested"
    BY <1>0 DEF SteeringInv, HandIsClaimed
  <2>2. QED
    BY <1>0, <1>6, <2>1 DEF SteeringInv, HeardIsClaimed
<1>14. DeliveredWasHeard'
  <2> SUFFICES ASSUME NEW q \in Runs, NEW i \in DOMAIN rows[q], rows[q][i].status = "delivered"
               PROVE  heard'[q][rows[q][i].key] > 0
    BY <1>0 DEF DeliveredWasHeard
  <2>1. heard[q][rows[q][i].key] > 0
    BY DEF SteeringInv, DeliveredWasHeard
  <2>2. rows[q][i].key \in Keys
    BY <1>0, RowFields DEF SteeringTypeOK
  <2>3. q # r \/ rows[q][i].key # k
    BY <1>5, <2>1
  <2>4. QED
    BY <1>6, <2>1, <2>2, <2>3
<1>15. KeysDiffer' /\ OneVerdict' /\ OneInDelivery'
  <2>1. \A q \in Runs : \A i \in DOMAIN rows[q] :
           rows[q][i].status = "delivering" => rows[q][i].lease \in 1..MaxLeases
    BY DEF SteeringInv, DeliveryIsInHand
  <2>2. \A l \in 1..MaxLeases : loop'[l].stopAsked = loop[l].stopAsked
    BY <1>4
  <2>3. OneInDelivery'
    BY <1>0, <2>1, <2>2 DEF SteeringInv, OneInDelivery
  <2>4. QED
    BY <1>0, <2>3 DEF SteeringInv, KeysDiffer, OneVerdict
<1>16. QED
  BY <1>7, <1>9, <1>10, <1>11, <1>12, <1>13, <1>14, <1>15 DEF SteeringInv

\* After a claim the run's deliveries are all of the claiming lease: the message taken,
\* and what failed calls of its loop left.
LEMMA TakenInDelivery ==
  ASSUME TypeOK, [Next]_vars, SteeringInv, NEW id \in 1..MaxLeases,
         LoopAt(id, "idle"), TakeOldest(id), UNCHANGED grants,
         \A l \in 1..MaxLeases \ {id} : loop'[l] = loop[l],
         loop[id].stopAsked => loop'[id].stopAsked,
         \A i \in Oldest(RunOf(id)) :
            \/ loop'[id].stopAsked
            \/ loop'[id].pc = "sending" /\ loop'[id].key = rows[RunOf(id)][i].key
  PROVE  DeliveryIsInHand' /\ OneInDelivery'
<1> DEFINE r == RunOf(id)
<1>0. SteeringTypeOK /\ id \in DOMAIN grants /\ id \in Nat /\ r \in Runs
  BY LoopHasRun DEF LoopAt, SteeringInv
<1>1. /\ InPlace(id)
      /\ \A q \in Runs \ {r} : rows'[q] = rows[q]
      /\ \A i \in DOMAIN rows[r] :
            rows'[r][i].status = "delivering" =>
               \/ i \in Oldest(r) /\ Taken(r, i, id)
               \/ Kept(r, i) /\ rows[r][i].lease = id /\ loop[id].stopAsked
  BY ClaimEffect
<1>2. \A q \in Runs : DOMAIN rows'[q] = DOMAIN rows[q]
  BY <1>1 DEF InPlace
<1>3. ASSUME NEW i \in DOMAIN rows'[r], rows'[r][i].status = "delivering"
      PROVE  /\ rows'[r][i].lease = id
             /\ \/ loop'[id].stopAsked
                \/ /\ loop'[id].pc = "sending" /\ loop'[id].key = rows'[r][i].key
                   /\ i \in Oldest(r)
  <2>1. i \in DOMAIN rows[r]
    BY <1>0, <1>2
  <2>2. CASE i \in Oldest(r) /\ Taken(r, i, id)
    BY <2>2 DEF Taken
  <2>3. CASE Kept(r, i) /\ rows[r][i].lease = id /\ loop[id].stopAsked
    BY <2>3 DEF Kept
  <2>4. QED
    BY <1>1, <1>3, <2>1, <2>2, <2>3
<1>4. ASSUME NEW q \in Runs \ {r}, NEW i \in DOMAIN rows'[q], rows'[q][i].status = "delivering"
      PROVE  /\ i \in DOMAIN rows[q] /\ rows'[q][i] = rows[q][i]
             /\ rows[q][i].lease \in 1..MaxLeases /\ rows[q][i].lease \in DOMAIN grants
             /\ RunOf(rows[q][i].lease) = q
             /\ loop'[rows[q][i].lease] = loop[rows[q][i].lease]
             /\ \/ /\ loop[rows[q][i].lease].pc \in {"sending", "acking"}
                   /\ loop[rows[q][i].lease].key = rows[q][i].key
                \/ loop[rows[q][i].lease].pc = "dead"
                \/ loop[rows[q][i].lease].stopAsked
  <2>1. i \in DOMAIN rows[q] /\ rows'[q][i] = rows[q][i]
    BY <1>1, <1>2
  <2>2. /\ rows[q][i].lease \in 1..MaxLeases /\ rows[q][i].lease \in DOMAIN grants
        /\ RunOf(rows[q][i].lease) = q
        /\ \/ /\ loop[rows[q][i].lease].pc \in {"sending", "acking"}
              /\ loop[rows[q][i].lease].key = rows[q][i].key
           \/ loop[rows[q][i].lease].pc = "dead"
           \/ loop[rows[q][i].lease].stopAsked
    BY <1>4, <2>1 DEF SteeringInv, DeliveryIsInHand
  <2>3. rows[q][i].lease # id
    BY <2>2
  <2>4. QED
    BY <2>1, <2>2, <2>3
<1>5. DeliveryIsInHand'
  <2> SUFFICES ASSUME NEW q \in Runs, NEW i \in DOMAIN rows'[q], rows'[q][i].status = "delivering",
                      NEW l, l = rows'[q][i].lease
               PROVE  /\ l \in 1..MaxLeases /\ l \in DOMAIN grants /\ RunOf(l) = q
                      /\ \/ loop'[l].pc \in {"sending", "acking"} /\ loop'[l].key = rows'[q][i].key
                         \/ loop'[l].pc = "dead"
                         \/ loop'[l].stopAsked
    BY DEF DeliveryIsInHand, RunOf
  <2>1. CASE q = r
    BY <1>0, <1>3, <2>1
  <2>2. CASE q # r
    BY <1>4, <2>2
  <2>3. QED
    BY <2>1, <2>2
<1>6. OneInDelivery'
  <2> SUFFICES ASSUME NEW q \in Runs, NEW i \in DOMAIN rows'[q], NEW j \in DOMAIN rows'[q],
                      rows'[q][i].status = "delivering", rows'[q][j].status = "delivering"
               PROVE  /\ rows'[q][i].lease = rows'[q][j].lease
                      /\ i # j => loop'[rows'[q][i].lease].stopAsked
    BY DEF OneInDelivery
  <2>1. CASE q = r
    BY <1>0, <1>3, <2>1, OldestIsOne
  <2>2. CASE q # r
    <3>1. /\ i \in DOMAIN rows[q] /\ rows'[q][i] = rows[q][i]
          /\ j \in DOMAIN rows[q] /\ rows'[q][j] = rows[q][j]
          /\ loop'[rows[q][i].lease] = loop[rows[q][i].lease]
      BY <1>4, <2>2
    <3>2. QED
      BY <3>1 DEF SteeringInv, OneInDelivery
  <2>3. QED
    BY <2>1, <2>2
<1>7. QED
  BY <1>5, <1>6

\* A claim takes a message nobody has heard, once nothing of another lease is in
\* delivery.
LEMMA StepClaim ==
  ASSUME TypeOK, [Next]_vars, SteeringInv, NEW id \in 1..MaxLeases, ClaimSteering(id)
  PROVE  SteeringInv'
<1> DEFINE r == RunOf(id)
<1>0. /\ SteeringTypeOK /\ loop[id].pc = "idle" /\ id \in DOMAIN grants /\ id \in Nat
      /\ r \in Runs /\ heard' = heard /\ vars' = vars
  BY LoopHasRun DEF ClaimSteering, LoopAt, SteeringInv
<1>1. /\ InPlace(id)
      /\ \A q \in Runs \ {r} : rows'[q] = rows[q]
      /\ \A i \in DOMAIN rows[r] :
            rows'[r][i].status = "delivering" =>
               \/ i \in Oldest(r) /\ Taken(r, i, id)
               \/ Kept(r, i) /\ rows[r][i].lease = id /\ loop[id].stopAsked
      /\ \A i \in Oldest(r) : Taken(r, i, id)
  BY ClaimEffect DEF ClaimSteering
<1>2. /\ KeysDiffer' /\ HeardIsClaimed' /\ HeardOnce' /\ DeliveredWasHeard' /\ OneVerdict'
      /\ \A q \in Runs : Len(rows'[q]) <= Limit
  BY <1>0, <1>1, InPlaceKeeps
<1>3. CarriesOn
  BY <1>0, <1>1, InPlaceCarriesOn
<1>4. /\ loop \in [1..MaxLeases -> Loop] /\ grants' = grants
      /\ \A l \in 1..MaxLeases : loop[l].pc \in {"sending", "acking"} <=> loop[l].key # None
  BY <1>0 DEF SteeringTypeOK, vars
<1>5. \A q \in Runs : DOMAIN rows'[q] = DOMAIN rows[q]
  BY <1>1 DEF InPlace
<1>6. CASE Oldest(r) = {}
  <2>1. loop' = loop
    BY <1>4, <1>6 DEF ClaimSteering
  <2>2. HandIsClaimed' /\ SentOnlyOnce'
    BY <1>0, <1>3, <2>1, HandsKeep
  <2>4. DeliveryIsInHand' /\ OneInDelivery'
    BY <1>4, <1>6, <2>1, TakenInDelivery DEF ClaimSteering
  <2>5. SteeringTypeOK'
    BY <1>0, <1>1, <1>2, <2>1 DEF SteeringTypeOK, InPlace
  <2>6. QED
    BY <1>2, <2>2, <2>4, <2>5 DEF SteeringInv
<1>7. CASE Oldest(r) # {}
  <2> DEFINE o == CHOOSE i \in Oldest(r) : TRUE
             k == rows[r][o].key
             next == [loop[id] EXCEPT !.pc = "sending", !.key = k]
  <2>1. /\ o \in Oldest(r) /\ o \in DOMAIN rows[r] /\ rows[r][o].status = "requested"
        /\ k \in Keys
    <3>1. o \in Oldest(r)
      BY <1>7
    <3>2. o \in DOMAIN rows[r] /\ rows[r][o].status = "requested"
      BY <3>1 DEF Oldest
    <3>3. k \in Keys
      BY <1>0, <3>2, RowFields DEF SteeringTypeOK
    <3>4. QED
      BY <3>1, <3>2, <3>3
  <2>2. loop' = [loop EXCEPT ![id] = next]
    BY <1>4, <1>7 DEF ClaimSteering
  <2>3. /\ next \in Loop /\ next.pc = "sending" /\ next.key = k
        /\ next.stopAsked = loop[id].stopAsked
    <3>1. loop[id] \in Loop
      BY <1>4
    <3>2. QED
      BY <2>1, <3>1 DEF Loop, LoopPhase
  <2>4. /\ rows'[r][o].key = k /\ rows'[r][o].status = "delivering" /\ rows'[r][o].lease = id
        /\ o \in DOMAIN rows'[r]
    <3>1. Taken(r, o, id)
      <4> HIDE DEF o, next, k
      <4> QED
        BY <1>1, <2>1
    <3>2. o \in DOMAIN rows'[r]
      <4> HIDE DEF o, next, k
      <4> QED
        BY <1>0, <1>5, <2>1
    <3>3. QED
      BY <3>1, <3>2 DEF Taken
  <2> HIDE DEF next, k, o
  <2>5. /\ loop' \in [1..MaxLeases -> Loop]
        /\ loop'[id].pc = "sending" /\ loop'[id].key = k
        /\ loop'[id].stopAsked = loop[id].stopAsked
        /\ \A l \in 1..MaxLeases \ {id} : loop'[l] = loop[l]
    BY <1>4, <2>2, <2>3
  <2>6. SteeringTypeOK'
    BY <1>0, <1>1, <1>2, <1>4, <2>1, <2>5, NoneIsNoKey DEF SteeringTypeOK, InPlace
  <2>7. \A i \in Oldest(r) : rows[r][i].key = k
    <3>1. ASSUME NEW i \in Oldest(r) PROVE i = o
      BY <1>0, <2>1, OldestIsOne
    <3>2. QED
      BY <3>1 DEF k
  <2>8. DeliveryIsInHand' /\ OneInDelivery'
    BY <1>4, <2>5, <2>7, TakenInDelivery DEF ClaimSteering
  <2>10. heard[r][k] = 0
    <3>1. heard[r][k] \in Nat
      BY <1>0, <2>1 DEF SteeringTypeOK
    <3>2. ASSUME heard[r][k] > 0 PROVE FALSE
      <4>1. PICK i \in DOMAIN rows[r] : rows[r][i].key = k /\ rows[r][i].status # "requested"
        BY <1>0, <2>1, <3>2 DEF SteeringInv, HeardIsClaimed
      <4>2. i = o
        BY <1>0, <2>1, <4>1 DEF SteeringInv, KeysDiffer, k
      <4>3. QED
        BY <2>1, <4>1, <4>2
    <3>3. QED
      BY <3>1, <3>2
  <2>11. HandIsClaimed' /\ SentOnlyOnce'
    <3>1. ASSUME NEW l \in 1..MaxLeases, loop'[l].pc \in {"sending", "acking"}
          PROVE  /\ l \in DOMAIN grants
                 /\ \E i \in DOMAIN rows'[RunOf(l)] :
                       /\ rows'[RunOf(l)][i].key = loop'[l].key
                       /\ rows'[RunOf(l)][i].lease = l
                       /\ rows'[RunOf(l)][i].status # "requested"
                 /\ loop'[l].pc = "sending" => heard[RunOf(l)][loop'[l].key] = 0
                 /\ loop'[l].pc = "acking" /\ loop'[l].delivered
                      => heard[RunOf(l)][loop'[l].key] > 0
      <4>1. CASE l = id
        BY <1>0, <2>4, <2>5, <2>10, <4>1
      <4>2. CASE l # id
        <5>1. loop'[l] = loop[l]
          BY <2>5, <4>2
        <5>2. l \in DOMAIN grants /\ RunOf(l) \in Runs
          BY <3>1, <5>1, LoopHasRun DEF SteeringInv, HandIsClaimed
        <5>3. PICK i \in DOMAIN rows[RunOf(l)] : /\ rows[RunOf(l)][i].key = loop[l].key
                                                 /\ rows[RunOf(l)][i].lease = l
                                                 /\ rows[RunOf(l)][i].status # "requested"
          BY <3>1, <5>1 DEF SteeringInv, HandIsClaimed
        <5>4. \E j \in DOMAIN rows'[RunOf(l)] : /\ rows'[RunOf(l)][j].key = loop[l].key
                                                /\ rows'[RunOf(l)][j].lease = l
                                                /\ rows'[RunOf(l)][j].status # "requested"
          BY <1>3, <5>2, <5>3 DEF CarriesOn
        <5>5. /\ loop[l].pc = "sending" => heard[RunOf(l)][loop[l].key] = 0
              /\ loop[l].pc = "acking" /\ loop[l].delivered => heard[RunOf(l)][loop[l].key] > 0
          BY DEF SteeringInv, SentOnlyOnce
        <5>6. QED
          BY <5>1, <5>2, <5>4, <5>5
      <4>3. QED
        BY <4>1, <4>2
    <3>2. QED
      BY <1>0, <1>4, <3>1 DEF HandIsClaimed, SentOnlyOnce, RunOf
  <2>12. QED
    BY <1>2, <2>6, <2>8, <2>11 DEF SteeringInv
<1>8. QED
  BY <1>6, <1>7

\* A claim that fails may have taken its message, which the loop does not know of.
LEMMA StepClaimFails ==
  ASSUME TypeOK, [Next]_vars, SteeringInv, NEW id \in 1..MaxLeases, ClaimFails(id)
  PROVE  SteeringInv'
<1>0. /\ SteeringTypeOK /\ LoopAt(id, "idle") /\ id \in Nat
      /\ UNCHANGED <<vars, heard>>
      /\ UNCHANGED rows \/ TakeOldest(id)
      /\ loop' = [loop EXCEPT ![id] = Resting("idle", TRUE)]
  BY DEF ClaimFails, LoopAt, AskToStop, SteeringInv
<1>1. /\ loop' \in [1..MaxLeases -> Loop]
      /\ loop'[id].pc = "idle" /\ loop'[id].stopAsked
      /\ \A l \in 1..MaxLeases \ {id} : loop'[l] = loop[l]
      /\ \A l \in 1..MaxLeases : loop'[l].pc \in {"sending", "acking"} <=> loop'[l].key # None
  BY <1>0, LoopRests
<1>2. CASE UNCHANGED rows
  BY <1>0, <1>1, <1>2, StepQuiet
<1>3. CASE TakeOldest(id)
  <2>1. InPlace(id)
    BY <1>0, <1>3, ClaimEffect
  <2>2. /\ KeysDiffer' /\ HeardIsClaimed' /\ HeardOnce' /\ DeliveredWasHeard' /\ OneVerdict'
        /\ \A q \in Runs : Len(rows'[q]) <= Limit
    BY <1>0, <2>1, InPlaceKeeps
  <2>3. HandIsClaimed' /\ SentOnlyOnce'
    BY <1>0, <1>1, <2>1, InPlaceCarriesOn, HandsKeep
  <2>4. DeliveryIsInHand' /\ OneInDelivery'
    BY <1>0, <1>1, <1>3, TakenInDelivery DEF vars
  <2>5. SteeringTypeOK'
    BY <1>0, <1>1, <2>1, <2>2 DEF SteeringTypeOK, InPlace
  <2>6. QED
    BY <2>2, <2>3, <2>4, <2>5 DEF SteeringInv
<1>4. QED
  BY <1>0, <1>2, <1>3

\* Every step keeps the invariant.
LEMMA StepSteering == TypeOK /\ SteeringInv /\ [SteeringNext]_steerVars => SteeringInv'
<1> SUFFICES ASSUME TypeOK, SteeringInv, [SteeringNext]_steerVars PROVE SteeringInv'
  OBVIOUS
<1>0. [Next]_vars /\ SteeringTypeOK
  BY StepIsStoreStep DEF SteeringInv
<1>1. ASSUME UNCHANGED <<rows, loop, heard>> PROVE SteeringInv'
  BY <1>0, <1>1, StepQuiet DEF SteeringTypeOK
<1>2. ASSUME NEW r \in Runs, NEW k \in Keys, Request(r, k) PROVE SteeringInv'
  BY <1>0, <1>2, StepRequest
<1>3. ASSUME NEW id \in 1..MaxLeases, StartLoop(id) PROVE SteeringInv'
  <2>1. /\ LoopGoto(id, "idle") /\ UNCHANGED <<rows, heard>> /\ loop[id].pc = "none"
    BY <1>3 DEF StartLoop, LoopAt
  <2>2. /\ loop' \in [1..MaxLeases -> Loop]
        /\ loop'[id].pc = "idle" /\ loop'[id].stopAsked = loop[id].stopAsked
        /\ \A l \in 1..MaxLeases \ {id} : loop'[l] = loop[l]
        /\ \A l \in 1..MaxLeases : loop'[l].pc \in {"sending", "acking"} <=> loop'[l].key # None
    BY <1>0, <2>1, LoopGoes, LoopRests
  <2>3. QED
    BY <1>0, <2>1, <2>2, StepQuiet
<1>4. ASSUME NEW id \in 1..MaxLeases, StopLoop(id) PROVE SteeringInv'
  <2>1. /\ LoopGoto(id, "stopping") /\ UNCHANGED <<rows, heard>> /\ loop[id].pc = "idle"
    BY <1>4 DEF StopLoop, LoopAt
  <2>2. /\ loop' \in [1..MaxLeases -> Loop]
        /\ loop'[id].pc = "stopping" /\ loop'[id].stopAsked = loop[id].stopAsked
        /\ \A l \in 1..MaxLeases \ {id} : loop'[l] = loop[l]
        /\ \A l \in 1..MaxLeases : loop'[l].pc \in {"sending", "acking"} <=> loop'[l].key # None
    BY <1>0, <2>1, LoopGoes, LoopRests
  <2>3. QED
    BY <1>0, <2>1, <2>2, StepQuiet
<1>5. ASSUME NEW id \in 1..MaxLeases, Dies(id) PROVE SteeringInv'
  <2>1. /\ LoopGoto(id, "dead") /\ UNCHANGED <<rows, heard>>
    BY <1>5 DEF Dies
  <2>2. /\ loop' \in [1..MaxLeases -> Loop]
        /\ loop'[id].pc = "dead" /\ loop'[id].stopAsked = loop[id].stopAsked
        /\ \A l \in 1..MaxLeases \ {id} : loop'[l] = loop[l]
        /\ \A l \in 1..MaxLeases : loop'[l].pc \in {"sending", "acking"} <=> loop'[l].key # None
    BY <1>0, <2>1, LoopGoes, LoopRests
  <2>3. QED
    BY <1>0, <2>1, <2>2, StepQuiet
<1>6. ASSUME NEW id \in 1..MaxLeases, LoopStep(id) PROVE SteeringInv'
  BY <1>0, <1>6, StepClaim, StepSend, StepAcknowledge, StepRetire DEF LoopStep
<1>7. ASSUME NEW id \in 1..MaxLeases, CallFails(id) PROVE SteeringInv'
  BY <1>0, <1>7, StepClaimFails, StepAcknowledge, StepRetire DEF CallFails
<1>8. QED
  BY <1>1, <1>2, <1>3, <1>4, <1>5, <1>6, <1>7 DEF SteeringNext, StoreStep, steerVars

LEMMA InitSteering == SteeringInit => SteeringInv
<1> SUFFICES ASSUME SteeringInit PROVE SteeringInv
  OBVIOUS
<1>1. /\ rows = [r \in Runs |-> <<>>]
      /\ loop = [id \in 1..MaxLeases |-> Resting("none", FALSE)]
      /\ heard = [r \in Runs |-> [k \in Keys |-> 0]]
  BY DEF SteeringInit
<1>2. SteeringTypeOK
  <2>1. rows \in [Runs -> Seq(Row)]
    BY <1>1
  <2>2. loop \in [1..MaxLeases -> Loop] /\ \A id \in 1..MaxLeases : loop[id].key = None
    BY <1>1 DEF Resting, Loop, LoopPhase
  <2>3. \A r \in Runs : Len(rows[r]) <= Limit
    <3>1. \A r \in Runs : rows[r] = <<>>
      BY <1>1
    <3>2. Len(<<>>) = 0 /\ 0 <= Limit
      BY LimitIsPositive
    <3>3. QED
      BY <3>1, <3>2
  <2>4. \A id \in 1..MaxLeases : loop[id].pc \notin {"sending", "acking"}
    BY <1>1 DEF Resting
  <2>5. QED
    BY <1>1, <2>1, <2>2, <2>3, <2>4 DEF SteeringTypeOK
<1>3. \A r \in Runs : DOMAIN rows[r] = {}
  <2>1. \A r \in Runs : rows[r] = <<>>
    BY <1>1
  <2>2. DOMAIN <<>> = {}
    OBVIOUS
  <2>3. QED
    BY <2>1, <2>2
<1>4. KeysDiffer /\ DeliveryIsInHand /\ OneVerdict /\ OneInDelivery /\ DeliveredWasHeard
  BY <1>3 DEF KeysDiffer, DeliveryIsInHand, OneVerdict, OneInDelivery, DeliveredWasHeard
<1>5. HandIsClaimed /\ SentOnlyOnce
  BY <1>1 DEF HandIsClaimed, SentOnlyOnce, Resting
<1>6. HeardIsClaimed /\ HeardOnce
  BY <1>1 DEF HeardIsClaimed, HeardOnce
<1>7. QED
  BY <1>2, <1>4, <1>5, <1>6 DEF SteeringInv

-----------------------------------------------------------------------------
(* The theorems *)

\* The invariant of the messages holds in every reachable state.
THEOREM SteeringInvariance == SteeringSpec => []SteeringInv
<1>1. IInv => TypeOK
  BY DEF IInv
<1>2. QED
  BY <1>1, SteeringImplementsStore, Invariance, InitSteering, StepSteering, PTL DEF SteeringSpec

\* Over takeovers, retries, crashes and lost acknowledgements no message reaches the
\* CTO twice.
THEOREM NeverHeardTwice == SteeringSpec => []HeardOnce
<1>1. SteeringInv => HeardOnce
  BY DEF SteeringInv
<1>2. QED
  BY SteeringInvariance, <1>1, PTL

\* No message is reported as delivered that was not heard.
THEOREM DeliveredIsTrue == SteeringSpec => []DeliveredWasHeard
<1>1. SteeringInv => DeliveredWasHeard
  BY DEF SteeringInv
<1>2. QED
  BY SteeringInvariance, <1>1, PTL

\* No message gets a second verdict.
THEOREM VerdictStands == SteeringSpec => []OneVerdict
<1>1. SteeringInv => OneVerdict
  BY DEF SteeringInv
<1>2. QED
  BY SteeringInvariance, <1>1, PTL

\* The messages a run has in delivery are of one lease, whatever its earlier holders
\* left, and one message only, unless a failed call has asked that lease's drive to stop.
THEOREM DeliveryExclusion == SteeringSpec => []OneInDelivery
<1>1. SteeringInv => OneInDelivery
  BY DEF SteeringInv
<1>2. QED
  BY SteeringInvariance, <1>1, PTL

-----------------------------------------------------------------------------
(* Event delivery: a part of its own, with no state in common with the above *)

-----------------------------------------------------------------------------
(* The inductive invariant *)

Drain == [batch: SUBSET Nat, done: SUBSET Nat]

Connection == [pc: ConnPhase, lastSent: Nat, sent: SUBSET Nat, lastDelivered: Nat,
               tasks: Seq(Nat), asked: BOOLEAN, page: Nat]

Typed ==
    /\ committed \in Nat
    /\ marked \in SUBSET Nat
    /\ stream \in Seq(Nat)
    /\ trimmed \in Nat
    /\ drain \in [Relays -> Drain]
    /\ pos \in Nat
    /\ conn \in [Followers -> Connection]
    /\ faults \in Nat

\* A connection knows of no event after n.
Within(c, n) ==
    /\ c.lastSent <= n
    /\ c.lastDelivered <= n
    /\ \A i \in 1..Len(c.tasks) : c.tasks[i] <= n
    /\ c.page <= n

\* Nothing is marked, published or handed on that was not committed.
Bounded ==
    /\ committed <= MaxEvents
    /\ marked \subseteq 1..committed
    /\ \A i \in 1..Len(stream) : stream[i] \in 1..committed
    /\ trimmed <= Len(stream)
    /\ \A r \in Relays : drain[r].batch \subseteq 1..committed /\ drain[r].done \subseteq drain[r].batch
    /\ pos <= Len(stream)
    /\ Live = {} => pos = 0
    /\ \A f \in Followers : Within(conn[f], committed)
    /\ faults <= MaxFaults

InStream(e) == \E j \in 1..Len(stream) : stream[j] = e

\* An entry of the stream follows its predecessor.
Ordered ==
    \A i \in 1..Len(stream) :
        stream[i] > 1 => \E j \in 1..i : stream[j] = stream[i] - 1

\* What is marked, or done in a drain, has been published.
DoneIsPublished ==
    /\ \A e \in marked : InStream(e)
    /\ \A r \in Relays : \A e \in drain[r].done : InStream(e)

\* A batch leaves no event out between what has been published and its own.
BatchesJoinOn ==
    \A r \in Relays : \A e \in drain[r].batch :
        e > 1 => e - 1 \in drain[r].batch \/ InStream(e - 1)

StreamInv == DoneIsPublished /\ Ordered /\ BatchesJoinOn

\* A connection reads the ledger only while it replays or runs a queued backfill, and a
\* page continues where the connection stands.
Asks(c) ==
    /\ c.pc # "live" => c.tasks = <<>>
    /\ c.asked => /\ c.pc = "replay" \/ (c.pc = "live" /\ c.tasks # <<>> /\ c.tasks[1] = Backfill)
                  /\ c.lastSent <= c.page
                  /\ c.page <= c.lastSent + PageSize

\* A queued event may be sent once the tasks before it are done: it is covered by the
\* backfill queued with it, follows the event queued before it, or comes next.
Chained(c) ==
    \A i \in 1..Len(c.tasks) : c.tasks[i] # Backfill =>
        \/ i > 1 /\ c.tasks[i - 1] = Backfill
        \/ i > 1 /\ c.tasks[i] = c.tasks[i - 1] + 1
        \/ i = 1 /\ c.tasks[i] <= c.lastSent + 1

\* The event a backfill was queued for comes after it, and the last page of the
\* backfill holds it.
BackfillsCover(c) ==
    /\ \A i \in 1..Len(c.tasks) : c.tasks[i] = Backfill =>
          i < Len(c.tasks) /\ c.tasks[i + 1] # Backfill
    /\ c.pc = "live" /\ c.asked /\ c.page < c.lastSent + PageSize => c.tasks[2] <= c.page

\* The last event handed to a listener is the last one queued, or has been sent.
DeliveredIsQueued(c) ==
    c.pc = "live" =>
        IF c.tasks = <<>> THEN c.lastDelivered <= c.lastSent
        ELSE c.tasks[Len(c.tasks)] = c.lastDelivered

\* What a connection has sent has no holes.
Covered(c) ==
    /\ c.pc # "off" => c.sent = 1..c.lastSent
    /\ c.pc = "off" => c.sent = {}

Follows(c) == Asks(c) /\ Chained(c) /\ BackfillsCover(c) /\ DeliveredIsQueued(c) /\ Covered(c)

FollowersInv == \A f \in Followers : Follows(conn[f])

DeliveryInv == Typed /\ Bounded /\ StreamInv /\ FollowersInv

-----------------------------------------------------------------------------
(* What may become of a connection *)

Blank(d) ==
    /\ d.lastDelivered = 0
    /\ d.tasks = <<>>
    /\ ~d.asked
    /\ d.page = 0

\* The connection ends; the browser keeps its place.
Drops(c, d) == d.pc = "off" /\ d.lastSent = c.lastSent /\ d.sent = {} /\ Blank(d)

\* A new connection replays from the cursor the browser presents.
Resumes(c, d) ==
    /\ d.pc = "replay"
    /\ d.lastSent <= c.lastSent
    /\ d.sent = 1..d.lastSent
    /\ Blank(d)

SamePlace(c, d) == d.pc = c.pc /\ d.lastSent = c.lastSent /\ d.sent = c.sent
SameTasks(c, d) == d.lastDelivered = c.lastDelivered /\ d.tasks = c.tasks

\* A query for the next page, of a ledger of n events.
AsksFor(c, d, n) ==
    /\ c.pc = "replay" \/ (c.pc = "live" /\ c.tasks # <<>> /\ c.tasks[1] = Backfill)
    /\ SamePlace(c, d)
    /\ SameTasks(c, d)
    /\ d.asked
    /\ d.page = IF n < c.lastSent + PageSize THEN n ELSE c.lastSent + PageSize

\* The page is written.
Writes(c, d) ==
    /\ c.asked
    /\ ~d.asked
    /\ d.page = 0
    /\ d.lastSent = c.page
    /\ d.sent = c.sent \cup (c.lastSent + 1)..c.page

ReadsOn(c, d) == d.pc = c.pc /\ Writes(c, d) /\ SameTasks(c, d)

Joins(c, d) ==
    /\ c.pc = "replay" /\ d.pc = "live"
    /\ Writes(c, d)
    /\ d.tasks = c.tasks
    /\ d.lastDelivered = c.page

\* The first of the queued tasks is done.
Shifts(c, d) ==
    /\ c.tasks # <<>>
    /\ Len(d.tasks) = Len(c.tasks) - 1
    /\ \A i \in 1..Len(d.tasks) : d.tasks[i] = c.tasks[i + 1]
    /\ d.lastDelivered = c.lastDelivered

BackfillEnds(c, d) ==
    /\ c.pc = "live" /\ d.pc = "live"
    /\ c.page < c.lastSent + PageSize
    /\ Writes(c, d)
    /\ Shifts(c, d)

EmitsNext(c, d) ==
    /\ c.pc = "live" /\ d.pc = "live"
    /\ ~d.asked
    /\ Shifts(c, d)
    /\ c.tasks[1] # Backfill
    /\ IF c.tasks[1] <= c.lastSent
       THEN d.lastSent = c.lastSent /\ d.sent = c.sent
       ELSE d.lastSent = c.tasks[1] /\ d.sent = c.sent \cup {c.tasks[1]}
    /\ ~c.asked /\ d.page = c.page

\* The listener is handed event e, after a backfill if it skips events.
Hears(c, d, e) ==
    /\ c.pc = "live"
    /\ SamePlace(c, d)
    /\ d.asked = c.asked /\ d.page = c.page
    /\ c.lastDelivered < e
    /\ d.lastDelivered = e
    /\ \A i \in 1..Len(c.tasks) : d.tasks[i] = c.tasks[i]
    /\ \/ /\ e = c.lastDelivered + 1
          /\ Len(d.tasks) = Len(c.tasks) + 1
          /\ d.tasks[Len(c.tasks) + 1] = e
       \/ /\ Len(d.tasks) = Len(c.tasks) + 2
          /\ d.tasks[Len(c.tasks) + 1] = Backfill
          /\ d.tasks[Len(c.tasks) + 2] = e

Moves(c, d, n) ==
    \/ d = c
    \/ Drops(c, d)
    \/ Resumes(c, d)
    \/ AsksFor(c, d, n)
    \/ ReadsOn(c, d)
    \/ Joins(c, d)
    \/ BackfillEnds(c, d)
    \/ EmitsNext(c, d)
    \/ \E e \in 1..n : Hears(c, d, e)

-----------------------------------------------------------------------------
(* None of it leaves a hole *)

\* The empty list of tasks is the one of length 0.
LEMMA NoTasks ==
  ASSUME NEW s \in Seq(Nat)
  PROVE  /\ Len(s) \in Nat
         /\ s = <<>> <=> Len(s) = 0
         /\ \A i \in 1..Len(s) : s[i] \in Nat
BY LenProperties, EmptySeq, ElementOfSeq

LEMMA DropsFollows ==
  ASSUME NEW c \in Connection, NEW d \in Connection, Drops(c, d)
  PROVE  Follows(d)
BY NoTasks, EmptySeq
DEF Drops, Blank, Follows, Asks, Chained, BackfillsCover, DeliveredIsQueued, Covered

LEMMA ResumesFollows ==
  ASSUME NEW c \in Connection, NEW d \in Connection, Resumes(c, d)
  PROVE  Follows(d)
BY NoTasks, EmptySeq
DEF Resumes, Blank, Follows, Asks, Chained, BackfillsCover, DeliveredIsQueued, Covered

LEMMA AsksForFollows ==
  ASSUME NEW c \in Connection, NEW d \in Connection, NEW n \in Nat,
         Follows(c), AsksFor(c, d, n), Within(c, n)
  PROVE  Follows(d)
<1>0. c.lastSent <= n /\ \A i \in 1..Len(c.tasks) : c.tasks[i] <= n
  BY DEF Within
<1>1. /\ c.lastSent \in Nat /\ d.lastSent \in Nat /\ d.page \in Nat /\ PageSize \in Nat \ {0}
      /\ c.tasks \in Seq(Nat)
  BY SizesArePositive DEF Connection
<1>2. Asks(d)
  BY <1>0, <1>1 DEF AsksFor, SamePlace, SameTasks, Follows, Asks
<1>3. Chained(d) /\ DeliveredIsQueued(d) /\ Covered(d)
  BY DEF AsksFor, SamePlace, SameTasks, Follows, Chained, DeliveredIsQueued, Covered
<1>4. BackfillsCover(d)
  <2>1. ASSUME d.pc = "live", d.page < d.lastSent + PageSize PROVE d.tasks[2] <= d.page
    <3>1. d.page = n
      BY <1>1, <2>1 DEF AsksFor, SamePlace
    <3>2. c.tasks # <<>> /\ c.tasks[1] = Backfill
      BY <2>1 DEF AsksFor, SamePlace
    <3>3. 1 \in 1..Len(c.tasks)
      BY <1>1, <3>2, NoTasks
    <3>4. 1 < Len(c.tasks) /\ Len(c.tasks) \in Nat
      BY <1>1, <3>2, <3>3, NoTasks DEF Follows, BackfillsCover
    <3>5. c.tasks[2] <= n
      BY <1>0, <3>4
    <3>6. QED
      BY <3>1, <3>5 DEF AsksFor, SameTasks
  <2>2. QED
    BY <2>1 DEF AsksFor, SamePlace, SameTasks, Follows, BackfillsCover
<1>5. QED
  BY <1>2, <1>3, <1>4 DEF Follows

LEMMA Extended ==
  ASSUME NEW c \in Connection, NEW d \in Connection, Follows(c), c.pc # "off", Writes(c, d)
  PROVE  d.sent = 1..d.lastSent /\ c.lastSent <= d.lastSent
BY DEF Connection, Writes, Follows, Asks, Covered

LEMMA ReadsOnFollows ==
  ASSUME NEW c \in Connection, NEW d \in Connection, Follows(c), ReadsOn(c, d)
  PROVE  Follows(d)
<1>1. c.pc # "off" /\ c.lastSent \in Nat /\ d.lastSent \in Nat /\ c.tasks \in Seq(Nat)
  BY DEF ReadsOn, Writes, Follows, Asks, Connection
<1>2. Covered(d) /\ c.lastSent <= d.lastSent
  BY <1>1, Extended DEF ReadsOn, Covered
<1>3. Asks(d) /\ BackfillsCover(d)
  BY DEF ReadsOn, Writes, SameTasks, Follows, Asks, BackfillsCover
<1>4. DeliveredIsQueued(d)
  BY <1>1, <1>2 DEF ReadsOn, SameTasks, Follows, DeliveredIsQueued, Connection
<1>5. Chained(d)
  BY <1>1, <1>2, NoTasks DEF ReadsOn, SameTasks, Follows, Chained
<1>6. QED
  BY <1>2, <1>3, <1>4, <1>5 DEF Follows

LEMMA JoinsFollows ==
  ASSUME NEW c \in Connection, NEW d \in Connection, Follows(c), Joins(c, d)
  PROVE  Follows(d)
<1>1. c.pc # "off" /\ c.tasks = <<>> /\ d.tasks = <<>>
  BY DEF Joins, Follows, Asks
<1>2. Covered(d)
  BY <1>1, Extended DEF Joins, Covered
<1>3. d.lastDelivered \in Nat /\ d.lastSent = d.lastDelivered
  BY DEF Joins, Writes, Connection
<1>4. QED
  BY <1>1, <1>2, <1>3, EmptySeq
  DEF Joins, Writes, Follows, Asks, Chained, BackfillsCover, DeliveredIsQueued

\* Once the first task is done, the rest are as well placed, if what it covered reaches
\* up to where the next one starts.
LEMMA ShiftsFollows ==
  ASSUME NEW c \in Connection, NEW d \in Connection, Follows(c), Shifts(c, d),
         c.pc = "live", d.pc = "live", ~d.asked, d.sent = 1..d.lastSent,
         c.tasks[1] = Backfill => c.tasks[2] <= d.lastSent,
         c.tasks[1] # Backfill => c.tasks[1] <= d.lastSent
  PROVE  Follows(d)
<1>1. /\ c.tasks \in Seq(Nat) /\ d.tasks \in Seq(Nat)
      /\ c.lastSent \in Nat /\ d.lastSent \in Nat
  BY DEF Connection
<1>2. /\ Len(c.tasks) \in Nat \ {0}
      /\ \A i \in 1..Len(c.tasks) : c.tasks[i] \in Nat
      /\ Len(d.tasks) \in Nat
      /\ \A i \in 1..Len(d.tasks) : d.tasks[i] \in Nat
  BY <1>1, NoTasks DEF Shifts
<1>3. Asks(d) /\ Covered(d)
  BY DEF Asks, Covered
<1>4. Chained(d)
  <2> SUFFICES ASSUME NEW i \in 1..Len(d.tasks), d.tasks[i] # Backfill
               PROVE  \/ i > 1 /\ d.tasks[i - 1] = Backfill
                      \/ i > 1 /\ d.tasks[i] = d.tasks[i - 1] + 1
                      \/ i = 1 /\ d.tasks[i] <= d.lastSent + 1
    BY DEF Chained
  <2>1. i + 1 \in 1..Len(c.tasks) /\ d.tasks[i] = c.tasks[i + 1]
    BY <1>2 DEF Shifts
  <2>2. \/ c.tasks[i] = Backfill
        \/ c.tasks[i + 1] = c.tasks[i] + 1
    BY <1>2, <2>1 DEF Follows, Chained
  <2>3. CASE i = 1
    BY <1>1, <1>2, <2>1, <2>2, <2>3
  <2>4. CASE i > 1
    <3>1. i - 1 \in 1..Len(d.tasks) /\ (i - 1) + 1 = i
      BY <1>2, <2>4
    <3>2. d.tasks[i - 1] = c.tasks[i]
      BY <3>1 DEF Shifts
    <3>3. QED
      BY <2>1, <2>2, <2>4, <3>1, <3>2
  <2>5. QED
    BY <2>3, <2>4
<1>5. BackfillsCover(d)
  <2>1. ASSUME NEW i \in 1..Len(d.tasks), d.tasks[i] = Backfill
        PROVE  i < Len(d.tasks) /\ d.tasks[i + 1] # Backfill
    <3>1. i + 1 \in 1..Len(c.tasks) /\ c.tasks[i + 1] = Backfill
      BY <1>2, <2>1 DEF Shifts
    <3>2. i + 1 < Len(c.tasks) /\ c.tasks[i + 2] # Backfill
      <4>1. i \in Nat /\ (i + 1) + 1 = i + 2
        BY <1>2
      <4>2. i + 1 < Len(c.tasks) /\ c.tasks[(i + 1) + 1] # Backfill
        BY <3>1 DEF Follows, BackfillsCover
      <4>3. QED
        BY <4>1, <4>2
    <3>3. QED
      BY <1>2, <3>2 DEF Shifts
  <2>2. QED
    BY <2>1 DEF BackfillsCover
<1>6. DeliveredIsQueued(d)
  <2>1. CASE Len(c.tasks) = 1
    <3>1. d.tasks = <<>>
      BY <1>1, <2>1, NoTasks DEF Shifts
    <3>2. c.tasks[1] = c.lastDelivered /\ c.tasks[1] # Backfill
      BY <1>2, <2>1 DEF Follows, DeliveredIsQueued, BackfillsCover, Shifts
    <3>3. QED
      BY <3>1, <3>2 DEF DeliveredIsQueued, Shifts
  <2>2. CASE Len(c.tasks) > 1
    <3>1. d.tasks # <<>> /\ Len(d.tasks) \in 1..Len(d.tasks)
      BY <1>1, <1>2, <2>2, NoTasks DEF Shifts
    <3>2. d.tasks[Len(d.tasks)] = c.tasks[Len(c.tasks)]
      BY <1>2, <3>1 DEF Shifts
    <3>3. QED
      BY <3>1, <3>2 DEF DeliveredIsQueued, Shifts, Follows
  <2>3. Len(c.tasks) = 1 \/ Len(c.tasks) > 1
    <3>1. \A n \in Nat \ {0} : n = 1 \/ n > 1
      OBVIOUS
    <3>2. QED
      BY <1>2, <3>1
  <2>4. QED
    BY <2>1, <2>2, <2>3
<1>7. QED
  BY <1>3, <1>4, <1>5, <1>6 DEF Follows

LEMMA BackfillEndsFollows ==
  ASSUME NEW c \in Connection, NEW d \in Connection, Follows(c), BackfillEnds(c, d)
  PROVE  Follows(d)
<1>1. c.tasks[1] = Backfill /\ c.tasks[2] <= c.page
  BY DEF BackfillEnds, Writes, Follows, Asks, BackfillsCover
<1>2. d.sent = 1..d.lastSent /\ d.lastSent = c.page /\ ~d.asked
  BY Extended DEF BackfillEnds, Writes
<1>3. QED
  BY <1>1, <1>2, ShiftsFollows DEF BackfillEnds

LEMMA EmitsNextFollows ==
  ASSUME NEW c \in Connection, NEW d \in Connection, Follows(c), EmitsNext(c, d)
  PROVE  Follows(d)
<1>1. /\ c.tasks \in Seq(Nat) /\ c.lastSent \in Nat
      /\ c.sent = 1..c.lastSent
  BY DEF Connection, EmitsNext, Follows, Covered
<1>2. 1 \in 1..Len(c.tasks) /\ c.tasks[1] \in Nat
  BY <1>1, NoTasks DEF EmitsNext, Shifts
<1>3. c.tasks[1] <= c.lastSent + 1
  BY <1>2 DEF EmitsNext, Follows, Chained
<1>4. d.sent = 1..d.lastSent /\ c.tasks[1] <= d.lastSent
  <2>1. CASE c.tasks[1] <= c.lastSent
    BY <1>1, <2>1 DEF EmitsNext
  <2>2. CASE ~(c.tasks[1] <= c.lastSent)
    <3>1. c.tasks[1] = c.lastSent + 1
      BY <1>1, <1>2, <1>3, <2>2
    <3>2. d.lastSent = c.lastSent + 1 /\ d.sent = 1..c.lastSent \cup {c.lastSent + 1}
      BY <1>1, <2>2, <3>1 DEF EmitsNext
    <3>3. 1..c.lastSent \cup {c.lastSent + 1} = 1..(c.lastSent + 1)
      BY <1>1
    <3>4. QED
      BY <1>1, <3>1, <3>2, <3>3
  <2>3. QED
    BY <2>1, <2>2
<1>5. QED
  BY <1>4, ShiftsFollows DEF EmitsNext

LEMMA HearsFollows ==
  ASSUME NEW c \in Connection, NEW d \in Connection, NEW e \in Nat \ {0}, Follows(c), Hears(c, d, e)
  PROVE  Follows(d)
<1>1. /\ c.tasks \in Seq(Nat) /\ d.tasks \in Seq(Nat)
      /\ c.lastSent \in Nat /\ c.lastDelivered \in Nat
  BY DEF Connection
<1>2. /\ Len(c.tasks) \in Nat /\ Len(d.tasks) \in Nat
      /\ \A i \in 1..Len(c.tasks) : c.tasks[i] \in Nat
      /\ c.tasks = <<>> <=> Len(c.tasks) = 0
      /\ d.tasks = <<>> <=> Len(d.tasks) = 0
  BY <1>1, NoTasks
<1>3. c.tasks # <<>> => d.tasks # <<>> /\ d.tasks[1] = c.tasks[1]
  BY <1>2 DEF Hears
<1>4. Asks(d) /\ Covered(d)
  BY <1>3 DEF Hears, SamePlace, Follows, Asks, Covered
<1>5. DeliveredIsQueued(d)
  BY <1>2 DEF Hears, DeliveredIsQueued
<1>6. Chained(d)
  <2> SUFFICES ASSUME NEW i \in 1..Len(d.tasks), d.tasks[i] # Backfill
               PROVE  \/ i > 1 /\ d.tasks[i - 1] = Backfill
                      \/ i > 1 /\ d.tasks[i] = d.tasks[i - 1] + 1
                      \/ i = 1 /\ d.tasks[i] <= d.lastSent + 1
    BY DEF Chained
  <2>1. CASE i <= Len(c.tasks)
    <3>1. i \in 1..Len(c.tasks) /\ d.tasks[i] = c.tasks[i]
      BY <1>2, <2>1 DEF Hears
    <3>2. i > 1 => i - 1 \in 1..Len(c.tasks) /\ d.tasks[i - 1] = c.tasks[i - 1]
      BY <1>2, <2>1 DEF Hears
    <3>3. QED
      BY <3>1, <3>2 DEF Hears, SamePlace, Follows, Chained
  <2>2. CASE i = Len(c.tasks) + 1 /\ Len(d.tasks) = Len(c.tasks) + 1
    <3>1. d.tasks[i] = e /\ e = c.lastDelivered + 1
      BY <1>2, <2>2 DEF Hears
    <3>2. CASE Len(c.tasks) = 0
      BY <1>1, <1>2, <2>2, <3>1, <3>2 DEF Hears, SamePlace, Follows, DeliveredIsQueued
    <3>3. CASE Len(c.tasks) > 0
      <4>1. i > 1 /\ d.tasks[i - 1] = c.tasks[Len(c.tasks)]
        BY <1>2, <2>2, <3>3 DEF Hears
      <4>2. c.tasks[Len(c.tasks)] = c.lastDelivered
        BY <1>2, <3>3 DEF Hears, Follows, DeliveredIsQueued
      <4>3. QED
        BY <3>1, <4>1, <4>2
    <3>4. QED
      BY <1>2, <3>2, <3>3
  <2>3. CASE Len(d.tasks) = Len(c.tasks) + 2 /\ i > Len(c.tasks)
    <3>1. d.tasks[Len(c.tasks) + 1] = Backfill
      BY <1>2, <2>3 DEF Hears
    <3>2. i = Len(c.tasks) + 2
      BY <1>2, <2>3, <3>1
    <3>3. i > 1 /\ i - 1 = Len(c.tasks) + 1
      BY <1>2, <3>2
    <3>4. QED
      BY <3>1, <3>3
  <2>4. Len(d.tasks) = Len(c.tasks) + 1 \/ Len(d.tasks) = Len(c.tasks) + 2
    BY DEF Hears
  <2>5. QED
    BY <1>2, <2>1, <2>2, <2>3, <2>4
<1>7. BackfillsCover(d)
  <2>1. ASSUME NEW i \in 1..Len(d.tasks), d.tasks[i] = Backfill
        PROVE  i < Len(d.tasks) /\ d.tasks[i + 1] # Backfill
    <3>1. CASE i <= Len(c.tasks)
      <4>1. i \in 1..Len(c.tasks) /\ c.tasks[i] = Backfill
        BY <1>2, <2>1, <3>1 DEF Hears
      <4>2. i < Len(c.tasks) /\ c.tasks[i + 1] # Backfill
        BY <4>1 DEF Follows, BackfillsCover
      <4>3. i + 1 \in 1..Len(c.tasks)
        BY <1>2, <4>1, <4>2
      <4>4. QED
        BY <1>2, <4>2, <4>3 DEF Hears
    <3>2. CASE i > Len(c.tasks)
      BY <1>2, <2>1, <3>2 DEF Hears, Backfill
    <3>3. QED
      BY <1>2, <3>1, <3>2
  <2>2. ASSUME d.asked, d.page < d.lastSent + PageSize PROVE d.tasks[2] <= d.page
    <3>1. c.tasks # <<>> /\ c.tasks[1] = Backfill /\ c.tasks[2] <= c.page
      BY <2>2 DEF Hears, SamePlace, Follows, Asks, BackfillsCover
    <3>2. 1 \in 1..Len(c.tasks)
      BY <1>2, <3>1
    <3>3. 1 < Len(c.tasks)
      BY <3>1, <3>2 DEF Follows, BackfillsCover
    <3>4. d.tasks[2] = c.tasks[2]
      BY <1>2, <3>3 DEF Hears
    <3>5. QED
      BY <3>1, <3>4 DEF Hears
  <2>3. QED
    BY <2>1, <2>2 DEF BackfillsCover
<1>8. QED
  BY <1>4, <1>5, <1>6, <1>7 DEF Follows

LEMMA MovesFollows ==
  ASSUME NEW c \in Connection, NEW d \in Connection, NEW n \in Nat,
         Follows(c), Within(c, n), Moves(c, d, n)
  PROVE  Follows(d)
<1>1. ASSUME NEW e \in 1..n, Hears(c, d, e) PROVE Follows(d)
  <2>1. e \in Nat \ {0}
    OBVIOUS
  <2>2. QED
    BY <1>1, <2>1, HearsFollows
<1>2. QED
  BY <1>1, DropsFollows, ResumesFollows, AsksForFollows, ReadsOnFollows, JoinsFollows,
     BackfillEndsFollows, EmitsNextFollows
  DEF Moves

LEMMA MovesWithin ==
  ASSUME NEW c \in Connection, NEW d \in Connection, NEW n \in Nat, NEW m \in Nat,
         Follows(c), Within(c, n), Moves(c, d, n), n <= m
  PROVE  Within(d, m)
<1>0. /\ c.tasks \in Seq(Nat) /\ d.tasks \in Seq(Nat)
      /\ c.lastSent \in Nat /\ c.lastDelivered \in Nat /\ c.page \in Nat
      /\ d.lastSent \in Nat /\ d.lastDelivered \in Nat /\ d.page \in Nat
      /\ PageSize \in Nat
  BY SizesArePositive DEF Connection
<1>t. /\ Len(c.tasks) \in Nat /\ Len(d.tasks) \in Nat
      /\ \A i \in 1..Len(c.tasks) : c.tasks[i] \in Nat
      /\ \A i \in 1..Len(d.tasks) : d.tasks[i] \in Nat
      /\ c.tasks = <<>> <=> Len(c.tasks) = 0
      /\ d.tasks = <<>> <=> Len(d.tasks) = 0
  BY <1>0, NoTasks
<1>1. CASE d = c \/ Drops(c, d) \/ Resumes(c, d)
  BY <1>0, <1>t, <1>1 DEF Within, Drops, Resumes, Blank
<1>2. CASE AsksFor(c, d, n)
  BY <1>0, <1>t, <1>2 DEF Within, AsksFor, SamePlace, SameTasks
<1>3. CASE ReadsOn(c, d) \/ Joins(c, d)
  BY <1>0, <1>t, <1>3 DEF Within, ReadsOn, Joins, Writes, SameTasks
<1>s. ASSUME Shifts(c, d) PROVE 1 \in 1..Len(c.tasks) /\ \A i \in 1..Len(d.tasks) : d.tasks[i] <= m
  <2>1. Len(c.tasks) \in Nat \ {0}
    BY <1>t, <1>s DEF Shifts
  <2>2. ASSUME NEW i \in 1..Len(d.tasks) PROVE d.tasks[i] <= m
    <3>1. i + 1 \in 1..Len(c.tasks) /\ d.tasks[i] = c.tasks[i + 1]
      BY <1>t, <1>s, <2>1 DEF Shifts
    <3>2. c.tasks[i + 1] \in Nat /\ c.tasks[i + 1] <= n
      BY <1>t, <3>1 DEF Within
    <3>3. QED
      BY <3>1, <3>2
  <2>3. QED
    BY <2>1, <2>2
<1>4. CASE BackfillEnds(c, d)
  <2>1. \A i \in 1..Len(d.tasks) : d.tasks[i] <= m
    BY <1>4, <1>s DEF BackfillEnds
  <2>2. d.lastDelivered = c.lastDelivered /\ d.page = 0 /\ d.lastSent = c.page
    BY <1>4 DEF BackfillEnds, Shifts, Writes
  <2>3. QED
    BY <1>0, <2>1, <2>2 DEF Within
<1>5. CASE EmitsNext(c, d)
  <2>1. 1 \in 1..Len(c.tasks) /\ \A i \in 1..Len(d.tasks) : d.tasks[i] <= m
    BY <1>5, <1>s DEF EmitsNext
  <2>2. d.lastDelivered = c.lastDelivered /\ d.page = c.page /\ d.lastSent \in {c.lastSent, c.tasks[1]}
    BY <1>5 DEF EmitsNext, Shifts
  <2>3. c.tasks[1] \in Nat /\ c.tasks[1] <= n
    BY <1>t, <2>1 DEF Within
  <2>4. QED
    BY <1>0, <2>1, <2>2, <2>3 DEF Within
<1>6. ASSUME NEW e \in 1..n, Hears(c, d, e) PROVE Within(d, m)
  <2>1. \A i \in 1..Len(d.tasks) : d.tasks[i] <= n
    <3> SUFFICES ASSUME NEW i \in 1..Len(d.tasks) PROVE d.tasks[i] <= n
      OBVIOUS
    <3>1. CASE i <= Len(c.tasks)
      <4>1. i \in 1..Len(c.tasks)
        BY <1>t, <3>1
      <4>2. d.tasks[i] = c.tasks[i]
        BY <1>6, <4>1 DEF Hears
      <4>3. QED
        BY <4>1, <4>2 DEF Within
    <3>2. CASE i > Len(c.tasks)
      <4>1. CASE i = Len(c.tasks) + 1
        BY <1>t, <1>6, <4>1 DEF Hears, Backfill
      <4>2. CASE i = Len(c.tasks) + 2
        BY <1>t, <1>6, <4>2 DEF Hears
      <4>3. QED
        BY <1>t, <1>6, <3>2, <4>1, <4>2 DEF Hears
    <3>3. QED
      BY <1>t, <3>1, <3>2
  <2>2. QED
    BY <1>0, <1>t, <1>6, <2>1 DEF Within, Hears, SamePlace
<1>7. QED
  BY <1>1, <1>2, <1>3, <1>4, <1>5, <1>6 DEF Moves

-----------------------------------------------------------------------------
(* The steps make only such moves *)

ConnectionsMove ==
    /\ conn' \in [Followers -> Connection]
    /\ \A f \in Followers : Moves(conn[f], conn'[f], committed)

LEMMA OneMoves ==
  ASSUME Typed, NEW f \in Followers, NEW d \in Connection, conn' = [conn EXCEPT ![f] = d],
         Moves(conn[f], d, committed)
  PROVE  ConnectionsMove
BY DEF Typed, ConnectionsMove, Moves

LEMMA DrainDropped ==
  ASSUME NEW c \in Connection, NEW n
  PROVE  /\ [NoConn EXCEPT !.lastSent = c.lastSent] \in Connection
         /\ Moves(c, [NoConn EXCEPT !.lastSent = c.lastSent], n)
<1> DEFINE d == [NoConn EXCEPT !.lastSent = c.lastSent]
<1>1. <<>> \in Seq(Nat) /\ c.lastSent \in Nat
  BY EmptySeq DEF Connection
<1>2. d \in Connection
  BY <1>1 DEF NoConn, Connection, ConnPhase
<1>3. Drops(c, d)
  BY DEF NoConn, Drops, Blank
<1>4. QED
  BY <1>2, <1>3 DEF Moves

LEMMA OpenMoves ==
  ASSUME Typed, NEW f \in Followers, Open(f)
  PROVE  ConnectionsMove
<1>1. PICK cursor \in 0..conn[f].lastSent :
         conn' = [conn EXCEPT ![f] = [NoConn EXCEPT !.pc = "replay", !.lastSent = cursor,
                                                    !.sent = 1..cursor]]
  BY DEF Open
<1> DEFINE d == [NoConn EXCEPT !.pc = "replay", !.lastSent = cursor, !.sent = 1..cursor]
<1>2. conn[f].lastSent \in Nat /\ cursor \in Nat /\ 1..cursor \in SUBSET Nat
      /\ cursor <= conn[f].lastSent
  BY DEF Typed, Connection
<1>3. /\ d \in Connection
      /\ d.pc = "replay" /\ d.lastSent = cursor /\ d.sent = 1..cursor /\ Blank(d)
  <2>1. <<>> \in Seq(Nat)
    BY EmptySeq
  <2>2. QED
    BY <1>2, <2>1 DEF NoConn, Connection, ConnPhase, Blank
<1> HIDE DEF d
<1>4. Resumes(conn[f], d)
  BY <1>2, <1>3 DEF Resumes
<1>5. QED
  BY <1>1, <1>3, <1>4, OneMoves DEF Moves, d

LEMMA QueryMoves ==
  ASSUME Typed, NEW f \in Followers, Query(f)
  PROVE  ConnectionsMove
<1> DEFINE page == IF committed < conn[f].lastSent + PageSize
                   THEN committed ELSE conn[f].lastSent + PageSize
           d == [conn[f] EXCEPT !.asked = TRUE, !.page = page]
<1>1. conn[f] \in Connection /\ conn[f].lastSent \in Nat /\ committed \in Nat /\ page \in Nat
  BY SizesArePositive DEF Typed, Connection
<1>2. conn' = [conn EXCEPT ![f] = d]
  BY <1>1 DEF Query, Typed
<1> HIDE DEF page
<1>3. /\ d \in Connection
      /\ d.asked = TRUE /\ d.page = page
      /\ SamePlace(conn[f], d) /\ SameTasks(conn[f], d)
  BY <1>1 DEF Connection, SamePlace, SameTasks
<1> HIDE DEF d
<1>4. conn[f].pc = "replay" \/ (conn[f].pc = "live" /\ conn[f].tasks # <<>> /\ conn[f].tasks[1] = Backfill)
  <2>1. conn[f].tasks \in Seq(Nat)
    BY <1>1 DEF Connection
  <2>2. QED
    BY <2>1 DEF Query, Reading
<1>5. AsksFor(conn[f], d, committed)
  BY <1>3, <1>4 DEF AsksFor, page
<1>6. QED
  BY <1>2, <1>3, <1>5, OneMoves DEF Moves

LEMMA WrittenPage ==
  ASSUME Typed, NEW f \in Followers, conn[f].asked
  PROVE  /\ Written(f) \in Connection
         /\ Writes(conn[f], Written(f))
         /\ Written(f).pc = conn[f].pc
         /\ SameTasks(conn[f], Written(f))
<1>1. conn[f] \in Connection
  BY DEF Typed
<1>2. /\ conn[f].page \in Nat
      /\ (conn[f].sent \cup (conn[f].lastSent + 1)..conn[f].page) \in SUBSET Nat
  BY <1>1 DEF Connection
<1>3. QED
  BY <1>1, <1>2 DEF Connection, Written, Writes, SameTasks

LEMMA JoinMoves ==
  ASSUME Typed, NEW f \in Followers, Join(f)
  PROVE  ConnectionsMove
<1> DEFINE w == Written(f)
           d == [w EXCEPT !.pc = "live", !.lastDelivered = conn[f].page]
<1>1. w \in Connection /\ Writes(conn[f], w) /\ SameTasks(conn[f], w) /\ conn[f].page \in Nat
  BY WrittenPage DEF Join, Typed, Connection
<1>2. conn' = [conn EXCEPT ![f] = d]
  BY DEF Join
<1> HIDE DEF w
<1>3. d \in Connection /\ Joins(conn[f], d)
  BY <1>1 DEF Join, Connection, ConnPhase, Joins, Writes, SameTasks
<1> HIDE DEF d
<1>4. QED
  BY <1>2, <1>3, OneMoves DEF Moves

\* The list without its first task.
LEMMA TailShifts ==
  ASSUME NEW s \in Seq(Nat), s # <<>>
  PROVE  /\ Tail(s) \in Seq(Nat)
         /\ Len(Tail(s)) = Len(s) - 1
         /\ \A i \in 1..Len(Tail(s)) : Tail(s)[i] = s[i + 1]
BY HeadTailProperties

LEMMA PageArrivesMoves ==
  ASSUME Typed, FollowersInv, NEW f \in Followers, PageArrives(f)
  PROVE  ConnectionsMove
<1> DEFINE w == Written(f)
<1>1. /\ w \in Connection /\ Writes(conn[f], w) /\ w.pc = conn[f].pc
      /\ SameTasks(conn[f], w)
  BY WrittenPage DEF PageArrives
<1>2. CASE ~PageIsLast(f)
  <2>1. conn' = [conn EXCEPT ![f] = w] /\ ReadsOn(conn[f], w)
    BY <1>1, <1>2 DEF PageArrives, ReadsOn
  <2>2. QED
    BY <1>1, <2>1, OneMoves DEF Moves
<1>3. CASE PageIsLast(f)
  <2> DEFINE d == [w EXCEPT !.tasks = Tail(@)]
  <2>1. conn' = [conn EXCEPT ![f] = d]
    BY <1>3 DEF PageArrives
  <2>2. conn[f].pc = "live" /\ w.tasks = conn[f].tasks /\ w.tasks # <<>> /\ w.tasks \in Seq(Nat)
    BY <1>1, <1>3 DEF PageArrives, FollowersInv, Follows, Asks, SameTasks, Connection
  <2>3. /\ Tail(w.tasks) \in Seq(Nat)
        /\ Len(Tail(w.tasks)) = Len(w.tasks) - 1
        /\ \A i \in 1..Len(Tail(w.tasks)) : Tail(w.tasks)[i] = w.tasks[i + 1]
    BY <2>2, TailShifts
  <2> HIDE DEF w
  <2>4. /\ d \in Connection /\ d.tasks = Tail(w.tasks) /\ d.pc = w.pc
        /\ d.lastDelivered = w.lastDelivered /\ d.lastSent = w.lastSent /\ d.sent = w.sent
        /\ d.asked = w.asked /\ d.page = w.page
    BY <1>1, <2>3 DEF Connection
  <2> HIDE DEF d
  <2>5. BackfillEnds(conn[f], d)
    BY <1>1, <1>3, <2>2, <2>3, <2>4 DEF PageIsLast, BackfillEnds, Writes, Shifts, SameTasks
  <2>6. QED
    BY <2>1, <2>4, <2>5, OneMoves DEF Moves
<1>4. QED
  BY <1>2, <1>3

LEMMA EmitMoves ==
  ASSUME Typed, FollowersInv, NEW f \in Followers, Emit(f)
  PROVE  ConnectionsMove
<1> DEFINE c == conn[f]
           e == Head(c.tasks)
           rest == Tail(c.tasks)
           last == IF e <= c.lastSent THEN c.lastSent ELSE e
           sent == IF e <= c.lastSent THEN c.sent ELSE c.sent \cup {e}
           d == [c EXCEPT !.tasks = rest, !.lastSent = last, !.sent = sent]
<1>1. c \in Connection /\ c.tasks \in Seq(Nat) /\ c.tasks # <<>>
  BY DEF Typed, Connection, Emit
<1>2. e \in Nat /\ e = c.tasks[1] /\ e # Backfill
  <2>1. Head(c.tasks) \in Nat
    BY <1>1, HeadTailProperties
  <2>2. QED
    BY <1>1, <2>1 DEF Emit
<1>3. /\ rest \in Seq(Nat)
      /\ Len(rest) = Len(c.tasks) - 1
      /\ \A i \in 1..Len(rest) : rest[i] = c.tasks[i + 1]
  BY <1>1, TailShifts
<1>4. conn' = [conn EXCEPT ![f] = d]
  BY DEF Typed, Emit, AlreadySent
<1>5. ~c.asked /\ c.pc = "live"
  BY <1>2 DEF Emit, FollowersInv, Follows, Asks
<1>6. last \in Nat /\ sent \in SUBSET Nat
  BY <1>1, <1>2 DEF Connection
<1> HIDE DEF c, e, rest, last, sent
<1>7. /\ d \in Connection
      /\ d.tasks = rest /\ d.pc = c.pc /\ d.asked = c.asked /\ d.page = c.page
      /\ d.lastDelivered = c.lastDelivered
      /\ d.lastSent = last /\ d.sent = sent
  BY <1>1, <1>3, <1>6 DEF Connection
<1> HIDE DEF d
<1>8. EmitsNext(c, d)
  BY <1>1, <1>2, <1>3, <1>5, <1>7 DEF EmitsNext, Shifts, last, sent
<1>9. QED
  BY <1>4, <1>7, <1>8, OneMoves DEF Moves, c

LEMMA DisconnectMoves ==
  ASSUME Typed, NEW f \in Followers, Disconnect(f)
  PROVE  ConnectionsMove
<1>1. conn[f] \in Connection
  BY DEF Typed
<1>2. conn' = [conn EXCEPT ![f] = [NoConn EXCEPT !.lastSent = conn[f].lastSent]]
  BY DEF Disconnect
<1>3. QED
  BY <1>1, <1>2, DrainDropped, OneMoves

LEMMA ReaderFailsMoves ==
  ASSUME Typed, ReaderFails
  PROVE  ConnectionsMove
<1>1. ASSUME NEW f \in Followers
      PROVE  conn'[f] \in Connection /\ Moves(conn[f], conn'[f], committed)
  <2>1. conn[f] \in Connection
    BY DEF Typed
  <2>2. conn'[f] = IF f \in Live THEN [NoConn EXCEPT !.lastSent = conn[f].lastSent] ELSE conn[f]
    BY DEF ReaderFails
  <2>3. QED
    BY <2>1, <2>2, DrainDropped DEF Moves
<1>2. QED
  BY <1>1 DEF ReaderFails, ConnectionsMove

LEMMA QueuedBehind ==
  ASSUME NEW s \in Seq(Nat), NEW h \in Seq(Nat)
  PROVE  /\ s \o h \in Seq(Nat)
         /\ Len(s \o h) = Len(s) + Len(h)
         /\ \A i \in 1..Len(s) : (s \o h)[i] = s[i]
         /\ \A k \in 1..Len(h) : (s \o h)[Len(s) + k] = h[k]
<1> DEFINE t == s \o h
<1>1. Len(s) \in Nat /\ Len(h) \in Nat
  BY NoTasks
<1>2. /\ t \in Seq(Nat)
      /\ Len(t) = Len(s) + Len(h)
      /\ \A i \in 1..(Len(s) + Len(h)) : t[i] = IF i <= Len(s) THEN s[i] ELSE h[i - Len(s)]
  BY ConcatProperties
<1> HIDE DEF t
<1>3. ASSUME NEW i \in 1..Len(s) PROVE t[i] = s[i]
  <2>1. i \in 1..(Len(s) + Len(h)) /\ i <= Len(s)
    BY <1>1
  <2>2. QED
    BY <1>2, <2>1
<1>4. ASSUME NEW k \in 1..Len(h) PROVE t[Len(s) + k] = h[k]
  <2>1. /\ Len(s) + k \in 1..(Len(s) + Len(h))
        /\ ~(Len(s) + k <= Len(s))
        /\ (Len(s) + k) - Len(s) = k
    BY <1>1
  <2>2. QED
    BY <1>2, <2>1
<1>5. QED
  BY <1>2, <1>3, <1>4 DEF t

\* What a listener is handed is queued behind what it had.
LEMMA HandedHears ==
  ASSUME NEW c \in Connection, c.pc = "live", NEW e \in Nat, c.lastDelivered < e,
         NEW h \in Seq(Nat),
         \/ e = c.lastDelivered + 1 /\ Len(h) = 1 /\ h[1] = e
         \/ Len(h) = 2 /\ h[1] = Backfill /\ h[2] = e,
         NEW d, d = [c EXCEPT !.lastDelivered = e, !.tasks = c.tasks \o h]
  PROVE  d \in Connection /\ Hears(c, d, e)
<1>1. c.tasks \in Seq(Nat)
  BY DEF Connection
<1> DEFINE t == c.tasks \o h
<1>2. /\ t \in Seq(Nat)
      /\ Len(t) = Len(c.tasks) + Len(h)
      /\ \A i \in 1..Len(c.tasks) : t[i] = c.tasks[i]
      /\ \A k \in 1..Len(h) : t[Len(c.tasks) + k] = h[k]
  BY <1>1, QueuedBehind
<1>3. d = [c EXCEPT !.lastDelivered = e, !.tasks = t]
  OBVIOUS
<1> HIDE DEF t
<1>4. /\ d \in Connection /\ d.tasks = t /\ d.lastDelivered = e
      /\ d.pc = c.pc /\ d.lastSent = c.lastSent /\ d.sent = c.sent
      /\ d.asked = c.asked /\ d.page = c.page
  BY <1>2, <1>3 DEF Connection
<1>5. \/ e = c.lastDelivered + 1 /\ Len(t) = Len(c.tasks) + 1 /\ t[Len(c.tasks) + 1] = e
      \/ /\ Len(t) = Len(c.tasks) + 2
         /\ t[Len(c.tasks) + 1] = Backfill /\ t[Len(c.tasks) + 2] = e
  <2>1. CASE e = c.lastDelivered + 1 /\ Len(h) = 1 /\ h[1] = e
    <3>1. 1 \in 1..Len(h)
      BY <2>1
    <3>2. QED
      BY <1>2, <2>1, <3>1
  <2>2. CASE Len(h) = 2 /\ h[1] = Backfill /\ h[2] = e
    <3>1. 1 \in 1..Len(h) /\ 2 \in 1..Len(h)
      BY <2>2
    <3>2. QED
      BY <1>2, <2>2, <3>1
  <2>3. QED
    BY <2>1, <2>2
<1>6. QED
  BY <1>2, <1>4, <1>5 DEF Hears, SamePlace

LEMMA HandedTasks ==
  ASSUME NEW f \in Followers, NEW e \in Nat, conn[f].lastDelivered \in Nat, conn[f].lastDelivered < e
  PROVE  /\ Handed(f, e) \in Seq(Nat)
         /\ \/ e = conn[f].lastDelivered + 1 /\ Len(Handed(f, e)) = 1 /\ Handed(f, e)[1] = e
            \/ Len(Handed(f, e)) = 2 /\ Handed(f, e)[1] = Backfill /\ Handed(f, e)[2] = e
<1>1. CASE e > conn[f].lastDelivered + 1
  <2>1. Handed(f, e) = <<Backfill, e>>
    BY <1>1 DEF Handed
  <2>2. QED
    BY <2>1 DEF Backfill
<1>2. CASE ~(e > conn[f].lastDelivered + 1)
  <2>1. Handed(f, e) = <<e>> /\ e = conn[f].lastDelivered + 1
    BY <1>2 DEF Handed
  <2>2. QED
    BY <2>1
<1>3. QED
  BY <1>1, <1>2

LEMMA DeliverMoves ==
  ASSUME Typed, Bounded, Deliver
  PROVE  ConnectionsMove /\ pos' \in 1..Len(stream)
<1> DEFINE at == (IF pos < trimmed THEN trimmed ELSE pos) + 1
           e == stream[at]
<1>1. /\ Len(stream) \in Nat /\ pos \in Nat /\ trimmed \in Nat
      /\ at <= Len(stream) /\ pos' = at
  BY NoTasks DEF Typed, Deliver
<1>2. at \in 1..Len(stream) /\ e \in 1..committed
  BY <1>1 DEF Bounded
<1>3. conn' = [f \in Followers |->
                 IF f \in {g \in Live : e > conn[g].lastDelivered}
                 THEN [conn[f] EXCEPT !.lastDelivered = e, !.tasks = conn[f].tasks \o Handed(f, e)]
                 ELSE conn[f]]
  BY DEF Deliver
<1> HIDE DEF at, e
<1>4. ASSUME NEW f \in Followers
      PROVE  conn'[f] \in Connection /\ Moves(conn[f], conn'[f], committed)
  <2>1. conn[f] \in Connection /\ conn[f].lastDelivered \in Nat /\ committed \in Nat /\ e \in Nat
    BY <1>2 DEF Typed, Connection
  <2>2. CASE f \in Live /\ e > conn[f].lastDelivered
    <3>1. conn'[f] = [conn[f] EXCEPT !.lastDelivered = e, !.tasks = conn[f].tasks \o Handed(f, e)]
      BY <1>3, <2>2
    <3>2. conn[f].pc = "live" /\ conn[f].lastDelivered < e
      BY <2>1, <2>2 DEF Live
    <3>3. conn'[f] \in Connection /\ Hears(conn[f], conn'[f], e)
      BY <2>1, <3>1, <3>2, HandedTasks, HandedHears
    <3>4. QED
      BY <1>2, <3>3 DEF Moves
  <2>3. CASE ~(f \in Live /\ e > conn[f].lastDelivered)
    BY <1>3, <2>1, <2>3 DEF Moves
  <2>4. QED
    BY <2>2, <2>3
<1>5. conn' \in [Followers -> Connection]
  BY <1>3, <1>4
<1>6. QED
  BY <1>1, <1>2, <1>4, <1>5 DEF ConnectionsMove

LEMMA StillMoves ==
  ASSUME Typed, UNCHANGED conn
  PROVE  ConnectionsMove
BY DEF Typed, ConnectionsMove, Moves

\* A step is one of the actions.
LEMMA DeliveryStepCases ==
  ASSUME NEW CONSTANT P, [DeliveryNext]_deliveryVars,
         UNCHANGED deliveryVars => P,
         Commit => P,
         \A r \in Relays : ListPending(r) => P,
         \A r \in Relays : Publish(r) => P,
         \A r \in Relays : PublishFails(r) => P,
         \A r \in Relays : Mark(r) => P,
         \A r \in Relays : RelayStops(r) => P,
         Deliver => P,
         ReaderFails => P,
         \A f \in Followers : Open(f) => P,
         \A f \in Followers : Query(f) => P,
         \A f \in Followers : Join(f) => P,
         \A f \in Followers : PageArrives(f) => P,
         \A f \in Followers : Emit(f) => P,
         \A f \in Followers : Disconnect(f) => P
  PROVE  P
BY DEF DeliveryNext, RelayStep, RelayFault, FollowerStep

LEMMA ConnectionsStep ==
  ASSUME Typed, Bounded, FollowersInv, [DeliveryNext]_deliveryVars
  PROVE  ConnectionsMove
<1>1. ASSUME UNCHANGED conn PROVE ConnectionsMove
  BY <1>1, StillMoves
<1>2. QED
  BY <1>1, DeliveryStepCases, DeliverMoves, ReaderFailsMoves, OpenMoves, QueryMoves, JoinMoves,
     PageArrivesMoves, EmitMoves, DisconnectMoves
  DEF deliveryVars, Commit, ListPending, Publish, PublishFails, Mark, RelayStops

LEMMA CommittedGrows ==
  ASSUME Typed, [DeliveryNext]_deliveryVars
  PROVE  committed' \in Nat /\ committed <= committed' /\ (committed <= MaxEvents => committed' <= MaxEvents)
<1>0. committed \in Nat /\ MaxEvents \in Nat
  BY BoundsAreNumbers DEF Typed
<1>1. ASSUME UNCHANGED committed
      PROVE  committed' \in Nat /\ committed <= committed' /\ (committed <= MaxEvents => committed' <= MaxEvents)
  BY <1>0, <1>1
<1>2. ASSUME Commit
      PROVE  committed' \in Nat /\ committed <= committed' /\ (committed <= MaxEvents => committed' <= MaxEvents)
  BY <1>0, <1>2 DEF Commit
<1>3. QED
  BY <1>1, <1>2, DeliveryStepCases
  DEF deliveryVars, ledger, ListPending, Publish, PublishFails, Mark, RelayStops, Deliver, ReaderFails,
      Open, Query, Join, PageArrives, Emit, Disconnect

LEMMA FollowersStep ==
  ASSUME DeliveryInv, [DeliveryNext]_deliveryVars
  PROVE  /\ FollowersInv'
         /\ conn' \in [Followers -> Connection]
         /\ \A f \in Followers : Within(conn'[f], committed')
<1>1. conn' \in [Followers -> Connection] /\ \A f \in Followers : Moves(conn[f], conn'[f], committed)
  BY ConnectionsStep DEF DeliveryInv, ConnectionsMove
<1>2. committed \in Nat /\ committed' \in Nat /\ committed <= committed'
  BY CommittedGrows DEF DeliveryInv, Typed
<1>3. ASSUME NEW f \in Followers
      PROVE  Follows(conn'[f]) /\ Within(conn'[f], committed')
  <2>1. /\ conn[f] \in Connection /\ conn'[f] \in Connection
        /\ Follows(conn[f]) /\ Within(conn[f], committed)
        /\ Moves(conn[f], conn'[f], committed)
    BY <1>1 DEF DeliveryInv, Typed, Bounded, FollowersInv
  <2>2. QED
    BY <1>2, <2>1, MovesFollows, MovesWithin
<1>4. QED
  BY <1>1, <1>3 DEF FollowersInv

-----------------------------------------------------------------------------
(* The stream *)

\* Nothing on the stream changes, or event e is added at its end.
StreamStays == stream' = stream /\ trimmed' = trimmed
StreamGets(e) == stream' = Append(stream, e) /\ trimmed' \in trimmed..Len(stream')

\* Only relay r's drain changes, and what it counts as done has been published.
DrainSet(r, d) ==
    /\ d \in Drain
    /\ drain' = [drain EXCEPT ![r] = d]

LEMMA PublishDoes ==
  ASSUME Typed, Bounded, NEW r \in Relays, Publish(r)
  PROVE  \E e \in drain[r].batch :
            /\ e \in Nat
            /\ IsNext(r, e)
            /\ StreamGets(e)
            /\ DrainSet(r, [batch |-> drain[r].batch, done |-> drain[r].done \cup {e}])
            /\ UNCHANGED <<committed, marked, pos, faults, conn>>
<1>1. PICK e \in drain[r].batch :
         IsNext(r, e) /\ Added(e) /\ drain' = [drain EXCEPT ![r].done = @ \cup {e}]
  BY DEF Publish
<1>2. drain \in [Relays -> Drain] /\ drain[r] \in Drain /\ e \in Nat
  BY DEF Typed, Drain
<1> DEFINE d == [batch |-> drain[r].batch, done |-> drain[r].done \cup {e}]
<1>3. d \in Drain
  BY <1>2 DEF Drain
<1>4. [drain[r] EXCEPT !.done = drain[r].done \cup {e}] = d
  <2>1. \A x \in Drain : \A s : [x EXCEPT !.done = s] = [batch |-> x.batch, done |-> s]
    BY DEF Drain
  <2>2. QED
    BY <1>2, <2>1
<1>5. drain' = [drain EXCEPT ![r] = [drain[r] EXCEPT !.done = drain[r].done \cup {e}]]
  BY <1>1, <1>2
<1>6. DrainSet(r, d)
  BY <1>3, <1>4, <1>5 DEF DrainSet
<1>7. StreamGets(e) /\ UNCHANGED <<committed, marked, pos, faults, conn>>
  BY <1>1 DEF Added, StreamGets, Publish, ledger
<1>8. QED
  BY <1>1, <1>2, <1>6, <1>7

LEMMA PublishFailsDoes ==
  ASSUME Typed, NEW r \in Relays, PublishFails(r)
  PROVE  /\ \E e \in drain[r].batch : /\ e \in Nat
                                      /\ IsNext(r, e)
                                      /\ StreamGets(e) \/ StreamStays
         /\ DrainSet(r, [batch |-> drain[r].done, done |-> drain[r].done])
         /\ UNCHANGED <<committed, marked, pos, conn>>
         /\ faults < MaxFaults /\ faults' = faults + 1
<1>1. PICK e \in drain[r].batch :
         /\ IsNext(r, e)
         /\ Added(e) \/ UNCHANGED <<stream, trimmed>>
         /\ drain' = [drain EXCEPT ![r] = AfterFailure(r, e)]
  BY DEF PublishFails
<1>2. drain \in [Relays -> Drain] /\ drain[r] \in Drain /\ e \in Nat
  BY DEF Typed, Drain
<1> DEFINE d == [batch |-> drain[r].done, done |-> drain[r].done]
<1>3. d \in Drain
  BY <1>2 DEF Drain
<1>4. AfterFailure(r, e) = d
  BY <1>2 DEF Drain, AfterFailure
<1>5. DrainSet(r, d)
  BY <1>1, <1>3, <1>4 DEF DrainSet
<1>6. StreamGets(e) \/ StreamStays
  BY <1>1 DEF Added, StreamGets, StreamStays
<1>7. QED
  BY <1>1, <1>2, <1>5, <1>6 DEF PublishFails, ledger

LEMMA ListPendingDoes ==
  ASSUME Typed, NEW r \in Relays, ListPending(r)
  PROVE  /\ drain[r] = NoDrain
         /\ DrainSet(r, [batch |-> {e \in Pending : Cardinality({d \in Pending : d < e}) < BatchSize},
                         done |-> {}])
         /\ UNCHANGED <<committed, marked, stream, trimmed, faults, pos, conn>>
<1> DEFINE b == {e \in Pending : Cardinality({d \in Pending : d < e}) < BatchSize}
           d == [batch |-> b, done |-> {}]
<1>1. drain[r] = NoDrain /\ drain' = [drain EXCEPT ![r].batch = b]
  BY DEF ListPending
<1>2. b \in SUBSET Nat
  BY DEF Typed, Pending
<1> HIDE DEF b
<1>3. d \in Drain
  BY <1>2 DEF Drain
<1>4. [drain[r] EXCEPT !.batch = b] = d
  BY <1>1 DEF NoDrain
<1>5. drain' = [drain EXCEPT ![r] = [drain[r] EXCEPT !.batch = b]]
  BY <1>1 DEF Typed
<1>6. DrainSet(r, d)
  BY <1>3, <1>4, <1>5 DEF DrainSet
<1>7. QED
  BY <1>1, <1>6 DEF ListPending, ledger, b

LEMMA NoDrainIsDrain == NoDrain \in Drain /\ NoDrain.batch = {} /\ NoDrain.done = {}
BY DEF NoDrain, Drain

LEMMA DrainSets ==
  ASSUME Typed, NEW r \in Relays, NEW d, DrainSet(r, d)
  PROVE  /\ drain' \in [Relays -> Drain]
         /\ drain'[r] = d
         /\ \A q \in Relays \ {r} : drain'[q] = drain[q]
BY DEF Typed, DrainSet

LEMMA StreamGrows ==
  ASSUME Typed, NEW e \in Nat, StreamGets(e)
  PROVE  /\ stream' \in Seq(Nat)
         /\ Len(stream) \in Nat
         /\ Len(stream') = Len(stream) + 1
         /\ \A i \in 1..Len(stream) : stream'[i] = stream[i]
         /\ stream'[Len(stream) + 1] = e
         /\ trimmed' \in Nat /\ trimmed' <= Len(stream')
         /\ \A n : InStream(n) => InStream(n)'
         /\ InStream(e)'
<1>1. /\ stream' \in Seq(Nat)
      /\ Len(stream) \in Nat
      /\ Len(stream') = Len(stream) + 1
      /\ \A i \in 1..Len(stream) : stream'[i] = stream[i]
      /\ stream'[Len(stream) + 1] = e
  BY AppendProperties, LenProperties DEF Typed, StreamGets
<1>2. trimmed' \in Nat /\ trimmed' <= Len(stream')
  BY <1>1 DEF Typed, StreamGets
<1>3. ASSUME NEW n, InStream(n) PROVE InStream(n)'
  <2>1. PICK j \in 1..Len(stream) : stream[j] = n
    BY <1>3 DEF InStream
  <2>2. j \in 1..Len(stream') /\ stream'[j] = n
    BY <1>1, <2>1
  <2>3. QED
    BY <2>2 DEF InStream
<1>4. InStream(e)'
  <2>1. Len(stream) + 1 \in 1..Len(stream')
    BY <1>1
  <2>2. QED
    BY <1>1, <2>1 DEF InStream
<1>5. QED
  BY <1>1, <1>2, <1>3, <1>4

\* An entry whose predecessor is on the stream goes after it.
LEMMA OrderKept ==
  ASSUME Typed, Ordered, NEW e \in Nat, StreamGets(e), e > 1 => InStream(e - 1)
  PROVE  Ordered'
<1>1. /\ Len(stream) \in Nat
      /\ Len(stream') = Len(stream) + 1
      /\ \A i \in 1..Len(stream) : stream'[i] = stream[i]
      /\ stream'[Len(stream) + 1] = e
  BY StreamGrows
<1> SUFFICES ASSUME NEW i \in 1..Len(stream'), stream'[i] > 1
             PROVE  \E j \in 1..i : stream'[j] = stream'[i] - 1
  BY DEF Ordered
<1>2. CASE i <= Len(stream)
  <2>1. i \in 1..Len(stream) /\ stream'[i] = stream[i]
    BY <1>1, <1>2
  <2>2. PICK j \in 1..i : stream[j] = stream[i] - 1
    BY <2>1 DEF Ordered
  <2>3. j \in 1..Len(stream)
    BY <1>1, <2>1, <2>2
  <2>4. QED
    BY <1>1, <2>1, <2>2, <2>3
<1>3. CASE i = Len(stream) + 1
  <2>1. PICK j \in 1..Len(stream) : stream[j] = e - 1
    BY <1>1, <1>3 DEF InStream
  <2>2. j \in 1..i /\ stream'[j] = stream[j] /\ stream'[i] = e
    BY <1>1, <1>3, <2>1
  <2>3. QED
    BY <2>1, <2>2
<1>4. QED
  BY <1>1, <1>2, <1>3

\* The next event of a batch continues what is on the stream.
LEMMA NextJoinsOn ==
  ASSUME Typed, StreamInv, NEW r \in Relays, NEW e \in drain[r].batch, e \in Nat, IsNext(r, e), e > 1
  PROVE  InStream(e - 1)
<1>1. e - 1 \in drain[r].batch \/ InStream(e - 1)
  BY DEF StreamInv, BatchesJoinOn
<1>2. ASSUME e - 1 \in drain[r].batch PROVE InStream(e - 1)
  <2>1. e - 1 \in drain[r].done
    BY <1>2 DEF IsNext
  <2>2. QED
    BY <2>1 DEF StreamInv, DoneIsPublished
<1>3. QED
  BY <1>1, <1>2

\* What is on the stream is there with its predecessor.
LEMMA PredecessorPublished ==
  ASSUME Typed, Ordered, NEW e \in Nat, InStream(e), e > 1
  PROVE  InStream(e - 1)
<1>1. PICK i \in 1..Len(stream) : stream[i] = e
  BY DEF InStream
<1>2. PICK j \in 1..i : stream[j] = e - 1
  BY <1>1 DEF Ordered
<1>3. Len(stream) \in Nat
  BY NoTasks DEF Typed
<1>4. j \in 1..Len(stream)
  BY <1>1, <1>2, <1>3
<1>5. QED
  BY <1>2, <1>4 DEF InStream

\* The oldest pending events leave none out.
LEMMA OldestJoinOn ==
  ASSUME Typed, Bounded, StreamInv, NEW e \in Pending,
         Cardinality({d \in Pending : d < e}) < BatchSize, e > 1
  PROVE  \/ e - 1 \in {n \in Pending : Cardinality({d \in Pending : d < n}) < BatchSize}
         \/ InStream(e - 1)
<1>1. committed \in Nat /\ e \in 1..committed /\ e - 1 \in 1..committed
  BY DEF Typed, Pending
<1>2. CASE e - 1 \in marked
  BY <1>2 DEF StreamInv, DoneIsPublished
<1>3. CASE e - 1 \notin marked
  <2>1. e - 1 \in Pending
    BY <1>1, <1>3 DEF Pending
  <2> DEFINE A == {d \in Pending : d < e}
             B == {d \in Pending : d < e - 1}
  <2>2. IsFiniteSet(1..committed)
    BY <1>1, FS_Interval
  <2>3. A \subseteq 1..committed
    BY DEF Pending
  <2>4. IsFiniteSet(A)
    BY <2>2, <2>3, FS_Subset
  <2>5. B \subseteq A
    BY <1>1 DEF Pending
  <2>6. IsFiniteSet(B) /\ Cardinality(B) <= Cardinality(A)
    BY <2>4, <2>5, FS_Subset
  <2>7. Cardinality(A) \in Nat /\ Cardinality(B) \in Nat /\ BatchSize \in Nat
    BY <2>4, <2>6, FS_CardinalityType, SizesArePositive
  <2>8. Cardinality(B) < BatchSize
    <3> HIDE DEF B
    <3>1. Cardinality(A) < BatchSize
      OBVIOUS
    <3> HIDE DEF A
    <3>2. QED
      BY <2>6, <2>7, <3>1
  <2>9. QED
    BY <2>1, <2>8
<1>4. QED
  BY <1>2, <1>3

-----------------------------------------------------------------------------
(* Every step keeps the invariant *)

\* Steps that leave the relays and the stream alone.
RelaysRest == UNCHANGED <<marked, stream, drain>>

LEMMA StreamRests ==
  ASSUME StreamInv, RelaysRest
  PROVE  StreamInv'
BY DEF RelaysRest, StreamInv, DoneIsPublished, Ordered, BatchesJoinOn, InStream

\* The other relays' batches keep joining on to a stream that only grows.
LEMMA StreamInvKept ==
  ASSUME Typed, StreamInv, NEW r \in Relays, NEW d \in Drain, DrainSet(r, d),
         \A e \in Nat : InStream(e) => InStream(e)',
         \A e \in marked' : e \in Nat /\ InStream(e)',
         Ordered',
         \A e \in d.done : InStream(e)',
         \A e \in d.batch : e > 1 => e - 1 \in d.batch \/ InStream(e - 1)'
  PROVE  StreamInv'
<1>1. /\ drain' \in [Relays -> Drain]
      /\ drain'[r] = d
      /\ \A q \in Relays \ {r} : drain'[q] = drain[q]
  BY DrainSets
<1>2. \A q \in Relays : drain[q] \in Drain
  BY DEF Typed
<1>3. \A q \in Relays : \A e \in drain'[q].done : InStream(e)'
  <2>1. ASSUME NEW q \in Relays, NEW e \in drain'[q].done, q # r PROVE InStream(e)'
    <3>1. e \in drain[q].done /\ e \in Nat
      BY <1>1, <1>2, <2>1 DEF Drain
    <3>2. QED
      BY <3>1 DEF StreamInv, DoneIsPublished
  <2>2. QED
    BY <1>1, <2>1
<1>4. \A q \in Relays : \A e \in drain'[q].batch :
         e > 1 => e - 1 \in drain'[q].batch \/ InStream(e - 1)'
  <2>1. ASSUME NEW q \in Relays, NEW e \in drain'[q].batch, e > 1, q # r
        PROVE  e - 1 \in drain'[q].batch \/ InStream(e - 1)'
    <3>1. drain'[q] = drain[q] /\ e \in drain[q].batch /\ e \in Nat /\ e - 1 \in Nat
      BY <1>1, <1>2, <2>1 DEF Drain
    <3>2. e - 1 \in drain[q].batch \/ InStream(e - 1)
      BY <2>1, <3>1 DEF StreamInv, BatchesJoinOn
    <3>3. QED
      BY <3>1, <3>2
  <2>2. QED
    BY <1>1, <2>1
<1>5. DoneIsPublished'
  BY <1>3 DEF DoneIsPublished
<1>6. BatchesJoinOn'
  BY <1>4 DEF BatchesJoinOn
<1>7. QED
  BY <1>5, <1>6 DEF StreamInv

LEMMA StreamStep ==
  ASSUME DeliveryInv, [DeliveryNext]_deliveryVars
  PROVE  StreamInv'
<1>0. Typed /\ Bounded /\ StreamInv /\ Ordered
  BY DEF DeliveryInv, StreamInv
<1>m. marked \in SUBSET Nat /\ (\A e \in marked : InStream(e)) /\ \A r \in Relays : drain[r] \in Drain
  BY <1>0 DEF Typed, StreamInv, DoneIsPublished
<1>1. ASSUME RelaysRest PROVE StreamInv'
  BY <1>0, <1>1, StreamRests
<1>2. ASSUME NEW r \in Relays, ListPending(r) PROVE StreamInv'
  <2> DEFINE b == {e \in Pending : Cardinality({d \in Pending : d < e}) < BatchSize}
             d == [batch |-> b, done |-> {}]
  <2>1. DrainSet(r, d) /\ stream' = stream /\ marked' = marked
    BY <1>0, <1>2, ListPendingDoes
  <2>2. \A e : InStream(e)' <=> InStream(e)
    BY <2>1 DEF InStream
  <2>3. Ordered'
    BY <1>0, <2>1 DEF Ordered
  <2>4. \A e \in b : e > 1 => e - 1 \in b \/ InStream(e - 1)
    BY <1>0, OldestJoinOn
  <2> HIDE DEF b
  <2>5. \A e \in d.batch : e > 1 => e - 1 \in d.batch \/ InStream(e - 1)'
    BY <2>2, <2>4
  <2>6. d \in Drain /\ d.done = {}
    BY <2>1 DEF DrainSet
  <2> HIDE DEF d
  <2>7. QED
    BY <1>0, <1>m, <2>1, <2>2, <2>3, <2>5, <2>6, StreamInvKept
<1>3. ASSUME NEW r \in Relays, Publish(r) PROVE StreamInv'
  <2>1. PICK e \in drain[r].batch :
           /\ e \in Nat
           /\ IsNext(r, e)
           /\ StreamGets(e)
           /\ DrainSet(r, [batch |-> drain[r].batch, done |-> drain[r].done \cup {e}])
           /\ UNCHANGED <<committed, marked, pos, faults, conn>>
    BY <1>0, <1>3, PublishDoes
  <2> DEFINE d == [batch |-> drain[r].batch, done |-> drain[r].done \cup {e}]
  <2>2. (\A n : InStream(n) => InStream(n)') /\ InStream(e)'
    BY <1>0, <2>1, StreamGrows
  <2>3. Ordered'
    <3>1. e > 1 => InStream(e - 1)
      BY <1>0, <2>1, NextJoinsOn
    <3>2. QED
      BY <1>0, <2>1, <3>1, OrderKept
  <2>4. \A n \in d.done : InStream(n)'
    BY <1>0, <2>2 DEF StreamInv, DoneIsPublished
  <2>5. \A n \in d.batch : n > 1 => n - 1 \in d.batch \/ InStream(n - 1)'
    BY <1>0, <2>2 DEF StreamInv, BatchesJoinOn
  <2>6. d \in Drain /\ marked' = marked
    BY <2>1 DEF DrainSet
  <2> HIDE DEF d
  <2>7. DrainSet(r, d)
    BY <2>1 DEF d
  <2>8. QED
    BY <1>0, <1>m, <2>2, <2>3, <2>4, <2>5, <2>6, <2>7, StreamInvKept
<1>4. ASSUME NEW r \in Relays, PublishFails(r) PROVE StreamInv'
  <2> DEFINE d == [batch |-> drain[r].done, done |-> drain[r].done]
  <2>1. DrainSet(r, d) /\ marked' = marked
    BY <1>0, <1>4, PublishFailsDoes
  <2>2. PICK e \in drain[r].batch : /\ e \in Nat
                                    /\ IsNext(r, e)
                                    /\ StreamGets(e) \/ StreamStays
    BY <1>0, <1>4, PublishFailsDoes
  <2>3. (\A n : InStream(n) => InStream(n)') /\ Ordered'
    <3>1. CASE StreamGets(e)
      <4>1. e > 1 => InStream(e - 1)
        BY <1>0, <2>2, NextJoinsOn
      <4>2. Ordered'
        BY <1>0, <2>2, <3>1, <4>1, OrderKept
      <4>3. \A n : InStream(n) => InStream(n)'
        BY <1>0, <2>2, <3>1, StreamGrows
      <4>4. QED
        BY <4>2, <4>3
    <3>2. CASE StreamStays
      BY <1>0, <3>2 DEF StreamStays, Ordered, InStream
    <3>3. QED
      BY <2>2, <3>1, <3>2
  <2>4. \A n \in d.done : InStream(n)'
    BY <1>0, <2>3 DEF StreamInv, DoneIsPublished
  <2>5. \A n \in d.batch : n > 1 => n - 1 \in d.batch \/ InStream(n - 1)'
    <3>1. ASSUME NEW n \in drain[r].done, n > 1 PROVE InStream(n - 1)'
      <4>1. n \in Nat /\ InStream(n)
        BY <1>0, <1>m DEF Drain, StreamInv, DoneIsPublished
      <4>2. InStream(n - 1)
        BY <1>0, <3>1, <4>1, PredecessorPublished
      <4>3. QED
        BY <2>3, <4>2
    <3>2. QED
      BY <3>1
  <2>6. d \in Drain
    BY <2>1 DEF DrainSet
  <2> HIDE DEF d
  <2>7. QED
    BY <1>0, <1>m, <2>1, <2>3, <2>4, <2>5, <2>6, StreamInvKept
<1>5. ASSUME NEW r \in Relays, Mark(r) \/ RelayStops(r) PROVE StreamInv'
  <2>1. DrainSet(r, NoDrain) /\ stream' = stream
    BY <1>5, NoDrainIsDrain DEF Mark, RelayStops, DrainSet
  <2>2. \A n : InStream(n)' <=> InStream(n)
    BY <2>1 DEF InStream
  <2>3. Ordered'
    BY <1>0, <2>1 DEF Ordered
  <2>4. \A e \in marked' : e \in Nat /\ InStream(e)'
    <3>1. CASE Mark(r)
      <4>1. marked' = marked \cup drain[r].done
        BY <3>1 DEF Mark
      <4>2. \A e \in drain[r].done : e \in Nat /\ InStream(e)
        BY <1>0, <1>m DEF Drain, StreamInv, DoneIsPublished
      <4>3. QED
        BY <1>m, <2>2, <4>1, <4>2
    <3>2. CASE RelayStops(r)
      <4>1. marked' = marked
        BY <3>2 DEF RelayStops, ledger
      <4>2. QED
        BY <1>m, <2>2, <4>1
    <3>3. QED
      BY <1>5, <3>1, <3>2
  <2>5. QED
    BY <1>0, <2>1, <2>2, <2>3, <2>4, NoDrainIsDrain, StreamInvKept
<1>6. QED
  BY <1>1, <1>2, <1>3, <1>4, <1>5, DeliveryStepCases
  DEF RelaysRest, deliveryVars, ledger, transport, Commit, Deliver, ReaderFails, Open, Query, Join,
      PageArrives, Emit, Disconnect

-----------------------------------------------------------------------------
(* Types and bounds *)

TransportFits ==
    /\ marked \subseteq 1..committed
    /\ stream \in Seq(Nat)
    /\ \A i \in 1..Len(stream) : stream[i] \in 1..committed
    /\ trimmed \in Nat
    /\ trimmed <= Len(stream)
    /\ drain \in [Relays -> Drain]
    /\ \A r \in Relays : drain[r].batch \subseteq 1..committed /\ drain[r].done \subseteq drain[r].batch

\* The drain of one relay changes to one that fits.
LEMMA DrainFits ==
  ASSUME Typed, Bounded, committed' = committed, NEW r \in Relays, NEW d, DrainSet(r, d),
         d.batch \subseteq 1..committed, d.done \subseteq d.batch
  PROVE  /\ drain' \in [Relays -> Drain]
         /\ \A q \in Relays : drain'[q].batch \subseteq 1..committed' /\ drain'[q].done \subseteq drain'[q].batch
<1>1. /\ drain' \in [Relays -> Drain]
      /\ drain'[r] = d
      /\ \A q \in Relays \ {r} : drain'[q] = drain[q]
  BY DrainSets
<1>2. ASSUME NEW q \in Relays
      PROVE  drain'[q].batch \subseteq 1..committed' /\ drain'[q].done \subseteq drain'[q].batch
  <2>1. CASE q = r
    BY <1>1, <2>1
  <2>2. CASE q # r
    BY <1>1, <2>2 DEF Bounded
  <2>3. QED
    BY <2>1, <2>2
<1>3. QED
  BY <1>1, <1>2

\* The stream stays, or gets a committed event.
LEMMA StreamFits ==
  ASSUME Typed, Bounded, committed' = committed, NEW e \in 1..committed, StreamGets(e) \/ StreamStays
  PROVE  /\ stream' \in Seq(Nat)
         /\ \A i \in 1..Len(stream') : stream'[i] \in 1..committed'
         /\ trimmed' \in Nat
         /\ trimmed' <= Len(stream')
         /\ Len(stream) <= Len(stream')
<1>1. CASE StreamGets(e)
  <2>1. /\ e \in Nat
        /\ stream' \in Seq(Nat)
        /\ Len(stream) \in Nat
        /\ Len(stream') = Len(stream) + 1
        /\ \A i \in 1..Len(stream) : stream'[i] = stream[i]
        /\ stream'[Len(stream) + 1] = e
        /\ trimmed' \in Nat /\ trimmed' <= Len(stream')
    BY <1>1, StreamGrows DEF Typed
  <2>2. ASSUME NEW i \in 1..Len(stream') PROVE stream'[i] \in 1..committed'
    <3>1. i \in 1..Len(stream) \/ i = Len(stream) + 1
      BY <2>1
    <3>2. QED
      BY <2>1, <3>1 DEF Bounded
  <2>3. QED
    BY <2>1, <2>2
<1>2. CASE StreamStays
  <2>1. Len(stream) \in Nat
    BY NoTasks DEF Typed
  <2>2. QED
    BY <1>2, <2>1 DEF StreamStays, Typed, Bounded
<1>3. QED
  BY <1>1, <1>2

LEMMA TransportStep ==
  ASSUME DeliveryInv, [DeliveryNext]_deliveryVars
  PROVE  TransportFits' /\ Len(stream) <= Len(stream')
<1>0. Typed /\ Bounded /\ Len(stream) \in Nat
  BY NoTasks DEF DeliveryInv, Typed
<1>1. ASSUME RelaysRest, trimmed' = trimmed PROVE TransportFits' /\ Len(stream) <= Len(stream')
  <2>1. committed \in Nat /\ committed' \in Nat /\ committed <= committed'
    BY <1>0, CommittedGrows DEF Typed
  <2>2. 1..committed \subseteq 1..committed'
    BY <2>1
  <2>3. QED
    BY <1>0, <1>1, <2>2 DEF RelaysRest, TransportFits, Typed, Bounded
<1>2. ASSUME NEW r \in Relays, ListPending(r) PROVE TransportFits' /\ Len(stream) <= Len(stream')
  <2> DEFINE b == {e \in Pending : Cardinality({d \in Pending : d < e}) < BatchSize}
             d == [batch |-> b, done |-> {}]
  <2>1. /\ DrainSet(r, d)
        /\ UNCHANGED <<committed, marked, stream, trimmed>>
    BY <1>0, <1>2, ListPendingDoes
  <2>2. d.batch \subseteq 1..committed /\ d.done \subseteq d.batch
    BY DEF Pending
  <2> HIDE DEF d
  <2>3. QED
    BY <1>0, <2>1, <2>2, DrainFits DEF TransportFits, Typed, Bounded
<1>3. ASSUME NEW r \in Relays, Publish(r) PROVE TransportFits' /\ Len(stream) <= Len(stream')
  <2>1. PICK e \in drain[r].batch :
           /\ e \in Nat
           /\ IsNext(r, e)
           /\ StreamGets(e)
           /\ DrainSet(r, [batch |-> drain[r].batch, done |-> drain[r].done \cup {e}])
           /\ UNCHANGED <<committed, marked, pos, faults, conn>>
    BY <1>0, <1>3, PublishDoes
  <2> DEFINE d == [batch |-> drain[r].batch, done |-> drain[r].done \cup {e}]
  <2>2. d.batch \subseteq 1..committed /\ d.done \subseteq d.batch /\ e \in 1..committed
    BY <1>0, <2>1 DEF Bounded
  <2>3. DrainSet(r, d)
    BY <2>1
  <2> HIDE DEF d
  <2>4. /\ drain' \in [Relays -> Drain]
        /\ \A q \in Relays : drain'[q].batch \subseteq 1..committed' /\ drain'[q].done \subseteq drain'[q].batch
    BY <1>0, <2>1, <2>2, <2>3, DrainFits
  <2>5. /\ stream' \in Seq(Nat)
        /\ \A i \in 1..Len(stream') : stream'[i] \in 1..committed'
        /\ trimmed' \in Nat /\ trimmed' <= Len(stream')
        /\ Len(stream) <= Len(stream')
    BY <1>0, <2>1, <2>2, StreamFits
  <2>6. marked' \subseteq 1..committed'
    BY <1>0, <2>1 DEF Bounded
  <2>7. QED
    BY <2>4, <2>5, <2>6 DEF TransportFits
<1>4. ASSUME NEW r \in Relays, PublishFails(r) PROVE TransportFits' /\ Len(stream) <= Len(stream')
  <2> DEFINE d == [batch |-> drain[r].done, done |-> drain[r].done]
  <2>1. DrainSet(r, d) /\ committed' = committed /\ marked' = marked
    BY <1>0, <1>4, PublishFailsDoes
  <2>2. PICK e \in drain[r].batch : /\ e \in Nat
                                    /\ IsNext(r, e)
                                    /\ StreamGets(e) \/ StreamStays
    BY <1>0, <1>4, PublishFailsDoes
  <2>3. d.batch \subseteq 1..committed /\ d.done \subseteq d.batch /\ e \in 1..committed
    BY <1>0, <2>2 DEF Bounded
  <2> HIDE DEF d
  <2>4. /\ drain' \in [Relays -> Drain]
        /\ \A q \in Relays : drain'[q].batch \subseteq 1..committed' /\ drain'[q].done \subseteq drain'[q].batch
    BY <1>0, <2>1, <2>3, DrainFits
  <2>5. /\ stream' \in Seq(Nat)
        /\ \A i \in 1..Len(stream') : stream'[i] \in 1..committed'
        /\ trimmed' \in Nat /\ trimmed' <= Len(stream')
        /\ Len(stream) <= Len(stream')
    BY <1>0, <2>1, <2>2, <2>3, StreamFits
  <2>6. marked' \subseteq 1..committed'
    BY <1>0, <2>1 DEF Bounded
  <2>7. QED
    BY <2>4, <2>5, <2>6 DEF TransportFits
<1>5. ASSUME NEW r \in Relays, Mark(r) \/ RelayStops(r)
      PROVE  TransportFits' /\ Len(stream) <= Len(stream')
  <2>1. /\ DrainSet(r, NoDrain)
        /\ UNCHANGED <<committed, stream, trimmed>>
        /\ marked' = marked \cup drain[r].done \/ marked' = marked
    BY <1>5, NoDrainIsDrain DEF Mark, RelayStops, DrainSet, ledger
  <2>2. drain[r].done \subseteq 1..committed
    BY <1>0 DEF Bounded
  <2>3. /\ drain' \in [Relays -> Drain]
        /\ \A q \in Relays : drain'[q].batch \subseteq 1..committed' /\ drain'[q].done \subseteq drain'[q].batch
    BY <1>0, <2>1, NoDrainIsDrain, DrainFits
  <2>4. marked' \subseteq 1..committed'
    BY <1>0, <2>1, <2>2 DEF Bounded
  <2>5. /\ stream' \in Seq(Nat)
        /\ \A i \in 1..Len(stream') : stream'[i] \in 1..committed'
        /\ trimmed' \in Nat /\ trimmed' <= Len(stream')
        /\ Len(stream) <= Len(stream')
    BY <1>0, <2>1 DEF Typed, Bounded
  <2>6. QED
    BY <2>3, <2>4, <2>5 DEF TransportFits
<1>6. QED
  BY <1>1, <1>2, <1>3, <1>4, <1>5, DeliveryStepCases
  DEF RelaysRest, deliveryVars, ledger, transport, Commit, Deliver, ReaderFails, Open, Query, Join,
      PageArrives, Emit, Disconnect

\* A reader has read no more than there is, and none stays without a listener.
LEMMA ReaderStep ==
  ASSUME DeliveryInv, [DeliveryNext]_deliveryVars
  PROVE  pos' \in Nat /\ pos' <= Len(stream') /\ (Live' = {} => pos' = 0)
<1>0. /\ Typed /\ Bounded
      /\ Len(stream) \in Nat /\ Len(stream') \in Nat /\ Len(stream) <= Len(stream')
      /\ pos \in Nat /\ pos <= Len(stream)
      /\ conn' \in [Followers -> Connection] /\ conn \in [Followers -> Connection]
  BY NoTasks, TransportStep, FollowersStep DEF DeliveryInv, Typed, Bounded, TransportFits
<1>1. ASSUME pos' = 0 PROVE pos' \in Nat /\ pos' <= Len(stream') /\ (Live' = {} => pos' = 0)
  BY <1>0, <1>1
<1>2. ASSUME pos' = pos, Live' = {} => Live = {}
      PROVE  pos' \in Nat /\ pos' <= Len(stream') /\ (Live' = {} => pos' = 0)
  BY <1>0, <1>2 DEF Bounded
<1>3. ASSUME UNCHANGED <<pos, conn>>
      PROVE  pos' \in Nat /\ pos' <= Len(stream') /\ (Live' = {} => pos' = 0)
  BY <1>2, <1>3 DEF Live
<1>4. ASSUME Deliver PROVE pos' \in Nat /\ pos' <= Len(stream') /\ (Live' = {} => pos' = 0)
  <2>1. pos' \in 1..Len(stream)
    BY <1>0, <1>4, DeliverMoves
  <2>2. PICK f \in Followers : conn[f].pc = "live"
    BY <1>4 DEF Deliver, Live
  <2>3. conn'[f].pc = "live"
    <3>1. \/ conn'[f] = conn[f]
          \/ \E e, t : conn'[f] = [conn[f] EXCEPT !.lastDelivered = e, !.tasks = t]
      BY <1>4 DEF Deliver
    <3>2. conn[f] \in Connection
      BY <1>0
    <3>3. QED
      BY <2>2, <3>1, <3>2 DEF Connection
  <2>4. Live' # {}
    BY <2>3 DEF Live
  <2>5. QED
    BY <1>0, <2>1, <2>4
<1>5. ASSUME NEW f \in Followers, Open(f) \/ Query(f) \/ PageArrives(f) \/ Emit(f)
      PROVE  pos' \in Nat /\ pos' <= Len(stream') /\ (Live' = {} => pos' = 0)
  <2>1. pos' = pos
    BY <1>5 DEF Open, Query, PageArrives, Emit
  <2>2. \A g \in Followers \ {f} : conn'[g] = conn[g]
    BY <1>0, <1>5 DEF Open, Query, PageArrives, Emit
  <2>3. conn[f].pc = "live" => conn'[f].pc = "live"
    <3>1. conn[f] \in Connection
      BY <1>0
    <3>2. CASE Open(f)
      BY <3>2 DEF Open
    <3>3. CASE Query(f)
      BY <1>0, <3>1, <3>3 DEF Query, Connection
    <3>4. CASE PageArrives(f)
      BY <1>0, <3>1, <3>4 DEF PageArrives, Written, Connection
    <3>5. CASE Emit(f)
      BY <1>0, <3>1, <3>5 DEF Emit, Connection
    <3>6. QED
      BY <1>5, <3>2, <3>3, <3>4, <3>5
  <2>4. Live' = {} => Live = {}
    BY <2>2, <2>3 DEF Live
  <2>5. QED
    BY <1>2, <2>1, <2>4
<1>6. ASSUME NEW f \in Followers, Join(f)
      PROVE  pos' \in Nat /\ pos' <= Len(stream') /\ (Live' = {} => pos' = 0)
  <2>1. pos' = 0 \/ pos' = pos
    BY <1>6 DEF Join, StartPos
  <2>2. conn'[f].pc = "live"
    <3>1. Written(f) \in Connection
      BY <1>0, <1>6, WrittenPage DEF Join
    <3>2. QED
      BY <1>0, <1>6, <3>1 DEF Join, Connection
  <2>3. Live' # {}
    BY <2>2 DEF Live
  <2>4. QED
    BY <1>0, <2>1, <2>3
<1>7. ASSUME NEW f \in Followers, Disconnect(f)
      PROVE  pos' \in Nat /\ pos' <= Len(stream') /\ (Live' = {} => pos' = 0)
  <2>1. CASE Live \subseteq {f}
    BY <1>1, <1>7, <2>1 DEF Disconnect, PosWithout
  <2>2. CASE ~(Live \subseteq {f})
    <3>1. pos' = pos
      BY <1>7, <2>2 DEF Disconnect, PosWithout
    <3>2. PICK g \in Followers \ {f} : conn[g].pc = "live"
      BY <2>2 DEF Live
    <3>3. conn'[g] = conn[g]
      BY <1>0, <1>7, <3>2 DEF Disconnect
    <3>4. Live' # {}
      BY <3>2, <3>3 DEF Live
    <3>5. QED
      BY <1>0, <3>1, <3>4
  <2>3. QED
    BY <2>1, <2>2
<1>8. QED
  BY <1>1, <1>3, <1>4, <1>5, <1>6, <1>7, DeliveryStepCases
  DEF deliveryVars, ledger, transport, Commit, ListPending, Publish, PublishFails, Mark, RelayStops,
      ReaderFails

LEMMA FaultsStep ==
  ASSUME DeliveryInv, [DeliveryNext]_deliveryVars
  PROVE  faults' \in Nat /\ faults' <= MaxFaults
<1>0. faults \in Nat /\ faults <= MaxFaults /\ MaxFaults \in Nat
  BY BoundsAreNumbers DEF DeliveryInv, Typed, Bounded
<1>1. ASSUME faults' = faults PROVE faults' \in Nat /\ faults' <= MaxFaults
  BY <1>0, <1>1
<1>2. ASSUME faults < MaxFaults, faults' = faults + 1 PROVE faults' \in Nat /\ faults' <= MaxFaults
  BY <1>0, <1>2
<1>3. QED
  BY <1>1, <1>2, DeliveryStepCases
  DEF deliveryVars, ledger, transport, Commit, ListPending, Publish, PublishFails, Mark, RelayStops,
      Deliver, ReaderFails, Open, Query, Join, PageArrives, Emit, Disconnect

-----------------------------------------------------------------------------
(* The theorems *)

LEMMA DeliveryInvInit == DeliveryInit => DeliveryInv
<1> SUFFICES ASSUME DeliveryInit PROVE DeliveryInv
  OBVIOUS
<1>0. <<>> \in Seq(Nat) /\ Len(<<>>) = 0
  BY EmptySeq
<1>1. /\ NoConn \in Connection
      /\ NoConn.pc = "off" /\ NoConn.lastSent = 0 /\ NoConn.sent = {} /\ Blank(NoConn)
  BY <1>0 DEF NoConn, Connection, ConnPhase, Blank
<1>2. Typed
  BY <1>0, <1>1, NoDrainIsDrain DEF DeliveryInit, Typed
<1>3. Bounded
  BY <1>0, <1>1, BoundsAreNumbers, NoDrainIsDrain DEF DeliveryInit, Bounded, Within, Blank, Live
<1>4. StreamInv
  BY <1>0, NoDrainIsDrain DEF DeliveryInit, StreamInv, DoneIsPublished, Ordered, BatchesJoinOn
<1>5. FollowersInv
  <2>1. Drops(NoConn, NoConn)
    BY <1>1 DEF Drops
  <2>2. QED
    BY <1>1, <2>1, DropsFollows DEF DeliveryInit, FollowersInv
<1>6. QED
  BY <1>2, <1>3, <1>4, <1>5 DEF DeliveryInv

LEMMA DeliveryInvStep == DeliveryInv /\ [DeliveryNext]_deliveryVars => DeliveryInv'
<1> SUFFICES ASSUME DeliveryInv, [DeliveryNext]_deliveryVars PROVE DeliveryInv'
  OBVIOUS
<1>1. StreamInv'
  BY StreamStep
<1>2. /\ FollowersInv'
      /\ conn' \in [Followers -> Connection]
      /\ \A f \in Followers : Within(conn'[f], committed')
  BY FollowersStep
<1>3. committed' \in Nat /\ committed' <= MaxEvents
  BY CommittedGrows DEF DeliveryInv, Bounded
<1>4. TransportFits' /\ faults' \in Nat /\ faults' <= MaxFaults
  BY TransportStep, FaultsStep
<1>5. pos' \in Nat /\ pos' <= Len(stream') /\ (Live' = {} => pos' = 0)
  BY ReaderStep
<1>6. Typed'
  <2>1. marked' \in SUBSET Nat
    BY <1>3, <1>4 DEF TransportFits
  <2>2. QED
    BY <1>2, <1>3, <1>4, <1>5, <2>1 DEF TransportFits, Typed
<1>7. Bounded'
  BY <1>2, <1>3, <1>4, <1>5 DEF TransportFits, Bounded
<1>8. QED
  BY <1>1, <1>2, <1>6, <1>7 DEF DeliveryInv

\* In every reachable state, for any relays, followers and sizes: what is marked or on
\* the stream was committed, the stream is in order, a drain's batch continues what is
\* published, and the tasks queued on every connection chain up to its last event.
THEOREM DeliveryInvariance == DeliverySpec => []DeliveryInv
<1>1. DeliveryInit => DeliveryInv
  BY DeliveryInvInit
<1>2. DeliveryInv /\ [DeliveryNext]_deliveryVars => DeliveryInv'
  BY DeliveryInvStep
<1>3. QED
  BY <1>1, <1>2, PTL DEF DeliverySpec

\* A sequence of numbers up to n is a sequence over 0..n, or 1..n.
LEMMA SeqWithin ==
  ASSUME NEW S, NEW s \in Seq(Nat), \A i \in 1..Len(s) : s[i] \in S
  PROVE  s \in Seq(S)
<1>1. Len(s) \in Nat /\ s \in [1..Len(s) -> Nat]
  BY LenProperties
<1>2. s \in [1..Len(s) -> S]
  BY <1>1
<1>3. QED
  BY <1>1, <1>2, SeqDef

LEMMA InvIsTyped == DeliveryInv => DeliveryTypeOK
<1> SUFFICES ASSUME DeliveryInv PROVE DeliveryTypeOK
  OBVIOUS
<1>1. Typed /\ Bounded /\ FollowersInv /\ committed \in Nat /\ MaxEvents \in Nat /\ committed <= MaxEvents
  BY BoundsAreNumbers DEF DeliveryInv, Typed, Bounded
<1>2. stream \in Seq(1..committed) /\ Len(stream) \in Nat
  BY <1>1, SeqWithin, NoTasks DEF Typed, Bounded
<1>3. /\ committed \in 0..MaxEvents
      /\ trimmed \in 0..Len(stream)
      /\ pos \in 0..Len(stream)
      /\ faults \in 0..MaxFaults
  BY <1>1, <1>2, BoundsAreNumbers DEF Typed, Bounded
<1>4. ASSUME NEW f \in Followers
      PROVE  /\ conn[f].pc \in ConnPhase
             /\ conn[f].lastSent \in 0..committed
             /\ conn[f].sent \subseteq Events
             /\ conn[f].lastDelivered \in 0..committed
             /\ conn[f].tasks \in Seq(0..committed)
             /\ conn[f].asked \in BOOLEAN
             /\ conn[f].page \in 0..committed
  <2>1. conn[f] \in Connection /\ Within(conn[f], committed) /\ Covered(conn[f])
    BY <1>1 DEF Typed, Bounded, FollowersInv, Follows
  <2>2. /\ conn[f].lastSent \in 0..committed
        /\ conn[f].lastDelivered \in 0..committed
        /\ conn[f].page \in 0..committed
    BY <1>1, <2>1 DEF Connection, Within
  <2>3. conn[f].tasks \in Seq(0..committed)
    <3>1. conn[f].tasks \in Seq(Nat)
      BY <2>1 DEF Connection
    <3>2. \A i \in 1..Len(conn[f].tasks) : conn[f].tasks[i] \in 0..committed
      BY <1>1, <2>1, <3>1, NoTasks DEF Within
    <3>3. QED
      BY <3>1, <3>2, SeqWithin
  <2>4. conn[f].sent \subseteq Events
    BY <1>1, <2>1, <2>2 DEF Covered, Events
  <2>5. QED
    BY <2>1, <2>2, <2>3, <2>4 DEF Connection
<1>5. QED
  BY <1>1, <1>2, <1>3, <1>4 DEF DeliveryTypeOK, Bounded

\* Events first reach the stream in their order, however many relays drain the outbox
\* at once, publish twice, fail to publish or die (outbox-relay.ts, relay.ts).
THEOREM StreamStaysInOrder == DeliverySpec => []StreamInOrder
<1>1. DeliveryInv => StreamInOrder
  BY InvIsTyped DEF DeliveryInv, StreamInv, Ordered, StreamInOrder
<1>2. QED
  BY <1>1, DeliveryInvariance, PTL

\* A browser has every event up to the last one it was sent, over late joins, trimmed
\* entries, duplicates, disconnections and pages (run-events.ts, run-event-fanout.ts).
THEOREM BrowsersSeeNoHoles == DeliverySpec => []NoHoles
<1>1. DeliveryInv => NoHoles
  BY DEF DeliveryInv, FollowersInv, Follows, Covered, NoHoles
<1>2. QED
  BY <1>1, DeliveryInvariance, PTL
=============================================================================
