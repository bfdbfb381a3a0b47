------------------------- MODULE RunAdmissionProofs -------------------------
(***************************************************************************)
(* Proofs about RunAdmission, for every set of requests, keys, runs and    *)
(* conversations and every plan: the requests do to the conversations only *)
(* what Conversations allows, a request and its repeats have one result,   *)
(* and requests that race stay within the plan.                            *)
(***************************************************************************)
EXTENDS RunAdmission, ConversationsProofs, FiniteSetTheorems, WellFoundedInduction

-----------------------------------------------------------------------------
(* The inductive invariant *)

\* Where a request is until its transaction is over, and until it is answered.
Early == {"new", "lookup", "snapshot", "reserve", "write"}
UnderWay == {"lookup", "snapshot", "reserve", "write", "refund", "second refund", "preserve"}

\* What a request that was let in asks.
Sound(a) ==
    /\ a \in Ask
    /\ a.kind = "allocate" => a.scope \in Projects
    /\ a.kind # "allocate" => a.scope \in Sessions
    /\ a.kind \in {"retry", "branch"} => a.turn \in Runs

\* What is known of a request from where it is: a branch reserves nothing and so gives
\* nothing back, and nothing is answered before the transaction is over.
Fits(x) ==
    /\ x.pc \in UnderWay => Sound(x.ask)
    /\ x.pc = "lookup" => x.ask.kind \in {"retry", "branch"}
    /\ x.pc \in {"snapshot", "reserve", "refund", "second refund"} => x.ask.kind # "branch"
    /\ x.pc = "reserve" => x.month \in 1..MaxPeriods
    /\ x.pc \in Early => x.reply # "accepted"
    /\ x.pc = "preserve" => x.reply = "accepted"

\* A request made nothing before its transaction is over.
AsksFit ==
    \A q \in Requests : Fits(req[q]) /\ (req[q].pc \in Early => Made(q) = {})

\* A key has one row.
RowsFit == \A row, other \in keyed : SameKey(row.ask, other.ask) => row = other

\* What a request made or was answered is in a row under its key.
ResultsFit ==
    \A q \in Requests :
        /\ \A r \in Made(q) : \E row \in keyed : row.ask = AskOf(q) /\ row.run = r
        /\ req[q].reply = "accepted" =>
              \E row \in keyed : SameKey(row.ask, AskOf(q)) /\ row.run = req[q].run

\* Only finitely many requests came so far, and they made finitely many runs.
Seen == {q \in Requests : req[q].pc # "new"}
FinitelyMany == IsFiniteSet(Seen) /\ IsFiniteSet(Metered)

\* The units of a month cover the runs that its requests made and the requests that
\* still hold one.
MadeIn(m) == {r \in Metered : req[madeBy[r]].month = m}
HeldIn(m) == {q \in Holding : req[q].month = m}
PlanFits ==
    lost = 0 =>
        /\ \A q \in Requests : req[q].pc # "second refund"
        /\ ~strayed => \A m \in 1..MaxPeriods :
              /\ Cardinality(MadeIn(m)) + Cardinality(HeldIn(m)) <= units[m]
              /\ units[m] <= RunsPerPeriod

\* No run is without its unit; while no process died, no unit is without its run or its
\* request either.
SumsFit ==
    lost = 0 =>
        /\ Total >= Cardinality(Metered) + Cardinality(Holding)
        /\ (\A q \in Requests : req[q].pc # "dead") =>
              Total = Cardinality(Metered) + Cardinality(Holding)

AdmInv ==
    /\ AdmTypeOK
    /\ AsksFit
    /\ RowsFit
    /\ ResultsFit
    /\ FinitelyMany
    /\ PlanFits

\* A run that a request made exists.
MadeExist == \A r \in Metered : status[r] # "absent"

-----------------------------------------------------------------------------
(* What one request does to itself *)

\* The request keeps its ask and its month.
Kept(q) == req'[q].ask = req[q].ask /\ req'[q].month = req[q].month

\* Only request q is another, and it forgets what it asked only when it made nothing.
Moves(q) ==
    /\ req' \in [Requests -> Request]
    /\ \A p \in Requests \ {q} : req'[p] = req[p]
    /\ Kept(q) \/ Made(q) = {}

\* A row in the key tables is the request's answer.
Backed(x) == \E row \in keyed : SameKey(row.ask, x.ask) /\ row.run = x.run

\* A step of request q that writes no row and creates no run.
Passes(q) ==
    /\ UNCHANGED <<keyed, madeBy>>
    /\ Moves(q)
    /\ req[q].pc # "dead" /\ req'[q].pc # "new"
    /\ req'[q].pc \in Early => req[q].pc \in Early
    /\ Fits(req'[q])
    /\ req'[q].reply = "accepted" => Backed(req'[q])

LEMMA RequestType ==
  ASSUME AdmTypeOK, NEW q \in Requests
  PROVE  /\ req[q] \in Request
         /\ req[q].pc \in Phase /\ req[q].ask \in Ask \cup {None} /\ req[q].month \in Nat
         /\ req[q].run \in Runs \cup {None} /\ req[q].reply \in Reply
BY DEF AdmTypeOK, Request

\* The record of q is replaced by x.
LEMMA OneMoves ==
  ASSUME AdmTypeOK, NEW q \in Requests, NEW x \in Request, req' = [req EXCEPT ![q] = x],
         (x.ask = req[q].ask /\ x.month = req[q].month) \/ Made(q) = {}
  PROVE  Moves(q) /\ req'[q] = x
<1>1. req'[q] = x /\ \A p \in Requests \ {q} : req'[p] = req[p]
  BY DEF AdmTypeOK
<1>2. req' \in [Requests -> Request]
  BY DEF AdmTypeOK
<1> QED
  BY <1>1, <1>2 DEF Moves, Kept

Forgotten(reply) == [pc |-> "answered", ask |-> None, month |-> 0, run |-> None, reply |-> reply]

LEMMA AnswerIs ==
  ASSUME AdmTypeOK, NEW q \in Requests, NEW reply \in Reply, NEW r \in Runs \cup {None},
         Answer(q, reply, r)
  PROVE  /\ Moves(q)
         /\ req'[q].pc = "answered" /\ req'[q].reply = reply
         /\ reply = "accepted" => Kept(q) /\ req'[q].run = r
<1> DEFINE y == [req[q] EXCEPT !.pc = "answered", !.run = r, !.reply = reply]
<1> DEFINE x == IF reply = "refused" /\ Made(q) = {} THEN Forgotten(reply) ELSE y
<1>1. y \in Request /\ Forgotten(reply) \in Request
  BY RequestType DEF Request, Phase, Forgotten
<1>2. /\ y.pc = "answered" /\ y.reply = reply /\ y.ask = req[q].ask /\ y.month = req[q].month
      /\ y.run = r
  BY RequestType DEF Request
<1>3. Forgotten(reply).pc = "answered" /\ Forgotten(reply).reply = reply
  BY DEF Forgotten
<1>4. req' = [req EXCEPT ![q] = x]
  BY DEF Answer, AdmTypeOK, Forgotten
<1>5. x \in Request /\ ((x.ask = req[q].ask /\ x.month = req[q].month) \/ Made(q) = {})
  BY <1>1, <1>2
<1>6. x.pc = "answered" /\ x.reply = reply
  BY <1>2, <1>3
<1>7. reply = "accepted" => x = y
  OBVIOUS
<1> HIDE DEF x, y
<1>8. Moves(q) /\ req'[q] = x
  BY <1>4, <1>5, OneMoves
<1> QED
  BY <1>2, <1>6, <1>7, <1>8 DEF Kept

\* The request goes on to another phase.
LEMMA GoIs ==
  ASSUME AdmTypeOK, NEW q \in Requests, NEW phase \in Phase, Go(q, phase)
  PROVE  /\ Moves(q) /\ Kept(q)
         /\ req'[q].pc = phase /\ req'[q].reply = req[q].reply /\ req'[q].run = req[q].run
<1> DEFINE x == [req[q] EXCEPT !.pc = phase]
<1>1. x \in Request
  BY RequestType DEF Request
<1>2. /\ x.pc = phase /\ x.reply = req[q].reply /\ x.ask = req[q].ask /\ x.month = req[q].month
      /\ x.run = req[q].run
  BY RequestType DEF Request
<1>3. req' = [req EXCEPT ![q] = x]
  BY DEF Go, AdmTypeOK
<1> HIDE DEF x
<1> QED
  BY <1>1, <1>2, <1>3, OneMoves DEF Kept

\* The request goes on to another phase with a reply and a run.
LEMMA CarriesIs ==
  ASSUME AdmTypeOK, NEW q \in Requests, NEW phase \in Phase, NEW reply \in Reply,
         NEW r \in Runs \cup {None},
         req' = [req EXCEPT ![q].pc = phase, ![q].reply = reply, ![q].run = r]
  PROVE  /\ Moves(q) /\ Kept(q)
         /\ req'[q].pc = phase /\ req'[q].reply = reply /\ req'[q].run = r
<1> DEFINE x == [req[q] EXCEPT !.pc = phase, !.reply = reply, !.run = r]
<1>1. x \in Request
  BY RequestType DEF Request
<1>2. /\ x.pc = phase /\ x.reply = reply /\ x.ask = req[q].ask /\ x.month = req[q].month
      /\ x.run = r
  BY RequestType DEF Request
<1>3. req' = [req EXCEPT ![q] = x]
  BY DEF AdmTypeOK
<1> HIDE DEF x
<1> QED
  BY <1>1, <1>2, <1>3, OneMoves DEF Kept

\* An answered request fits whatever it was answered.
LEMMA AnsweredFits ==
  ASSUME NEW x, x.pc \in {"answered", "dead"}
  PROVE  Fits(x)
BY DEF Fits, UnderWay, Early

\* What is answered from a row is backed by it.
LEMMA PassesWithAnswer ==
  ASSUME AdmTypeOK, NEW q \in Requests, NEW reply \in Reply, NEW r \in Runs \cup {None},
         Answer(q, reply, r), UNCHANGED <<keyed, madeBy>>, req[q].pc # "dead",
         reply = "accepted" => \E row \in keyed : SameKey(row.ask, AskOf(q)) /\ row.run = r
  PROVE  Passes(q)
<1>1. /\ Moves(q)
      /\ req'[q].pc = "answered" /\ req'[q].reply = reply
      /\ reply = "accepted" => Kept(q) /\ req'[q].run = r
  BY AnswerIs
<1>2. Fits(req'[q])
  BY <1>1, AnsweredFits
<1>3. reply = "accepted" => Backed(req'[q])
  BY <1>1 DEF Backed, Kept, AskOf
<1> QED
  BY <1>1, <1>2, <1>3 DEF Passes, Early

LEMMA SubmitPasses ==
  ASSUME AdmInv, NEW q \in Requests, NEW a \in Ask, Submit(q, a)
  PROVE  Passes(q) /\ req'[q].pc \in {"snapshot", "lookup"}
<1> USE DEF AdmInv
<1> DEFINE phase == IF a.turn = None THEN "snapshot" ELSE "lookup"
<1> DEFINE x == [req[q] EXCEPT !.ask = a, !.pc = phase]
<1>1. req[q].pc = "new" /\ Made(q) = {} /\ req[q].reply # "accepted"
  BY DEF Submit, At, AsksFit, Fits, Early
<1>2. a.kind \in Kind /\ a.scope \in Projects \cup Sessions /\ a.turn \in Runs \cup {None}
  BY DEF Ask
<1>3. /\ a.kind = "allocate" <=> a.scope \in Projects
      /\ a.kind \in {"retry", "branch"} <=> a.turn # None
      /\ req' = [req EXCEPT ![q].ask = a, ![q].pc = phase]
      /\ UNCHANGED <<keyed, madeBy>>
  BY DEF Submit
<1>4. x \in Request
  BY RequestType DEF Request, Phase
<1>5. x.pc = phase /\ x.ask = a /\ x.reply = req[q].reply
  BY RequestType DEF Request
<1>6. req' = [req EXCEPT ![q] = x]
  BY <1>3 DEF AdmTypeOK
<1> HIDE DEF x
<1>7. Moves(q) /\ req'[q] = x
  BY <1>1, <1>4, <1>6, OneMoves
<1>8. Sound(a)
  BY <1>2, <1>3 DEF Sound
<1>9. Fits(x)
  BY <1>1, <1>2, <1>3, <1>5, <1>8 DEF Fits
<1> QED
  BY <1>1, <1>3, <1>5, <1>7, <1>9 DEF Passes, Early

LEMMA LookupPasses ==
  ASSUME AdmInv, NEW q \in Requests, Lookup(q)
  PROVE  Passes(q) /\ req[q].pc = "lookup"
                   /\ (req'[q].pc = "write" => req'[q].ask.kind = "branch")
<1> USE DEF AdmInv
<1>1. /\ req[q].pc = "lookup" /\ req[q].reply # "accepted"
      /\ req[q].ask.kind \in {"retry", "branch"} /\ Sound(req[q].ask)
  BY DEF Lookup, At, AsksFit, Fits, Early, UnderWay
<1>2. UNCHANGED <<keyed, madeBy>>
  BY DEF Lookup
<1> DEFINE phase == IF AskOf(q).kind = "retry" THEN "snapshot" ELSE "write"
<1>3. CASE Go(q, phase)
  <2>1. phase \in {"snapshot", "write"}
    OBVIOUS
  <2>2. /\ Moves(q) /\ Kept(q)
        /\ req'[q].pc = phase /\ req'[q].reply = req[q].reply
    BY <1>3, <2>1, GoIs DEF Phase
  <2>3. phase = "snapshot" => req[q].ask.kind # "branch"
    BY DEF AskOf
  <2>4. phase = "write" => req[q].ask.kind = "branch"
    BY <1>1 DEF AskOf
  <2> HIDE DEF phase
  <2>5. Fits(req'[q])
    BY <1>1, <2>1, <2>2, <2>3 DEF Fits, Kept
  <2> QED
    BY <1>1, <1>2, <2>1, <2>2, <2>4, <2>5 DEF Passes, Early, Kept
<1>4. CASE \E row \in KeyRows(AskOf(q)) :
              IF Answerable(AskOf(q), row) THEN Answer(q, "accepted", row.run)
              ELSE Answer(q, "refused", None)
  <2>1. PICK row \in KeyRows(AskOf(q)) :
              IF Answerable(AskOf(q), row) THEN Answer(q, "accepted", row.run)
              ELSE Answer(q, "refused", None)
    BY <1>4
  <2>2. row \in keyed /\ SameKey(row.ask, AskOf(q)) /\ row.run \in Runs
    BY DEF KeyRows, AdmTypeOK, KeyRow
  <2>3. CASE Answer(q, "accepted", row.run)
    BY <1>1, <1>2, <2>2, <2>3, PassesWithAnswer, AnswerIs DEF Reply
  <2>4. CASE Answer(q, "refused", None)
    BY <1>1, <1>2, <2>4, PassesWithAnswer, AnswerIs DEF Reply
  <2> QED
    BY <2>1, <2>3, <2>4
<1> QED
  BY <1>3, <1>4 DEF Lookup

LEMMA SnapshotPasses ==
  ASSUME AdmInv, NEW q \in Requests, Snapshot(q)
  PROVE  Passes(q) /\ req[q].pc = "snapshot" /\ req'[q].pc \in {"answered", "reserve"}
<1> USE DEF AdmInv
<1>1. /\ req[q].pc = "snapshot" /\ req[q].reply # "accepted" /\ Made(q) = {}
      /\ req[q].ask.kind # "branch" /\ Sound(req[q].ask)
  BY DEF Snapshot, At, AsksFit, Fits, Early, UnderWay
<1>2. UNCHANGED <<keyed, madeBy>>
  BY DEF Snapshot
<1>3. CASE Answer(q, "refused", None)
  BY <1>1, <1>2, <1>3, PassesWithAnswer, AnswerIs DEF Reply
<1>4. CASE req' = [req EXCEPT ![q].pc = "reserve", ![q].month = period]
  <2> DEFINE x == [req[q] EXCEPT !.pc = "reserve", !.month = period]
  <2>1. period \in 1..MaxPeriods /\ period \in Nat
    BY PlanType DEF AdmTypeOK
  <2>2. x \in Request
    BY <2>1, RequestType DEF Request, Phase
  <2>3. x.pc = "reserve" /\ x.ask = req[q].ask /\ x.reply = req[q].reply /\ x.month = period
    BY RequestType DEF Request
  <2>4. req' = [req EXCEPT ![q] = x]
    BY <1>4 DEF AdmTypeOK
  <2> HIDE DEF x
  <2>5. Moves(q) /\ req'[q] = x
    BY <1>1, <2>2, <2>4, OneMoves
  <2>6. Fits(x)
    BY <1>1, <2>1, <2>3 DEF Fits
  <2> QED
    BY <1>1, <1>2, <2>3, <2>5, <2>6 DEF Passes, Early
<1> QED
  BY <1>3, <1>4 DEF Snapshot

LEMMA ReservePasses ==
  ASSUME AdmInv, NEW q \in Requests, At(q, "reserve"), UNCHANGED <<keyed, madeBy>>,
         Go(q, "write") \/ Answer(q, "refused", None)
  PROVE  Passes(q) /\ req[q].month \in 1..MaxPeriods
                   /\ (Go(q, "write") => Kept(q) /\ req'[q].pc = "write")
                   /\ (Answer(q, "refused", None) => req'[q].pc = "answered")
<1> USE DEF AdmInv
<1>1. /\ req[q].pc = "reserve" /\ req[q].reply # "accepted"
      /\ Sound(req[q].ask) /\ req[q].month \in 1..MaxPeriods
  BY DEF At, AsksFit, Fits, Early, UnderWay
<1>2. CASE Answer(q, "refused", None)
  <2>1. req'[q].pc = "answered"
    BY <1>2, AnswerIs DEF Reply
  <2>2. Passes(q)
    BY <1>1, <1>2, PassesWithAnswer DEF Reply
  <2>3. ~ Go(q, "write")
    <3> SUFFICES ASSUME Go(q, "write") PROVE FALSE
      OBVIOUS
    <3> QED
      BY <2>1, GoIs DEF Phase
  <2> QED
    BY <1>1, <2>1, <2>2, <2>3
<1>3. CASE Go(q, "write")
  <2>1. Moves(q) /\ Kept(q) /\ req'[q].pc = "write" /\ req'[q].reply = req[q].reply
    BY <1>3, GoIs DEF Phase
  <2>2. ~ Answer(q, "refused", None)
    <3> SUFFICES ASSUME Answer(q, "refused", None) PROVE FALSE
      OBVIOUS
    <3> QED
      BY <2>1, AnswerIs DEF Reply
  <2>3. Fits(req'[q])
    BY <1>1, <2>1 DEF Fits, Kept
  <2> QED
    BY <1>1, <2>1, <2>2, <2>3 DEF Passes, Early
<1> QED
  BY <1>2, <1>3

\* The transaction is over without a run: a unit goes back unless there was none.
LEMMA AfterNothing ==
  ASSUME AdmInv, NEW q \in Requests, At(q, "write"), UNCHANGED <<keyed, madeBy>>,
         NEW reply \in Reply, NEW r \in Runs \cup {None}, After(q, FALSE, reply, r),
         reply = "accepted" => \E row \in keyed : SameKey(row.ask, AskOf(q)) /\ row.run = r
  PROVE  /\ Passes(q) /\ req[q].pc = "write"
         /\ \/ req'[q].pc = "answered" /\ req[q].ask.kind = "branch"
            \/ req'[q].pc = "refund" /\ Kept(q)
<1> USE DEF AdmInv
<1>1. req[q].pc = "write" /\ req[q].reply # "accepted" /\ Sound(req[q].ask)
  BY DEF At, AsksFit, Fits, Early, UnderWay
<1>2. CASE req[q].ask.kind = "branch"
  <2>1. Answer(q, reply, r)
    BY <1>2 DEF After, AfterWrite, AskOf
  <2> QED
    BY <1>1, <1>2, <2>1, PassesWithAnswer, AnswerIs
<1>3. CASE req[q].ask.kind # "branch"
  <2>1. AfterWrite(q, FALSE) = "refund"
    BY <1>3 DEF AfterWrite, AskOf
  <2>2. req' = [req EXCEPT ![q].pc = "refund", ![q].reply = reply, ![q].run = r]
    BY <2>1 DEF After
  <2>3. /\ Moves(q) /\ Kept(q)
        /\ req'[q].pc = "refund" /\ req'[q].reply = reply /\ req'[q].run = r
    BY <2>2, CarriesIs DEF Phase
  <2>4. Fits(req'[q])
    BY <1>1, <1>3, <2>3 DEF Fits, Kept, Early
  <2>5. reply = "accepted" => Backed(req'[q])
    BY <2>3 DEF Backed, Kept, AskOf
  <2> QED
    BY <1>1, <2>3, <2>4, <2>5 DEF Passes, Early
<1> QED
  BY <1>2, <1>3

LEMMA WriteNothingPasses ==
  ASSUME AdmInv, NEW q \in Requests, WriteNothing(q)
  PROVE  /\ Passes(q) /\ req[q].pc = "write"
         /\ \/ req'[q].pc = "answered" /\ req[q].ask.kind = "branch"
            \/ req'[q].pc = "refund" /\ Kept(q)
<1>1. At(q, "write") /\ UNCHANGED <<keyed, madeBy>>
  BY DEF WriteNothing
<1>2. CASE After(q, FALSE, "refused", None)
  BY <1>1, <1>2, AfterNothing DEF Reply
<1>3. CASE \E row \in Replays(AskOf(q)) : After(q, FALSE, "accepted", row.run)
  <2>1. PICK row \in Replays(AskOf(q)) : After(q, FALSE, "accepted", row.run)
    BY <1>3
  <2>2. row \in keyed /\ SameKey(row.ask, AskOf(q)) /\ row.run \in Runs
    BY DEF AdmInv, Replays, KeyRows, AdmTypeOK, KeyRow
  <2> QED
    BY <1>1, <2>1, <2>2, AfterNothing DEF Reply
<1> QED
  BY <1>2, <1>3 DEF WriteNothing

LEMMA RefundPasses ==
  ASSUME AdmInv, NEW q \in Requests, Refund(q)
  PROVE  /\ Passes(q) /\ req[q].pc \in {"refund", "second refund"}
         /\ req'[q].pc \in {"answered", "preserve"}
<1> USE DEF AdmInv
<1>1. /\ req[q].pc \in {"refund", "second refund"} /\ Sound(req[q].ask)
      /\ UNCHANGED <<keyed, madeBy>>
  BY DEF Refund, At, AsksFit, Fits, UnderWay
<1>2. req[q].reply = "accepted" => \E row \in keyed : SameKey(row.ask, AskOf(q)) /\ row.run = req[q].run
  BY DEF ResultsFit
<1>3. CASE Answer(q, req[q].reply, req[q].run)
  <2>1. req[q].reply \in Reply /\ req[q].run \in Runs \cup {None}
    BY RequestType
  <2>2. req'[q].pc = "answered"
    BY <1>3, <2>1, AnswerIs
  <2>3. Passes(q)
    BY <1>1, <1>2, <1>3, <2>1, PassesWithAnswer
  <2> QED
    BY <1>1, <2>2, <2>3
<1>4. CASE Go(q, "preserve") /\ AfterRefund(q) = "preserve"
  <2>1. req[q].reply = "accepted"
    BY <1>4 DEF AfterRefund
  <2>2. /\ Moves(q) /\ Kept(q) /\ req'[q].pc = "preserve"
        /\ req'[q].reply = req[q].reply /\ req'[q].run = req[q].run
    BY <1>4, GoIs DEF Phase
  <2>3. Fits(req'[q])
    BY <1>1, <2>1, <2>2 DEF Fits, Kept, Early
  <2>4. Backed(req'[q])
    BY <1>2, <2>1, <2>2 DEF Backed, Kept, AskOf
  <2> QED
    BY <1>1, <2>2, <2>3, <2>4 DEF Passes, Early
<1> QED
  BY <1>3, <1>4 DEF Refund

LEMMA RefundFailsPasses ==
  ASSUME AdmInv, NEW q \in Requests, RefundFails(q)
  PROVE  Passes(q)
<1> USE DEF AdmInv
<1>1. /\ req[q].pc \in {"refund", "second refund"} /\ Sound(req[q].ask)
      /\ UNCHANGED <<keyed, madeBy>>
  BY DEF RefundFails, At, AsksFit, Fits, UnderWay
<1>2. CASE Answer(q, "refused", None)
  BY <1>1, <1>2, PassesWithAnswer DEF Reply
<1>3. CASE /\ AskOf(q).kind = "retry"
           /\ req' = [req EXCEPT ![q].pc = "second refund", ![q].reply = "refused", ![q].run = None]
  <2>1. Moves(q) /\ Kept(q) /\ req'[q].pc = "second refund" /\ req'[q].reply = "refused"
    BY <1>3, CarriesIs DEF Phase, Reply
  <2>2. Fits(req'[q])
    BY <1>1, <1>3, <2>1 DEF Fits, Kept, Early, AskOf
  <2> QED
    BY <1>1, <2>1, <2>2 DEF Passes, Early
<1> QED
  BY <1>2, <1>3 DEF RefundFails

LEMMA PreservePasses ==
  ASSUME AdmInv, NEW q \in Requests, Preserve(q)
  PROVE  Passes(q) /\ req[q].pc = "preserve" /\ req'[q].pc = "answered"
<1> USE DEF AdmInv
<1>1. req[q].pc = "preserve" /\ req[q].reply = "accepted" /\ UNCHANGED <<keyed, madeBy>>
  BY DEF Preserve, At, AsksFit, Fits
<1>2. \E row \in keyed : SameKey(row.ask, AskOf(q)) /\ row.run = req[q].run
  BY <1>1 DEF ResultsFit
<1>3. req[q].run \in Runs \cup {None}
  BY RequestType
<1>4. CASE Answer(q, "accepted", req[q].run)
  BY <1>1, <1>2, <1>3, <1>4, PassesWithAnswer, AnswerIs DEF Reply
<1>5. CASE Answer(q, "refused", None)
  BY <1>1, <1>5, PassesWithAnswer, AnswerIs DEF Reply
<1> QED
  BY <1>4, <1>5 DEF Preserve

LEMMA CrashPasses ==
  ASSUME AdmInv, NEW q \in Requests, Crash(q)
  PROVE  Passes(q) /\ req'[q].pc = "dead"
<1> USE DEF AdmInv
<1>1. req[q].pc \notin {"new", "answered", "dead"} /\ UNCHANGED <<keyed, madeBy>>
  BY DEF Crash
<1>2. req' = [req EXCEPT ![q].pc = "dead", ![q].reply = "none", ![q].run = None]
  BY DEF Crash
<1>3. Moves(q) /\ Kept(q) /\ req'[q].pc = "dead" /\ req'[q].reply = "none"
  BY <1>2, CarriesIs DEF Phase, Reply
<1>4. Fits(req'[q])
  BY <1>3, AnsweredFits
<1> QED
  BY <1>1, <1>3, <1>4 DEF Passes, Early

-----------------------------------------------------------------------------
(* What a transaction that creates a run does *)

\* Request q creates run r and its row, and is answered or goes on.
Creation(q, r, row) ==
    /\ Moves(q) /\ (AskOf(q).kind # "branch" \/ req'[q].reply = "accepted" => Kept(q))
    /\ req[q].pc = "write" /\ req'[q].pc \in {"answered", "preserve", "refund"}
    /\ Fits(req'[q])
    /\ row \in KeyRow /\ row.ask = AskOf(q) /\ row.run = r
    /\ KeyRows(AskOf(q)) = {}
    /\ keyed' = keyed \cup {row}
    /\ madeBy' = IF AskOf(q).kind = "branch" THEN madeBy ELSE [madeBy EXCEPT ![r] = q]
    /\ req'[q].reply = "accepted" => req'[q].run = r
    /\ IF AskOf(q).kind = "branch" THEN status' = status
       ELSE status[r] = "absent" /\ status' = [status EXCEPT ![r] = "queued"]

Creating(q) == \E r \in Runs : \E row : Creation(q, r, row)

LEMMA CreateRow ==
  ASSUME AdmInv, NEW q \in Requests, At(q, "write"), NEW r \in Runs, NEW t \in Sessions,
         Create(q, r, t)
  PROVE  LET row == [ask |-> AskOf(q), run |-> r, session |-> t] IN
         /\ row \in KeyRow /\ row.ask = AskOf(q) /\ row.run = r
         /\ KeyRows(AskOf(q)) = {}
         /\ keyed' = keyed \cup {row}
         /\ madeBy' = IF AskOf(q).kind = "branch" THEN madeBy ELSE [madeBy EXCEPT ![r] = q]
         /\ IF AskOf(q).kind = "branch" THEN status' = status
            ELSE status[r] = "absent" /\ status' = [status EXCEPT ![r] = "queued"]
<1> DEFINE a == AskOf(q)
<1> DEFINE starts == status[r] = "absent" /\ status' = [status EXCEPT ![r] = "queued"]
<1>1. a \in Ask /\ a.kind \in Kind
  BY DEF AdmInv, At, AsksFit, Fits, UnderWay, Sound, AskOf, Ask
<1>2. Creates(a, r, t)
  BY DEF Create
<1> HIDE DEF a
<1>3. a.kind = "allocate" => starts
  BY <1>2 DEF Creates, Allocate, AllocateBuildSession
<1>4. a.kind = "turn" => starts
  BY <1>2 DEF Creates, AppendTurn, AppendConversationTurn
<1>5. a.kind = "retry" => starts
  BY <1>2 DEF Creates, Retry
<1>6. a.kind = "branch" => status' = status
  BY <1>2 DEF Creates, Branch
<1>7. IF a.kind = "branch" THEN status' = status
      ELSE starts
  BY <1>1, <1>3, <1>4, <1>5, <1>6 DEF Kind
<1>8. [ask |-> a, run |-> r, session |-> t] \in KeyRow
  BY <1>1 DEF KeyRow
<1> QED
  BY <1>7, <1>8 DEF Create, Replays, a

LEMMA WriteCreates ==
  ASSUME AdmInv, NEW q \in Requests, Write(q)
  PROVE  \E r \in Runs : \E row : Creation(q, r, row) /\ req'[q].pc \in {"answered", "preserve"}
<1> USE DEF AdmInv
<1>1. PICK r \in Runs, t \in Sessions : Create(q, r, t) /\ After(q, TRUE, "accepted", r)
  BY DEF Write
<1>2. req[q].pc = "write" /\ Sound(req[q].ask) /\ At(q, "write")
  BY DEF Write, At, AsksFit, Fits, UnderWay
<1>3. Moves(q) /\ Kept(q) /\ req'[q].pc \in {"answered", "preserve"}
      /\ req'[q].reply = "accepted" /\ req'[q].run = r
  <2>1. CASE Answer(q, "accepted", r)
    BY <2>1, AnswerIs DEF Reply
  <2>2. CASE req' = [req EXCEPT ![q].pc = "preserve", ![q].reply = "accepted", ![q].run = r]
    BY <2>2, CarriesIs DEF Reply, Phase
  <2> QED
    BY <1>1, <2>1, <2>2 DEF After, AfterWrite
<1>4. Fits(req'[q])
  BY <1>2, <1>3 DEF Fits, Kept, Early
<1> DEFINE row == [ask |-> AskOf(q), run |-> r, session |-> t]
<1>5. /\ row \in KeyRow /\ row.ask = AskOf(q) /\ row.run = r
      /\ KeyRows(AskOf(q)) = {}
      /\ keyed' = keyed \cup {row}
      /\ madeBy' = IF AskOf(q).kind = "branch" THEN madeBy ELSE [madeBy EXCEPT ![r] = q]
      /\ IF AskOf(q).kind = "branch" THEN status' = status
         ELSE status[r] = "absent" /\ status' = [status EXCEPT ![r] = "queued"]
  BY <1>1, <1>2, CreateRow
<1> HIDE DEF row
<1>6. Creation(q, r, row)
  BY <1>2, <1>3, <1>4, <1>5 DEF Creation
<1> QED
  BY <1>3, <1>6

\* A request that loses the answer may forget its ask only when it made nothing.
LEMMA AnswerLostCreates ==
  ASSUME AdmInv, NEW q \in Requests, WriteAnswerLost(q)
  PROVE  Creating(q)
<1> USE DEF AdmInv
<1>1. PICK r \in Runs, t \in Sessions : Create(q, r, t)
  BY DEF WriteAnswerLost
<1>2. req[q].pc = "write" /\ Sound(req[q].ask) /\ At(q, "write") /\ After(q, FALSE, "refused", None)
  BY DEF WriteAnswerLost, At, AsksFit, Fits, UnderWay
<1>3. /\ Moves(q) /\ (req[q].ask.kind # "branch" => Kept(q))
      /\ req'[q].pc \in {"answered", "refund"} /\ req'[q].reply = "refused"
      /\ req'[q].pc = "refund" => Kept(q) /\ req[q].ask.kind # "branch"
  <2>1. CASE req[q].ask.kind = "branch"
    <3>1. Answer(q, "refused", None)
      BY <1>2, <2>1 DEF After, AfterWrite, AskOf
    <3> QED
      BY <2>1, <3>1, AnswerIs DEF Reply
  <2>2. CASE req[q].ask.kind # "branch"
    <3>1. req' = [req EXCEPT ![q].pc = "refund", ![q].reply = "refused", ![q].run = None]
      BY <1>2, <2>2 DEF After, AfterWrite, AskOf
    <3> QED
      BY <2>2, <3>1, CarriesIs DEF Reply, Phase
  <2> QED
    BY <2>1, <2>2
<1>4. Fits(req'[q])
  <2>1. CASE req'[q].pc = "answered"
    BY <2>1, AnsweredFits
  <2>2. CASE req'[q].pc = "refund"
    <3>1. req'[q].ask = req[q].ask /\ req[q].ask.kind # "branch"
      BY <1>3, <2>2 DEF Kept
    <3> QED
      BY <1>2, <2>2, <3>1 DEF Fits, Early
  <2> QED
    BY <1>3, <2>1, <2>2
<1> DEFINE row == [ask |-> AskOf(q), run |-> r, session |-> t]
<1>5. /\ row \in KeyRow /\ row.ask = AskOf(q) /\ row.run = r
      /\ KeyRows(AskOf(q)) = {}
      /\ keyed' = keyed \cup {row}
      /\ madeBy' = IF AskOf(q).kind = "branch" THEN madeBy ELSE [madeBy EXCEPT ![r] = q]
      /\ IF AskOf(q).kind = "branch" THEN status' = status
         ELSE status[r] = "absent" /\ status' = [status EXCEPT ![r] = "queued"]
  BY <1>1, <1>2, CreateRow
<1> HIDE DEF row
<1>6. Creation(q, r, row)
  BY <1>2, <1>3, <1>4, <1>5 DEF Creation, AskOf
<1> QED
  BY <1>6 DEF Creating

\* Every step of a request is one of the two.
LEMMA StepOf ==
  ASSUME AdmInv, NEW q \in Requests, RequestStep(q)
  PROVE  Passes(q) \/ Creating(q)
<1>1. ASSUME NEW a \in Ask, Submit(q, a) PROVE Passes(q)
  BY <1>1, SubmitPasses
<1>2. CASE Lookup(q)
  BY <1>2, LookupPasses
<1>3. CASE Snapshot(q)
  BY <1>3, SnapshotPasses
<1>4. CASE Reserve(q)
  BY <1>4, ReservePasses DEF Reserve
<1>5. CASE ReserveAnswerLost(q)
  BY <1>5, ReservePasses DEF ReserveAnswerLost
<1>6. CASE Write(q)
  BY <1>6, WriteCreates DEF Creating
<1>7. CASE WriteNothing(q)
  BY <1>7, WriteNothingPasses
<1>8. CASE WriteAnswerLost(q)
  BY <1>8, AnswerLostCreates
<1>9. CASE Refund(q)
  BY <1>9, RefundPasses
<1>10. CASE RefundFails(q)
  BY <1>10, RefundFailsPasses
<1>11. CASE Preserve(q)
  BY <1>11, PreservePasses
<1>12. CASE Crash(q)
  BY <1>12, CrashPasses
<1> QED
  BY <1>1, <1>2, <1>3, <1>4, <1>5, <1>6, <1>7, <1>8, <1>9, <1>10, <1>11, <1>12 DEF RequestStep

\* What no request does leaves every request, row and run's maker alone.
Rests == UNCHANGED <<req, keyed, madeBy>>

LEMMA AdmStepOf ==
  ASSUME AdmInv, [AdmNext]_admState
  PROVE  Rests \/ \E q \in Requests : Passes(q) \/ Creating(q)
<1>1. ASSUME NEW q \in Requests, RequestStep(q) PROVE Passes(q) \/ Creating(q)
  BY <1>1, StepOf
<1>2. CASE MonthTurns
  BY <1>2 DEF MonthTurns, Rests
<1>3. CASE UNCHANGED admVars
  BY <1>3 DEF admVars, Rests
<1> QED
  BY <1>1, <1>2, <1>3 DEF AdmNext, admState

-----------------------------------------------------------------------------
(* The keys *)

LEMMA SameKeyEquivalence ==
  ASSUME NEW a, NEW b, NEW c, SameKey(a, b)
  PROVE  SameKey(b, a) /\ (SameKey(b, c) => SameKey(a, c))
BY DEF SameKey

LEMMA OwnKey == ASSUME NEW a \in Ask PROVE SameKey(a, a)
BY DEF SameKey, Ask, Kind

LEMMA AsksKept ==
  ASSUME AdmInv, [AdmNext]_admState
  PROVE  AsksFit'
<1> USE DEF AdmInv
<1>1. CASE Rests
  BY <1>1 DEF Rests, AsksFit, Made
<1>2. ASSUME NEW q \in Requests, Passes(q) PROVE AsksFit'
  <2>1. \A p \in Requests : Made(p)' = Made(p)
    BY <1>2 DEF Passes, Made
  <2>2. \A p \in Requests \ {q} : req'[p] = req[p]
    BY <1>2 DEF Passes, Moves
  <2>3. Fits(req'[q]) /\ (req'[q].pc \in Early => Made(q) = {})
    BY <1>2 DEF Passes, AsksFit
  <2>4. ASSUME NEW p \in Requests PROVE (Fits(req[p]) /\ (req[p].pc \in Early => Made(p) = {}))'
    <3>1. CASE p = q
      BY <2>1, <2>3, <3>1
    <3>2. CASE p # q
      <4>1. req'[p] = req[p] /\ Fits(req[p]) /\ (req[p].pc \in Early => Made(p) = {})
        BY <2>2, <3>2 DEF AsksFit
      <4> QED
        BY <2>1, <4>1
    <3> QED
      BY <3>1, <3>2
  <2> QED
    BY <2>4 DEF AsksFit
<1>3. ASSUME NEW q \in Requests, NEW r \in Runs, NEW row, Creation(q, r, row) PROVE AsksFit'
  <2>1. \A p \in Requests \ {q} : req'[p] = req[p] /\ Made(p)' \subseteq Made(p)
    BY <1>3 DEF Creation, Moves, Made, AdmTypeOK
  <2>2. Fits(req'[q]) /\ req'[q].pc \notin Early
    BY <1>3 DEF Creation, Early
  <2>3. ASSUME NEW p \in Requests PROVE (Fits(req[p]) /\ (req[p].pc \in Early => Made(p) = {}))'
    <3>1. CASE p = q
      BY <2>2, <3>1
    <3>2. CASE p # q
      <4>1. req'[p] = req[p] /\ Fits(req[p]) /\ (req[p].pc \in Early => Made(p) = {})
        BY <2>1, <3>2 DEF AsksFit
      <4> QED
        BY <2>1, <3>2, <4>1
    <3> QED
      BY <3>1, <3>2
  <2> QED
    BY <2>3 DEF AsksFit
<1> QED
  BY <1>1, <1>2, <1>3, AdmStepOf DEF Creating

LEMMA RowsKept ==
  ASSUME AdmInv, [AdmNext]_admState
  PROVE  RowsFit'
<1> USE DEF AdmInv
<1>1. CASE keyed' = keyed
  BY <1>1 DEF RowsFit
<1>2. ASSUME NEW q \in Requests, NEW r \in Runs, NEW row, Creation(q, r, row) PROVE RowsFit'
  <2>1. keyed' = keyed \cup {row} /\ KeyRows(row.ask) = {}
    BY <1>2 DEF Creation
  <2>2. \A other \in keyed : ~ SameKey(other.ask, row.ask) /\ ~ SameKey(row.ask, other.ask)
    BY <2>1, SameKeyEquivalence DEF KeyRows
  <2> QED
    BY <2>1, <2>2 DEF RowsFit
<1> QED
  BY <1>1, <1>2, AdmStepOf DEF Creating, Rests, Passes

LEMMA ResultsKept ==
  ASSUME AdmInv, [AdmNext]_admState
  PROVE  ResultsFit'
<1> USE DEF AdmInv
<1> DEFINE backs(p, x, made, rows) ==
        /\ \A r \in made : \E row \in rows : row.ask = x.ask /\ row.run = r
        /\ x.reply = "accepted" => \E row \in rows : SameKey(row.ask, x.ask) /\ row.run = x.run
<1>1. CASE Rests
  BY <1>1 DEF Rests, ResultsFit, Made, AskOf
<1>2. \A p \in Requests : backs(p, req[p], Made(p), keyed)
  BY DEF ResultsFit, AskOf
<1>3. ASSUME \A p \in Requests : backs(p, req'[p], Made(p)', keyed') PROVE ResultsFit'
  BY <1>3 DEF ResultsFit, AskOf
<1>4. ASSUME NEW q \in Requests, Passes(q) PROVE ResultsFit'
  <2>1. \A p \in Requests : Made(p)' = Made(p)
    BY <1>4 DEF Passes, Made
  <2>2. keyed' = keyed /\ \A p \in Requests \ {q} : req'[p] = req[p]
    BY <1>4 DEF Passes, Moves
  <2>3. backs(q, req'[q], Made(q), keyed)
    <3>1. \A r \in Made(q) : \E row \in keyed : row.ask = req'[q].ask /\ row.run = r
      BY <1>2, <1>4 DEF Passes, Moves, Kept
    <3> QED
      BY <1>4, <3>1 DEF Passes, Backed
  <2> HIDE DEF backs
  <2>4. ASSUME NEW p \in Requests PROVE backs(p, req'[p], Made(p)', keyed')
    <3>1. CASE p = q
      BY <2>1, <2>2, <2>3, <3>1
    <3>2. CASE p # q
      BY <1>2, <2>1, <2>2, <3>2
    <3> QED
      BY <3>1, <3>2
  <2> QED
    BY <1>3, <2>4
<1>5. ASSUME NEW q \in Requests, NEW r \in Runs, NEW row, Creation(q, r, row) PROVE ResultsFit'
  <2>1. keyed' = keyed \cup {row} /\ row.ask = req[q].ask /\ row.run = r /\ row.ask \in Ask
    BY <1>5 DEF Creation, AskOf, KeyRow
  <2>2. \A p \in Requests \ {q} : req'[p] = req[p] /\ Made(p)' \subseteq Made(p)
    BY <1>5 DEF Creation, Moves, Made, AdmTypeOK
  <2>3. Made(q) = {}
    BY <1>5 DEF Creation, AsksFit, Early
  <2>4. \A x \in Made(q)' : x = r /\ Kept(q)
    BY <1>5, <2>3 DEF Creation, Made, AdmTypeOK
  <2>5. backs(q, req'[q], Made(q)', keyed')
    <3>1. \A x \in Made(q)' : \E some \in keyed' : some.ask = req'[q].ask /\ some.run = x
      BY <2>1, <2>4 DEF Kept
    <3>2. req'[q].reply = "accepted" => SameKey(row.ask, req'[q].ask) /\ row.run = req'[q].run
      BY <1>5, <2>1, OwnKey DEF Creation, Kept
    <3> QED
      BY <2>1, <3>1, <3>2
  <2>6. ASSUME NEW p \in Requests, p # q PROVE backs(p, req'[p], Made(p)', keyed')
    BY <1>2, <2>1, <2>2, <2>6
  <2> HIDE DEF backs
  <2> QED
    BY <1>3, <2>5, <2>6
<1> QED
  BY <1>1, <1>4, <1>5, AdmStepOf DEF Creating

-----------------------------------------------------------------------------
(* Types *)

LEMMA SeenFinite ==
  ASSUME AdmInv
  PROVE  Cardinality({q \in Requests : At(q, "dead")}) \in Nat
<1>1. {q \in Requests : At(q, "dead")} \in SUBSET Seen
  BY DEF At, Seen
<1> QED
  BY <1>1, FS_Subset, FS_CardinalityType DEF AdmInv, FinitelyMany

LEMMA FaultFits ==
  ASSUME AdmInv, MayFail
  PROVE  lost + 1 \in 1..MaxFaults
<1>1. lost \in Nat
  BY FaultsAreNatural DEF AdmInv, AdmTypeOK
<1> QED
  BY <1>1, SeenFinite, FaultsAreNatural DEF MayFail

LEMMA UnitsType ==
  ASSUME AdmInv, NEW m, m \in 1..MaxPeriods
  PROVE  /\ [units EXCEPT ![m] = @ + 1] \in [1..MaxPeriods -> Int]
         /\ [units EXCEPT ![m] = @ - 1] \in [1..MaxPeriods -> Int]
BY DEF AdmInv, AdmTypeOK

Books == units' \in [1..MaxPeriods -> Int] /\ lost' \in 0..MaxFaults /\ strayed' \in BOOLEAN

LEMMA BooksStand ==
  ASSUME AdmInv, NEW q \in Requests, RequestStep(q)
  PROVE  Books /\ period' = period
<1> USE DEF AdmInv
<1>1. /\ units \in [1..MaxPeriods -> Int] /\ lost \in 0..MaxFaults /\ strayed \in BOOLEAN
      /\ period \in 1..MaxPeriods
  BY DEF AdmTypeOK
<1>2. /\ MayFail => lost + 1 \in 0..MaxFaults
      /\ Refunded(q) \in [1..MaxPeriods -> Int]
  BY <1>1, FaultFits, UnitsType DEF Refunded, RefundPeriod
<1>3. ASSUME NEW a \in Ask, Submit(q, a) PROVE Books /\ period' = period
  BY <1>1, <1>3 DEF Submit, Books
<1>4. CASE Lookup(q) \/ Snapshot(q) \/ WriteNothing(q) \/ Preserve(q) \/ Crash(q)
  BY <1>1, <1>4 DEF Lookup, Snapshot, WriteNothing, Preserve, Crash, Books
<1>5. CASE Reserve(q)
  <2>1. At(q, "reserve") /\ req[q].month \in 1..MaxPeriods
    BY <1>5 DEF Reserve, At, AsksFit, Fits
  <2>2. units' = units \/ units' = [units EXCEPT ![req[q].month] = @ + 1]
    BY <1>5 DEF Reserve
  <2> QED
    BY <1>1, <1>5, <2>1, <2>2, UnitsType DEF Reserve, Books
<1>6. CASE ReserveAnswerLost(q)
  <2>1. At(q, "reserve") /\ req[q].month \in 1..MaxPeriods
    BY <1>6 DEF ReserveAnswerLost, At, AsksFit, Fits
  <2> QED
    BY <1>1, <1>2, <1>6, <2>1, UnitsType DEF ReserveAnswerLost, Books
<1>7. CASE Write(q)
  BY <1>1, <1>7 DEF Write, Books
<1>8. CASE WriteAnswerLost(q)
  BY <1>1, <1>2, <1>8 DEF WriteAnswerLost, Books
<1>9. CASE Refund(q)
  BY <1>1, <1>2, <1>9 DEF Refund, Books
<1>10. CASE RefundFails(q)
  BY <1>1, <1>2, <1>10 DEF RefundFails, Books
<1> QED
  BY <1>3, <1>4, <1>5, <1>6, <1>7, <1>8, <1>9, <1>10 DEF RequestStep

LEMMA AdmTypesKept ==
  ASSUME AdmInv, [AdmNext]_admState
  PROVE  AdmTypeOK'
<1> USE DEF AdmInv
<1>1. /\ req' \in [Requests -> Request] /\ keyed' \subseteq KeyRow
      /\ madeBy' \in [Runs -> Requests \cup {None}]
  <2>1. CASE Rests
    BY <2>1 DEF Rests, AdmTypeOK
  <2>2. ASSUME NEW q \in Requests, Passes(q)
        PROVE  /\ req' \in [Requests -> Request] /\ keyed' \subseteq KeyRow
               /\ madeBy' \in [Runs -> Requests \cup {None}]
    BY <2>2 DEF Passes, Moves, AdmTypeOK
  <2>3. ASSUME NEW q \in Requests, NEW r \in Runs, NEW row, Creation(q, r, row)
        PROVE  /\ req' \in [Requests -> Request] /\ keyed' \subseteq KeyRow
               /\ madeBy' \in [Runs -> Requests \cup {None}]
    <3>1. req' \in [Requests -> Request]
      BY <2>3 DEF Creation, Moves
    <3>2. keyed' \subseteq KeyRow
      BY <2>3 DEF Creation, AdmTypeOK
    <3>3. madeBy' = madeBy \/ madeBy' = [madeBy EXCEPT ![r] = q]
      BY <2>3 DEF Creation
    <3> QED
      BY <3>1, <3>2, <3>3 DEF AdmTypeOK
  <2> QED
    BY <2>1, <2>2, <2>3, AdmStepOf DEF Creating
<1>2. Books /\ period' \in 1..MaxPeriods
  <2>1. ASSUME NEW q \in Requests, RequestStep(q) PROVE Books /\ period' \in 1..MaxPeriods
    BY <2>1, BooksStand DEF AdmTypeOK
  <2>2. CASE MonthTurns
    BY <2>2, PlanType DEF MonthTurns, AdmTypeOK, Books
  <2>3. CASE UNCHANGED admVars
    BY <2>3 DEF admVars, AdmTypeOK, Books
  <2> QED
    BY <2>1, <2>2, <2>3 DEF AdmNext, admState
<1> QED
  BY <1>1, <1>2 DEF AdmTypeOK, Books

LEMMA FiniteKept ==
  ASSUME AdmInv, [AdmNext]_admState
  PROVE  FinitelyMany'
<1> USE DEF AdmInv
<1>1. IsFiniteSet(Seen) /\ IsFiniteSet(Metered)
  BY DEF FinitelyMany
<1>2. CASE Rests
  BY <1>1, <1>2 DEF Rests, FinitelyMany, Seen, Metered
<1>3. ASSUME NEW q \in Requests, Moves(q) PROVE IsFiniteSet(Seen)'
  <2>1. Seen' \in SUBSET (Seen \cup {q})
    BY <1>3 DEF Moves, Seen
  <2>2. IsFiniteSet(Seen \cup {q})
    BY <1>1, FS_AddElement
  <2> QED
    BY <2>1, <2>2, FS_Subset
<1>4. ASSUME NEW q \in Requests, Passes(q) PROVE FinitelyMany'
  <2>1. Metered' = Metered
    BY <1>4 DEF Passes, Metered
  <2> QED
    BY <1>1, <1>3, <1>4, <2>1 DEF Passes, FinitelyMany
<1>5. ASSUME NEW q \in Requests, NEW r \in Runs, NEW row, Creation(q, r, row) PROVE FinitelyMany'
  <2>1. Metered' \in SUBSET (Metered \cup {r})
    BY <1>5 DEF Creation, Metered, AdmTypeOK
  <2>2. IsFiniteSet(Metered \cup {r})
    BY <1>1, FS_AddElement
  <2>3. IsFiniteSet(Metered')
    BY <2>1, <2>2, FS_Subset
  <2> QED
    BY <1>3, <1>5, <2>3 DEF Creation, FinitelyMany
<1> QED
  BY <1>2, <1>4, <1>5, AdmStepOf DEF Creating

-----------------------------------------------------------------------------
(* The units *)

\* A request of which a unit is taken that no run has yet.
Holds(x) == x.pc \in {"write", "refund"} /\ x.ask.kind # "branch"

\* What a step does to the units: nothing, and then it takes none either; it takes one; it
\* gives the one it held back; or it spends it on the run that it creates.
Idles(q) ==
    /\ Passes(q) /\ UNCHANGED <<units, strayed>>
    /\ Holds(req'[q]) => Holds(req[q]) /\ Kept(q)
    /\ req'[q].pc # "dead" => (Holds(req[q]) => Holds(req'[q]))

Takes(q) ==
    /\ Passes(q) /\ Kept(q) /\ UNCHANGED strayed
    /\ ~Holds(req[q]) /\ Holds(req'[q])
    /\ req[q].month \in 1..MaxPeriods
    /\ units[req[q].month] + 1 <= RunsPerPeriod
    /\ units' = [units EXCEPT ![req[q].month] = @ + 1]

Gives(q) ==
    /\ Passes(q) /\ Holds(req[q]) /\ ~Holds(req'[q])
    /\ units' = [units EXCEPT ![period] = @ - 1]
    /\ strayed' = (strayed \/ period # req[q].month)

Spends(q) ==
    /\ \E r \in Runs : \E row : Creation(q, r, row)
    /\ UNCHANGED <<units, strayed>>
    /\ Kept(q) /\ ~Holds(req'[q]) /\ (Holds(req[q]) <=> req[q].ask.kind # "branch")

LEMMA HoldsOnlyThere ==
  ASSUME NEW x, x.pc \notin {"write", "refund"} \/ x.ask.kind = "branch"
  PROVE  ~ Holds(x)
BY DEF Holds

LEMMA LedgerOf ==
  ASSUME AdmInv, NEW q \in Requests, RequestStep(q), lost = 0, lost' = 0
  PROVE  /\ Idles(q) \/ Takes(q) \/ Gives(q) \/ Spends(q)
         /\ req'[q].pc # "second refund"
<1> USE DEF AdmInv
<1>1. lost + 1 # lost' /\ req[q].pc # "second refund"
  <2>1. PlanFits
    OBVIOUS
  <2>2. req[q].pc # "second refund"
    BY <2>1 DEF PlanFits
  <2>3. 0 + 1 # 0
    OBVIOUS
  <2>4. lost + 1 # lost'
    BY <2>3, Zenon
  <2> QED
    BY <2>2, <2>4
<1>2. ASSUME NEW a \in Ask, Submit(q, a) PROVE Idles(q) /\ req'[q].pc # "second refund"
  <2>1. Passes(q) /\ req'[q].pc \in {"snapshot", "lookup"}
    BY <1>2, SubmitPasses
  <2>2. req[q].pc = "new" /\ UNCHANGED <<units, strayed>>
    BY <1>2 DEF Submit, At
  <2>3. ~Holds(req'[q]) /\ ~Holds(req[q])
    BY <2>1, <2>2, HoldsOnlyThere
  <2> QED
    BY <2>1, <2>2, <2>3 DEF Idles
<1>3. CASE Lookup(q)
  <2>1. Passes(q) /\ req[q].pc = "lookup" /\ (req'[q].pc = "write" => req'[q].ask.kind = "branch")
    BY <1>3, LookupPasses
  <2>2. UNCHANGED <<units, strayed>>
    BY <1>3 DEF Lookup
  <2>3. req'[q].pc \in {"snapshot", "write", "answered"}
    <3>1. ASSUME Go(q, "snapshot") \/ Go(q, "write")
          PROVE  req'[q].pc \in {"snapshot", "write", "answered"}
      BY <3>1, GoIs DEF Phase
    <3>2. ASSUME NEW row \in KeyRows(AskOf(q)),
                 Answer(q, "accepted", row.run) \/ Answer(q, "refused", None)
          PROVE  req'[q].pc \in {"snapshot", "write", "answered"}
      <4>1. row.run \in Runs
        BY DEF KeyRows, AdmTypeOK, KeyRow
      <4> QED
        BY <3>2, <4>1, AnswerIs DEF Reply
    <3> QED
      BY <1>3, <3>1, <3>2 DEF Lookup
  <2>4. ~Holds(req'[q]) /\ ~Holds(req[q])
    BY <2>1, <2>3, HoldsOnlyThere
  <2> QED
    BY <2>1, <2>2, <2>3, <2>4 DEF Idles
<1>4. CASE Snapshot(q)
  <2>1. Passes(q) /\ req[q].pc = "snapshot" /\ req'[q].pc \in {"answered", "reserve"}
    BY <1>4, SnapshotPasses
  <2>2. UNCHANGED <<units, strayed>>
    BY <1>4 DEF Snapshot
  <2>3. ~Holds(req'[q]) /\ ~Holds(req[q])
    BY <2>1, HoldsOnlyThere
  <2> QED
    BY <2>1, <2>2, <2>3 DEF Idles
<1>5. CASE Reserve(q)
  <2>1. req[q].pc = "reserve" /\ req[q].ask.kind # "branch" /\ ~Holds(req[q])
    BY <1>5, HoldsOnlyThere DEF Reserve, At, AsksFit, Fits
  <2>2. /\ Passes(q) /\ req[q].month \in 1..MaxPeriods
        /\ Go(q, "write") => Kept(q) /\ req'[q].pc = "write"
        /\ Answer(q, "refused", None) => req'[q].pc = "answered"
    BY <1>5, ReservePasses DEF Reserve
  <2>3. CASE Answer(q, "refused", None) /\ UNCHANGED units
    <3>1. req'[q].pc = "answered" /\ ~Holds(req'[q])
      BY <2>2, <2>3, HoldsOnlyThere
    <3> QED
      BY <1>5, <2>1, <2>2, <2>3, <3>1 DEF Reserve, Idles
  <2>4. CASE /\ Go(q, "write") /\ Grants(q)
             /\ units' = [units EXCEPT ![req[q].month] = @ + 1]
    <3>1. Kept(q) /\ req'[q].pc = "write" /\ Holds(req'[q])
      BY <2>1, <2>2, <2>4 DEF Kept, Holds
    <3> QED
      BY <1>5, <2>1, <2>2, <2>4, <3>1 DEF Reserve, Takes, Grants
  <2> QED
    BY <1>5, <2>3, <2>4 DEF Reserve
<1>6. CASE ReserveAnswerLost(q) \/ WriteAnswerLost(q) \/ RefundFails(q)
  BY <1>1, <1>6 DEF ReserveAnswerLost, WriteAnswerLost, RefundFails
<1>7. CASE Write(q)
  <2>1. PICK r \in Runs : \E row : Creation(q, r, row) /\ req'[q].pc \in {"answered", "preserve"}
    BY <1>7, WriteCreates
  <2>2. PICK row : Creation(q, r, row)
    BY <2>1
  <2>3. req[q].pc = "write" /\ ~Holds(req'[q]) /\ UNCHANGED <<units, strayed>>
    BY <1>7, <2>1, HoldsOnlyThere DEF Write, At
  <2>4. Holds(req[q]) <=> req[q].ask.kind # "branch"
    BY <2>3 DEF Holds
  <2>5. Kept(q)
    <3>1. PICK x \in Runs : After(q, TRUE, "accepted", x)
      BY <1>7 DEF Write
    <3>2. CASE Answer(q, "accepted", x)
      BY <3>2, AnswerIs DEF Reply
    <3>3. CASE req' = [req EXCEPT ![q].pc = "preserve", ![q].reply = "accepted", ![q].run = x]
      BY <3>3, CarriesIs DEF Reply, Phase
    <3> QED
      BY <3>1, <3>2, <3>3 DEF After, AfterWrite
  <2> QED
    BY <2>1, <2>2, <2>3, <2>4, <2>5 DEF Spends
<1>8. CASE WriteNothing(q)
  <2>1. /\ Passes(q) /\ req[q].pc = "write"
        /\ \/ req'[q].pc = "answered" /\ req[q].ask.kind = "branch"
           \/ req'[q].pc = "refund" /\ Kept(q)
    BY <1>8, WriteNothingPasses
  <2>2. UNCHANGED <<units, strayed>>
    BY <1>8 DEF WriteNothing
  <2>3. CASE req'[q].pc = "answered" /\ req[q].ask.kind = "branch"
    <3>1. ~Holds(req'[q]) /\ ~Holds(req[q])
      BY <2>3, HoldsOnlyThere
    <3> QED
      BY <2>1, <2>2, <2>3, <3>1 DEF Idles
  <2>4. CASE req'[q].pc = "refund" /\ Kept(q)
    <3>1. Holds(req'[q]) <=> Holds(req[q])
      BY <2>1, <2>4 DEF Holds, Kept
    <3> QED
      BY <2>1, <2>2, <2>4, <3>1 DEF Idles
  <2> QED
    BY <2>1, <2>3, <2>4
<1>9. CASE Refund(q)
  <2>1. /\ Passes(q) /\ req[q].pc \in {"refund", "second refund"}
        /\ req'[q].pc \in {"answered", "preserve"}
    BY <1>9, RefundPasses
  <2>2. Holds(req[q]) /\ ~Holds(req'[q])
    BY <1>1, <2>1, HoldsOnlyThere DEF Holds, AsksFit, Fits
  <2>3. /\ units' = [units EXCEPT ![period] = @ - 1]
        /\ strayed' = (strayed \/ period # req[q].month)
    BY <1>9 DEF Refund, Refunded, RefundPeriod
  <2> QED
    BY <2>1, <2>2, <2>3 DEF Gives
<1>10. CASE Preserve(q)
  <2>1. Passes(q) /\ req[q].pc = "preserve" /\ req'[q].pc = "answered"
    BY <1>10, PreservePasses
  <2>2. UNCHANGED <<units, strayed>>
    BY <1>10 DEF Preserve
  <2>3. ~Holds(req'[q]) /\ ~Holds(req[q])
    BY <2>1, HoldsOnlyThere
  <2> QED
    BY <2>1, <2>2, <2>3 DEF Idles
<1>11. CASE Crash(q)
  <2>1. Passes(q) /\ req'[q].pc = "dead"
    BY <1>11, CrashPasses
  <2>2. UNCHANGED <<units, strayed>>
    BY <1>11 DEF Crash
  <2>3. ~Holds(req'[q])
    BY <2>1, HoldsOnlyThere
  <2> QED
    BY <2>1, <2>2, <2>3 DEF Idles
<1> QED
  BY <1>2, <1>3, <1>4, <1>5, <1>6, <1>7, <1>8, <1>9, <1>10, <1>11 DEF RequestStep

LEMMA HoldingIs == Holding = {p \in Requests : Holds(req[p])}
BY DEF Holding, Holds, AskOf

LEMMA FiniteParts ==
  ASSUME AdmTypeOK, FinitelyMany, NEW m
  PROVE  /\ IsFiniteSet(Holding) /\ IsFiniteSet(Metered)
         /\ IsFiniteSet(HeldIn(m)) /\ Cardinality(HeldIn(m)) \in Nat
         /\ IsFiniteSet(MadeIn(m)) /\ Cardinality(MadeIn(m)) \in Nat
         /\ Cardinality(Holding) \in Nat /\ Cardinality(Metered) \in Nat
<1>1. Holding \in SUBSET Seen
  BY DEF Holding, Seen
<1>2. IsFiniteSet(Holding)
  BY <1>1, FS_Subset DEF FinitelyMany
<1>3. HeldIn(m) \in SUBSET Holding /\ MadeIn(m) \in SUBSET Metered
  BY DEF HeldIn, MadeIn
<1>4. IsFiniteSet(HeldIn(m)) /\ IsFiniteSet(MadeIn(m))
  BY <1>2, <1>3, FS_Subset DEF FinitelyMany
<1> QED
  BY <1>2, <1>4, FS_CardinalityType DEF FinitelyMany

\* Who made a run asked for it in the month that counts for the run.
LEMMA MadeInKept ==
  ASSUME AdmInv, NEW q \in Requests, Moves(q), madeBy' = madeBy, NEW m
  PROVE  MadeIn(m)' = MadeIn(m) /\ Metered' = Metered
<1>1. Metered' = Metered
  BY DEF Metered
<1>2. ASSUME NEW r \in Metered PROVE req'[madeBy[r]].month = req[madeBy[r]].month
  <2>1. madeBy[r] \in Requests
    BY DEF Metered, AdmInv, AdmTypeOK
  <2>2. madeBy[r] = q => r \in Made(q)
    BY DEF Metered, Made
  <2> QED
    BY <2>1, <2>2 DEF Moves, Kept
<1> QED
  BY <1>1, <1>2 DEF MadeIn

\* The month in which a created run counts is that of its request.
LEMMA MadeInAfterCreation ==
  ASSUME AdmInv, NEW q \in Requests, NEW r \in Runs, NEW row, Creation(q, r, row), Kept(q),
         req[q].ask.kind # "branch", NEW m
  PROVE  /\ MadeIn(m)' \subseteq (IF req[q].month = m THEN MadeIn(m) \cup {r} ELSE MadeIn(m))
         /\ Metered' = Metered \cup {r}
<1> USE DEF AdmInv
<1>1. madeBy' = [madeBy EXCEPT ![r] = q] /\ madeBy \in [Runs -> Requests \cup {None}] /\ q # None
  BY NoneIsNoRequest DEF Creation, AskOf, AdmTypeOK
<1>2. madeBy'[r] = q /\ \A x \in Runs \ {r} : madeBy'[x] = madeBy[x]
  BY <1>1
<1>3. Metered' = Metered \cup {r}
  BY <1>1, <1>2 DEF Metered
<1>4. Made(q) = {}
  BY DEF Creation, AsksFit, Early
<1>5. ASSUME NEW x \in MadeIn(m)', x # r PROVE x \in MadeIn(m)
  <2>1. x \in Metered /\ madeBy'[x] = madeBy[x] /\ req'[madeBy[x]].month = m
    BY <1>2, <1>3, <1>5 DEF MadeIn, Metered
  <2>2. madeBy[x] \in Requests \ {q}
    BY <1>1, <1>4, <2>1 DEF Metered, Made
  <2>3. req'[madeBy[x]] = req[madeBy[x]]
    BY <2>2 DEF Creation, Moves
  <2> QED
    BY <2>1, <2>3 DEF MadeIn
<1>6. r \in MadeIn(m)' => req[q].month = m
  BY <1>2 DEF MadeIn, Kept
<1> QED
  BY <1>3, <1>5, <1>6

LEMMA HeldAfterMove ==
  ASSUME NEW q \in Requests, Moves(q), NEW m
  PROVE  /\ ~Holds(req'[q]) => HeldIn(m)' = HeldIn(m) \ {q} /\ Holding' = Holding \ {q}
         /\ Holds(req'[q]) /\ Kept(q) =>
               /\ HeldIn(m)' \subseteq (IF req[q].month = m THEN HeldIn(m) \cup {q} ELSE HeldIn(m))
               /\ Holding' = Holding \cup {q}
<1>1. \A p \in Requests \ {q} : req'[p] = req[p]
  BY DEF Moves
<1>2. Holding = {p \in Requests : Holds(req[p])} /\ Holding' = {p \in Requests : Holds(req'[p])}
  BY DEF Holding, Holds, AskOf
<1>3. HeldIn(m) = {p \in Holding : req[p].month = m} /\ HeldIn(m)' = {p \in Holding' : req'[p].month = m}
  BY DEF HeldIn
<1>4. Kept(q) => req'[q].month = req[q].month
  BY DEF Kept
<1> QED
  BY <1>1, <1>2, <1>3, <1>4

\* One more, one less.
LEMMA OneMore ==
  ASSUME NEW S, IsFiniteSet(S), NEW x, NEW T \in SUBSET (S \cup {x})
  PROVE  IsFiniteSet(T) /\ Cardinality(T) \in Nat /\ Cardinality(T) <= Cardinality(S) + 1
<1>1. IsFiniteSet(S \cup {x}) /\ Cardinality(S \cup {x}) <= Cardinality(S) + 1
  <2>1. /\ IsFiniteSet(S \cup {x})
        /\ Cardinality(S \cup {x}) = IF x \in S THEN Cardinality(S) ELSE Cardinality(S) + 1
    BY FS_AddElement
  <2>2. Cardinality(S) \in Nat
    BY FS_CardinalityType
  <2> QED
    BY <2>1, <2>2
<1>2. IsFiniteSet(T) /\ Cardinality(T) <= Cardinality(S \cup {x})
  BY <1>1, FS_Subset
<1>3. Cardinality(T) \in Nat /\ Cardinality(S \cup {x}) \in Nat /\ Cardinality(S) \in Nat
  BY <1>1, <1>2, FS_CardinalityType
<1> QED
  BY <1>1, <1>2, <1>3

LEMMA OneLess ==
  ASSUME NEW S, IsFiniteSet(S), NEW x \in S
  PROVE  /\ IsFiniteSet(S \ {x}) /\ Cardinality(S \ {x}) \in Nat
         /\ Cardinality(S \ {x}) + 1 = Cardinality(S)
<1>1. IsFiniteSet(S \ {x}) /\ Cardinality(S \ {x}) = Cardinality(S) - 1
  BY FS_RemoveElement
<1>2. Cardinality(S) \in Nat /\ Cardinality(S \ {x}) \in Nat
  BY <1>1, FS_CardinalityType
<1> QED
  BY <1>1, <1>2

LEMMA NoMore ==
  ASSUME NEW S, IsFiniteSet(S), NEW T \in SUBSET S
  PROVE  Cardinality(T) \in Nat /\ Cardinality(S) \in Nat /\ Cardinality(T) <= Cardinality(S)
BY FS_Subset, FS_CardinalityType

\* A month's units still cover its runs and the requests that hold one.
Covered(m) ==
    /\ Cardinality(MadeIn(m)) + Cardinality(HeldIn(m)) <= units[m]
    /\ units[m] <= RunsPerPeriod

LEMMA CoveredKept ==
  ASSUME AdmInv, NEW q \in Requests, NEW m \in 1..MaxPeriods, Covered(m), ~strayed',
         Idles(q) \/ Takes(q) \/ Gives(q) \/ Spends(q)
  PROVE  Covered(m)'
<1> USE DEF AdmInv
<1>1. /\ IsFiniteSet(HeldIn(m)) /\ Cardinality(HeldIn(m)) \in Nat
      /\ IsFiniteSet(MadeIn(m)) /\ Cardinality(MadeIn(m)) \in Nat
  BY FiniteParts
<1>2. units \in [1..MaxPeriods -> Int] /\ units[m] \in Int /\ RunsPerPeriod \in Nat
  BY PlanType DEF AdmTypeOK
<1>3. CASE Idles(q)
  <2>1. Moves(q) /\ madeBy' = madeBy /\ units' = units
    BY <1>3 DEF Idles, Passes
  <2>2. MadeIn(m)' = MadeIn(m)
    BY <2>1, MadeInKept
  <2>3. HeldIn(m)' \subseteq HeldIn(m)
    <3>1. CASE Holds(req'[q])
      <4>1. Holds(req[q]) /\ Kept(q)
        BY <1>3, <3>1 DEF Idles
      <4>2. req[q].month = m => q \in HeldIn(m)
        BY <4>1, HoldingIs DEF HeldIn
      <4> QED
        BY <2>1, <3>1, <4>1, <4>2, HeldAfterMove
    <3>2. CASE ~ Holds(req'[q])
      BY <2>1, <3>2, HeldAfterMove
    <3> QED
      BY <3>1, <3>2
  <2>4. Cardinality(HeldIn(m)') <= Cardinality(HeldIn(m)) /\ Cardinality(HeldIn(m)') \in Nat
    BY <1>1, <2>3, NoMore
  <2> QED
    BY <1>1, <1>2, <2>1, <2>2, <2>4 DEF Covered
<1>4. CASE Takes(q)
  <2>1. /\ Moves(q) /\ madeBy' = madeBy /\ Kept(q) /\ Holds(req'[q])
        /\ req[q].month \in 1..MaxPeriods
        /\ units[req[q].month] + 1 <= RunsPerPeriod
        /\ units' = [units EXCEPT ![req[q].month] = @ + 1]
    BY <1>4 DEF Takes, Passes
  <2>2. MadeIn(m)' = MadeIn(m)
    BY <2>1, MadeInKept
  <2>3. CASE req[q].month = m
    <3>1. units'[m] = units[m] + 1 /\ units[m] + 1 <= RunsPerPeriod
      BY <1>2, <2>1, <2>3
    <3>2. HeldIn(m)' \in SUBSET (HeldIn(m) \cup {q})
      BY <2>1, <2>3, HeldAfterMove
    <3>3. Cardinality(HeldIn(m)') \in Nat /\ Cardinality(HeldIn(m)') <= Cardinality(HeldIn(m)) + 1
      BY <1>1, <3>2, OneMore
    <3> QED
      BY <1>1, <1>2, <2>2, <3>1, <3>3 DEF Covered
  <2>4. CASE req[q].month # m
    <3>1. units'[m] = units[m]
      BY <1>2, <2>1, <2>4
    <3>2. HeldIn(m)' \in SUBSET HeldIn(m)
      BY <2>1, <2>4, HeldAfterMove
    <3>3. Cardinality(HeldIn(m)') <= Cardinality(HeldIn(m)) /\ Cardinality(HeldIn(m)') \in Nat
      BY <1>1, <3>2, NoMore
    <3> QED
      BY <1>1, <1>2, <2>2, <3>1, <3>3 DEF Covered
  <2> QED
    BY <2>3, <2>4
<1>5. CASE Gives(q)
  <2>1. /\ Moves(q) /\ madeBy' = madeBy /\ ~Holds(req'[q]) /\ Holds(req[q])
        /\ units' = [units EXCEPT ![period] = @ - 1] /\ period = req[q].month
    BY <1>5 DEF Gives, Passes
  <2>2. MadeIn(m)' = MadeIn(m)
    BY <2>1, MadeInKept
  <2>3. HeldIn(m)' = HeldIn(m) \ {q}
    BY <2>1, HeldAfterMove
  <2>4. CASE period = m
    <3>1. q \in HeldIn(m)
      BY <2>1, <2>4, HoldingIs DEF HeldIn
    <3>2. Cardinality(HeldIn(m)') \in Nat /\ Cardinality(HeldIn(m)') + 1 = Cardinality(HeldIn(m))
      BY <1>1, <2>3, <3>1, OneLess
    <3>3. units'[m] = units[m] - 1
      BY <1>2, <2>1, <2>4
    <3> QED
      BY <1>1, <1>2, <2>2, <3>2, <3>3 DEF Covered
  <2>5. CASE period # m
    <3>1. units'[m] = units[m]
      BY <1>2, <2>1, <2>5
    <3>2. HeldIn(m)' \in SUBSET HeldIn(m)
      BY <2>3
    <3>3. Cardinality(HeldIn(m)') <= Cardinality(HeldIn(m)) /\ Cardinality(HeldIn(m)') \in Nat
      BY <1>1, <3>2, NoMore
    <3> QED
      BY <1>1, <1>2, <2>2, <3>1, <3>3 DEF Covered
  <2> QED
    BY <2>4, <2>5
<1>6. CASE Spends(q)
  <2>1. PICK r \in Runs : \E row : Creation(q, r, row)
    BY <1>6 DEF Spends
  <2>2. PICK row : Creation(q, r, row)
    BY <2>1
  <2>3. Moves(q) /\ Kept(q) /\ ~Holds(req'[q]) /\ units' = units
        /\ (Holds(req[q]) <=> req[q].ask.kind # "branch")
    BY <1>6, <2>2 DEF Spends, Creation
  <2>4. HeldIn(m)' = HeldIn(m) \ {q}
    BY <2>3, HeldAfterMove
  <2>5. HeldIn(m)' \in SUBSET HeldIn(m)
    BY <2>4
  <2>6. Cardinality(HeldIn(m)') <= Cardinality(HeldIn(m)) /\ Cardinality(HeldIn(m)') \in Nat
    BY <1>1, <2>5, NoMore
  <2>7. CASE req[q].ask.kind = "branch"
    <3>1. madeBy' = madeBy
      BY <2>2, <2>7 DEF Creation, AskOf
    <3>2. MadeIn(m)' = MadeIn(m)
      BY <2>3, <3>1, MadeInKept
    <3> QED
      BY <1>1, <1>2, <2>3, <2>6, <3>2 DEF Covered
  <2>8. CASE req[q].ask.kind # "branch" /\ req[q].month = m
    <3>1. MadeIn(m)' \in SUBSET (MadeIn(m) \cup {r})
      BY <2>2, <2>3, <2>8, MadeInAfterCreation
    <3>2. Cardinality(MadeIn(m)') \in Nat /\ Cardinality(MadeIn(m)') <= Cardinality(MadeIn(m)) + 1
      BY <1>1, <3>1, OneMore
    <3>3. q \in HeldIn(m)
      BY <2>3, <2>8, HoldingIs DEF HeldIn
    <3>4. Cardinality(HeldIn(m)') \in Nat /\ Cardinality(HeldIn(m)') + 1 = Cardinality(HeldIn(m))
      BY <1>1, <2>4, <3>3, OneLess
    <3> QED
      BY <1>1, <1>2, <2>3, <3>2, <3>4 DEF Covered
  <2>9. CASE req[q].ask.kind # "branch" /\ req[q].month # m
    <3>1. MadeIn(m)' \in SUBSET MadeIn(m)
      BY <2>2, <2>3, <2>9, MadeInAfterCreation
    <3>2. Cardinality(MadeIn(m)') <= Cardinality(MadeIn(m)) /\ Cardinality(MadeIn(m)') \in Nat
      BY <1>1, <3>1, NoMore
    <3> QED
      BY <1>1, <1>2, <2>3, <2>6, <3>2 DEF Covered
  <2> QED
    BY <2>7, <2>8, <2>9
<1> QED
  BY <1>3, <1>4, <1>5, <1>6

\* Lost answers are counted and refunds that stray are remembered.
LEMMA HistoryStands ==
  ASSUME AdmInv, NEW q \in Requests, RequestStep(q)
  PROVE  (lost' = 0 => lost = 0) /\ (~strayed' => ~strayed)
<1>1. lost \in Nat
  BY FaultsAreNatural DEF AdmInv, AdmTypeOK
<1>2. lost' = lost \/ lost' = lost + 1
  BY DEF RequestStep, Submit, Lookup, Snapshot, Reserve, ReserveAnswerLost, Write, WriteNothing,
         WriteAnswerLost, Refund, RefundFails, Preserve, Crash
<1>3. strayed' = strayed \/ strayed' = (strayed \/ RefundPeriod(q) # req[q].month)
  BY DEF RequestStep, Submit, Lookup, Snapshot, Reserve, ReserveAnswerLost, Write, WriteNothing,
         WriteAnswerLost, Refund, RefundFails, Preserve, Crash
<1>4. lost' = 0 => lost = 0
  BY <1>1, <1>2
<1>5. ~strayed' => ~strayed
  BY <1>3, Zenon
<1> QED
  BY <1>4, <1>5

LEMMA PlanKept ==
  ASSUME AdmInv, [AdmNext]_admState
  PROVE  PlanFits'
<1> USE DEF AdmInv
<1>1. ASSUME NEW q \in Requests, RequestStep(q) PROVE PlanFits'
  <2> SUFFICES ASSUME lost' = 0 PROVE PlanFits'
    BY DEF PlanFits
  <2>1. lost = 0 /\ (~strayed' => ~strayed)
    BY <1>1, HistoryStands
  <2>2. /\ Idles(q) \/ Takes(q) \/ Gives(q) \/ Spends(q)
        /\ req'[q].pc # "second refund"
    BY <1>1, <2>1, LedgerOf
  <2>3. \A p \in Requests \ {q} : req'[p] = req[p]
    BY <2>2 DEF Idles, Takes, Gives, Spends, Passes, Creation, Moves
  <2>4. \A p \in Requests : req'[p].pc # "second refund"
    BY <2>1, <2>2, <2>3 DEF PlanFits
  <2>5. ASSUME ~strayed', NEW m \in 1..MaxPeriods PROVE Covered(m)'
    <3>1. Covered(m)
      BY <2>1, <2>5 DEF PlanFits, Covered
    <3> QED
      BY <2>2, <2>5, <3>1, CoveredKept
  <2> QED
    BY <2>4, <2>5 DEF PlanFits, Covered
<1>2. CASE UNCHANGED <<req, units, madeBy, lost, strayed>>
  <2>1. \A m : MadeIn(m)' = MadeIn(m) /\ HeldIn(m)' = HeldIn(m)
    BY <1>2 DEF MadeIn, HeldIn, Metered, Holding, AskOf
  <2> QED
    BY <1>2, <2>1 DEF PlanFits
<1>3. CASE MonthTurns
  BY <1>2, <1>3 DEF MonthTurns
<1>4. CASE UNCHANGED admVars
  BY <1>2, <1>4 DEF admVars
<1> QED
  BY <1>1, <1>3, <1>4 DEF AdmNext, admState

-----------------------------------------------------------------------------
(* The invariant *)

LEMMA AdmInitInv == AdmInit => AdmInv
<1> SUFFICES ASSUME AdmInit PROVE AdmInv
  OBVIOUS
<1> DEFINE fresh == [pc |-> "new", ask |-> None, month |-> 0, run |-> None, reply |-> "none"]
<1>1. fresh \in Request /\ req = [q \in Requests |-> fresh]
  BY DEF AdmInit, Request, Phase, Reply
<1>2. \A q \in Requests : req[q] = fresh
  BY <1>1
<1>3. AdmTypeOK
  <2>1. units \in [1..MaxPeriods -> Int] /\ period \in 1..MaxPeriods /\ lost \in 0..MaxFaults
    BY PlanType, FaultsAreNatural DEF AdmInit
  <2>2. keyed \subseteq KeyRow /\ madeBy \in [Runs -> Requests \cup {None}] /\ strayed \in BOOLEAN
    BY DEF AdmInit
  <2> QED
    BY <1>1, <2>1, <2>2 DEF AdmTypeOK
<1>4. \A q \in Requests : Made(q) = {}
  BY NoneIsNoRequest DEF AdmInit, Made
<1>5. Metered = {} /\ Seen = {} /\ Holding = {}
  BY <1>2 DEF Metered, Seen, Holding, AdmInit
<1>6. Fits(fresh) /\ fresh.reply # "accepted" /\ fresh.pc # "second refund"
  BY DEF Fits, Early, UnderWay
<1> HIDE DEF fresh
<1>7. AsksFit
  BY <1>2, <1>4, <1>6 DEF AsksFit
<1>8. RowsFit /\ ResultsFit
  BY <1>2, <1>4, <1>6 DEF RowsFit, ResultsFit, AdmInit
<1>9. FinitelyMany
  BY <1>5, FS_EmptySet DEF FinitelyMany
<1>10. PlanFits
  <2>1. \A m : MadeIn(m) = {} /\ HeldIn(m) = {}
    BY <1>5 DEF MadeIn, HeldIn
  <2>2. \A m \in 1..MaxPeriods : units[m] = 0
    BY DEF AdmInit
  <2>3. Cardinality({}) = 0 /\ RunsPerPeriod \in Nat
    BY FS_EmptySet, PlanType
  <2>4. ASSUME NEW m \in 1..MaxPeriods
        PROVE  /\ Cardinality(MadeIn(m)) + Cardinality(HeldIn(m)) <= units[m]
               /\ units[m] <= RunsPerPeriod
    <3>1. MadeIn(m) = {} /\ HeldIn(m) = {} /\ units[m] = 0
      BY <2>1, <2>2
    <3> QED
      BY <2>3, <3>1
  <2>5. \A q \in Requests : req[q].pc # "second refund"
    BY <1>2, <1>6
  <2> QED
    BY <2>4, <2>5 DEF PlanFits
<1> QED
  BY <1>3, <1>7, <1>8, <1>9, <1>10 DEF AdmInv

LEMMA AdmStepInv == AdmInv /\ [AdmNext]_admState => AdmInv'
BY AdmTypesKept, AsksKept, RowsKept, ResultsKept, FiniteKept, PlanKept DEF AdmInv

\* What is known of requests, key rows and units holds for every set of requests, every
\* plan and every number of faults (routes/build-sessions.ts, usage.ts).
THEOREM AdmInvariance == AdmSpec => []AdmInv
<1>1. AdmInit => AdmInv
  BY AdmInitInv
<1>2. AdmInv /\ [AdmNext]_admState => AdmInv'
  BY AdmStepInv
<1> QED
  BY <1>1, <1>2, PTL DEF AdmSpec

\* However a request and its repeats interleave, crash and lose answers, one of them at
\* most creates a run, and what is accepted under the key names one run: the key's row is
\* written with the run and looked up again before it (postgres.ts, conversation-history.ts).
THEOREM OneResult == AdmSpec => []OneResultPerKey
<1>1. AdmInv => OneResultPerKey
  <2> SUFFICES ASSUME AdmInv, NEW q \in Requests, NEW p \in Requests, q # p,
                      SameKey(AskOf(q), AskOf(p))
               PROVE  /\ req[q].reply = "accepted" /\ req[p].reply = "accepted" =>
                            req[q].run = req[p].run
                      /\ ~ \E r, x \in Runs : r # x /\ madeBy[r] = q /\ madeBy[x] = p
    BY DEF OneResultPerKey, AdmInv
  <2>1. \A row, other \in keyed :
            SameKey(row.ask, AskOf(q)) /\ SameKey(other.ask, AskOf(p)) => row = other
    <3>1. ASSUME NEW row \in keyed, NEW other \in keyed,
                 SameKey(row.ask, AskOf(q)), SameKey(other.ask, AskOf(p))
          PROVE  row = other
      <4>1. SameKey(row.ask, AskOf(p))
        BY <3>1, SameKeyEquivalence
      <4>2. SameKey(AskOf(p), other.ask)
        BY <3>1, SameKeyEquivalence
      <4>3. SameKey(row.ask, other.ask)
        BY <4>1, <4>2, SameKeyEquivalence
      <4> QED
        BY <4>3 DEF AdmInv, RowsFit
    <3> QED
      BY <3>1
  <2>2. ASSUME req[q].reply = "accepted", req[p].reply = "accepted"
        PROVE  req[q].run = req[p].run
    BY <2>1, <2>2 DEF AdmInv, ResultsFit
  <2>3. ASSUME NEW r \in Runs, NEW x \in Runs, madeBy[r] = q, madeBy[x] = p
        PROVE  r = x
    <3>1. r \in Made(q) /\ x \in Made(p)
      BY <2>3 DEF Made
    <3>2. PICK row \in keyed : row.ask = AskOf(q) /\ row.run = r
      BY <3>1 DEF AdmInv, ResultsFit
    <3>3. PICK other \in keyed : other.ask = AskOf(p) /\ other.run = x
      BY <3>1 DEF AdmInv, ResultsFit
    <3>4. row.ask \in Ask /\ other.ask \in Ask
      BY DEF AdmInv, AdmTypeOK, KeyRow
    <3> QED
      BY <2>1, <3>2, <3>3, <3>4, OwnKey
  <2> QED
    BY <2>2, <2>3
<1> QED
  BY <1>1, AdmInvariance, PTL

\* Requests that race for the last unit of a month do not start more runs than the plan
\* grants: the reservation adds under the organization's lock and no more than the plan
\* (usage.ts), and a unit is given back only where no run has it.
THEOREM PlanIsKept == AdmSpec => []WithinPlan
<1>1. AdmInv => WithinPlan
  <2> SUFFICES ASSUME AdmInv, lost = 0, ~strayed, NEW m \in 1..MaxPeriods
               PROVE  Cardinality({r \in Metered : req[madeBy[r]].month = m}) <= RunsPerPeriod
    BY DEF WithinPlan
  <2>1. Cardinality(HeldIn(m)) \in Nat /\ Cardinality(MadeIn(m)) \in Nat
    BY FiniteParts DEF AdmInv
  <2>2. units[m] \in Int /\ RunsPerPeriod \in Nat
    BY PlanType DEF AdmInv, AdmTypeOK
  <2>3. Cardinality(MadeIn(m)) + Cardinality(HeldIn(m)) <= units[m] /\ units[m] <= RunsPerPeriod
    BY DEF AdmInv, PlanFits
  <2>4. Cardinality(MadeIn(m)) <= RunsPerPeriod
    BY <2>1, <2>2, <2>3
  <2> QED
    BY <2>4 DEF MadeIn
<1> QED
  BY <1>1, AdmInvariance, PTL

-----------------------------------------------------------------------------
(* The conversations under it *)

LEMMA CreationIsChange ==
  ASSUME AdmInv, NEW q \in Requests, At(q, "write"), NEW r \in Runs, NEW t \in Sessions,
         Create(q, r, t)
  PROVE  ChangeStep
<1> DEFINE a == AskOf(q)
<1>1. Sound(a)
  BY DEF AdmInv, At, AsksFit, Fits, UnderWay, AskOf
<1>2. Creates(a, r, t)
  BY DEF Create
<1> HIDE DEF a
<1>3. a.kind \in Kind
  BY <1>1 DEF Sound, Ask
<1>4. CASE a.kind = "allocate"
  BY <1>2, <1>4 DEF Creates, ChangeStep
<1>5. CASE a.kind = "turn"
  BY <1>2, <1>5 DEF Creates, ChangeStep
<1>6. CASE a.kind = "retry"
  <2>1. a.turn \in Runs /\ Retry(t, a.turn, r)
    BY <1>1, <1>2, <1>6 DEF Creates, Sound
  <2> QED
    BY <2>1 DEF ChangeStep
<1>7. CASE a.kind = "branch"
  <2>1. a.scope \in Sessions /\ Branch(a.scope, r, t)
    BY <1>1, <1>2, <1>7 DEF Creates, Sound
  <2> QED
    BY <2>1 DEF ChangeStep
<1> QED
  BY <1>3, <1>4, <1>5, <1>6, <1>7 DEF Kind

\* Whatever requests do, they change the conversations only by whole operations of
\* Conversations: its invariants and action properties hold of the composition.
THEOREM RequestsKeepConversations == AdmSpec => ConvSpec
<1>1. AdmInit => ConvInit
  BY DEF AdmInit
<1>2. AdmInv /\ [AdmNext]_admState => [ConvNext]_convState
  <2> SUFFICES ASSUME AdmInv, [AdmNext]_admState PROVE [ConvNext]_convState
    OBVIOUS
  <2>1. ASSUME NEW q \in Requests, Write(q) \/ WriteAnswerLost(q) PROVE ConvNext
    <3>1. PICK r \in Runs, t \in Sessions : Create(q, r, t)
      BY <2>1 DEF Write, WriteAnswerLost
    <3>2. At(q, "write")
      BY <2>1 DEF Write, WriteAnswerLost
    <3> QED
      BY <3>1, <3>2, CreationIsChange DEF ConvNext
  <2>2. ASSUME NEW q \in Requests, RequestStep(q), ~ Write(q), ~ WriteAnswerLost(q)
        PROVE  UNCHANGED convState
    BY <2>2 DEF RequestStep, Submit, Lookup, Snapshot, Reserve, ReserveAnswerLost, WriteNothing,
                Refund, RefundFails, Preserve, Crash
  <2>3. CASE MonthTurns
    BY <2>3 DEF MonthTurns
  <2>4. CASE UserStep \/ WorkerStep
    BY <2>4 DEF ConvNext
  <2>5. CASE UNCHANGED admState
    BY <2>5 DEF admState
  <2> QED
    BY <2>1, <2>2, <2>3, <2>4, <2>5 DEF AdmNext
<1> QED
  BY <1>1, <1>2, AdmInvariance, PTL DEF AdmSpec, ConvSpec

-----------------------------------------------------------------------------
(* Induction over the naturals, by sets: the least member of a set of naturals is that  *)
(* of the least initial segment, and the finite sets are well-founded under inclusion.  *)

LEMMA LeastNatural ==
  ASSUME NEW U \in SUBSET Nat, U # {}
  PROVE  \E x \in U : \A y \in U : x <= y
<1> DEFINE upTo(n) == 1..n
<1> DEFINE T == {upTo(n) : n \in U}
<1>1. T \subseteq FiniteSubsetsOf(Nat)
  BY FS_Interval DEF FiniteSubsetsOf
<1>2. T # {}
  OBVIOUS
<1>3. IsWellFoundedOn(StrictSubsetOrdering(Nat), FiniteSubsetsOf(Nat))
  BY FS_StrictSubsetOrderingWellFounded
<1> HIDE DEF T
<1>4. \E S \in T : \A R \in T : ~ (<<R, S>> \in StrictSubsetOrdering(Nat))
  BY <1>1, <1>2, <1>3, WFMin
<1>5. PICK x \in U : \A R \in T : ~ (<<R, upTo(x)>> \in StrictSubsetOrdering(Nat))
  BY <1>4 DEF T
<1>6. ASSUME NEW y \in U PROVE x <= y
  <2> SUFFICES ASSUME y < x PROVE FALSE
    OBVIOUS
  <2>1. upTo(y) \in T
    BY DEF T
  <2>2. upTo(y) \subseteq upTo(x) /\ upTo(x) \in SUBSET Nat /\ upTo(y) \in SUBSET Nat
    OBVIOUS
  <2>3. x \in upTo(x) /\ x \notin upTo(y)
    OBVIOUS
  <2>4. upTo(y) # upTo(x)
    BY <2>3
  <2> HIDE DEF upTo
  <2>5. <<upTo(y), upTo(x)>> \in StrictSubsetOrdering(Nat)
    BY <2>2, <2>4 DEF StrictSubsetOrdering
  <2> QED
    BY <1>5, <2>1, <2>5
<1> QED
  BY <1>6

LEMMA SetInduction ==
  ASSUME NEW T \in SUBSET Nat, 0 \in T, \A n \in T : n + 1 \in T
  PROVE  T = Nat
<1> SUFFICES ASSUME Nat \ T # {} PROVE FALSE
  OBVIOUS
<1>1. PICK x \in Nat \ T : \A y \in Nat \ T : x <= y
  BY LeastNatural
<1>2. x # 0
  OBVIOUS
<1>3. x - 1 \in Nat
  BY <1>2
<1>4. x - 1 \in T
  BY <1>1, <1>3
<1> QED
  BY <1>3, <1>4

-----------------------------------------------------------------------------
(* Sums of the months *)

Months == [1..MaxPeriods -> Int]

\* f has the sums of the first months of u, up to n.
IsSums(f, u, n) ==
    /\ f \in [0..n -> Int]
    /\ f[0] = 0
    /\ \A m \in 1..n : f[m] = f[m - 1] + u[m]

LEMMA SumsExist ==
  ASSUME NEW u \in Months
  PROVE  \E f : IsSums(f, u, MaxPeriods)
<1> DEFINE T == {n \in Nat : n <= MaxPeriods => \E f : IsSums(f, u, n)}
<1>1. 0 \in T
  <2>1. IsSums([m \in 0..0 |-> 0], u, 0)
    BY DEF IsSums
  <2> QED
    BY <2>1
<1>2. ASSUME NEW n \in T PROVE n + 1 \in T
  <2>1. n \in Nat /\ n + 1 \in Nat /\ MaxPeriods \in Nat
    BY PlanType
  <2> SUFFICES ASSUME n + 1 <= MaxPeriods PROVE \E f : IsSums(f, u, n + 1)
    BY <2>1
  <2>2. n <= MaxPeriods /\ u[n + 1] \in Int
    BY <2>1 DEF Months
  <2>3. \E f : IsSums(f, u, n)
    BY <2>2
  <2>4. PICK f : IsSums(f, u, n)
    BY <2>3
  <2> DEFINE g == [m \in 0..(n + 1) |-> IF m = n + 1 THEN f[n] + u[n + 1] ELSE f[m]]
  <2>5. f[n] \in Int /\ f[0] = 0 /\ f \in [0..n -> Int]
    BY <2>1, <2>4 DEF IsSums
  <2>6. g \in [0..(n + 1) -> Int]
    BY <2>1, <2>2, <2>5
  <2>7. g[0] = 0
    BY <2>1, <2>5
  <2>8. ASSUME NEW m \in 1..(n + 1) PROVE g[m] = g[m - 1] + u[m]
    <3>1. m - 1 \in 0..(n + 1) /\ m - 1 # n + 1 /\ g[m - 1] = f[m - 1]
      BY <2>1
    <3>2. CASE m = n + 1
      BY <2>1, <3>1, <3>2
    <3>3. CASE m # n + 1
      <4>1. m \in 1..n
        BY <2>1, <3>3
      <4> QED
        BY <2>1, <2>4, <3>1, <3>3, <4>1 DEF IsSums
    <3> QED
      BY <3>2, <3>3
  <2> HIDE DEF g
  <2>9. IsSums(g, u, n + 1)
    BY <2>6, <2>7, <2>8 DEF IsSums
  <2> QED
    BY <2>9
<1> HIDE DEF T
<1>3. T \in SUBSET Nat
  BY DEF T
<1>4. T = Nat
  BY <1>1, <1>2, <1>3, SetInduction
<1>5. MaxPeriods \in T
  BY <1>4, PlanType
<1> QED
  BY <1>5, PlanType DEF T

\* What the recursive function Sums is.
LEMMA SumsAre ==
  ASSUME NEW u \in Months
  PROVE  IsSums(Sums(u), u, MaxPeriods)
<1> DEFINE next(f) == [m \in 0..MaxPeriods |-> IF m = 0 THEN 0 ELSE f[m - 1] + u[m]]
<1>1. PICK f : IsSums(f, u, MaxPeriods)
  BY SumsExist
<1>2. f = next(f)
  BY <1>1, PlanType DEF IsSums
<1>3. Sums(u) = CHOOSE g : g = next(g)
  BY DEF Sums
<1>4. Sums(u) = next(Sums(u))
  BY <1>2, <1>3
<1> DEFINE s == Sums(u)
<1> HIDE DEF s
<1>5. s = [m \in 0..MaxPeriods |-> IF m = 0 THEN 0 ELSE s[m - 1] + u[m]]
  BY <1>4 DEF s
<1>6. s[0] = 0 /\ \A m \in 1..MaxPeriods : s[m] = s[m - 1] + u[m]
  <2>1. s[0] = 0
    BY <1>5, PlanType
  <2>2. ASSUME NEW m \in 1..MaxPeriods PROVE s[m] = s[m - 1] + u[m]
    <3>1. m \in 0..MaxPeriods /\ m # 0
      BY PlanType
    <3> QED
      BY <1>5, <3>1
  <2> QED
    BY <2>1, <2>2
<1> DEFINE T == {n \in Nat : n <= MaxPeriods => s[n] \in Int}
<1>7. 0 \in T
  BY <1>6
<1>8. ASSUME NEW n \in T PROVE n + 1 \in T
  <2>1. n \in Nat /\ n + 1 \in Nat /\ MaxPeriods \in Nat
    BY PlanType
  <2> SUFFICES ASSUME n + 1 <= MaxPeriods PROVE s[n + 1] \in Int
    BY <2>1
  <2>2. n <= MaxPeriods /\ n + 1 \in 1..MaxPeriods /\ u[n + 1] \in Int
    BY <2>1 DEF Months
  <2>3. s[n] \in Int
    BY <2>2
  <2>4. s[n + 1] = s[(n + 1) - 1] + u[n + 1]
    BY <1>6, <2>2
  <2>5. (n + 1) - 1 = n
    BY <2>1
  <2> QED
    BY <2>2, <2>3, <2>4, <2>5
<1> HIDE DEF T
<1>9. T = Nat
  <2>1. T \in SUBSET Nat
    BY DEF T
  <2> QED
    BY <1>7, <1>8, <2>1, SetInduction
<1>10. s \in [0..MaxPeriods -> Int]
  <2>1. \A n \in 0..MaxPeriods : s[n] \in Int
    <3>1. ASSUME NEW n \in 0..MaxPeriods PROVE s[n] \in Int
      <4>1. n \in T /\ n <= MaxPeriods
        BY <1>9, PlanType
      <4> QED
        BY <4>1 DEF T
    <3> QED
      BY <3>1
  <2>2. DOMAIN s = 0..MaxPeriods /\ s = [n \in DOMAIN s |-> s[n]]
    BY <1>5
  <2> QED
    BY <2>1, <2>2
<1>11. IsSums(s, u, MaxPeriods)
  BY <1>6, <1>10 DEF IsSums
<1> QED
  BY <1>11 DEF s

\* A unit more or less in one month is one more or less in the sum.
LEMMA SumMoves ==
  ASSUME NEW u \in Months, NEW k \in 1..MaxPeriods, NEW d \in Int
  PROVE  /\ Sums(u)[MaxPeriods] \in Int
         /\ Sums([u EXCEPT ![k] = u[k] + d])[MaxPeriods] = Sums(u)[MaxPeriods] + d
<1> DEFINE v == [u EXCEPT ![k] = u[k] + d]
<1>0. /\ v \in Months /\ v[k] = u[k] + d
      /\ \A m \in (1..MaxPeriods) \ {k} : v[m] = u[m]
  BY DEF Months
<1> HIDE DEF v
<1> DEFINE s == Sums(u)
<1> DEFINE t == Sums(v)
<1>1. IsSums(s, u, MaxPeriods) /\ IsSums(t, v, MaxPeriods)
  BY <1>0, SumsAre
<1> HIDE DEF s, t
<1> DEFINE T == {n \in Nat : n <= MaxPeriods => t[n] = s[n] + (IF k <= n THEN d ELSE 0)}
<1>2. 0 \in T
  BY <1>1 DEF IsSums
<1>3. ASSUME NEW n \in T PROVE n + 1 \in T
  <2>1. n \in Nat /\ n + 1 \in Nat /\ MaxPeriods \in Nat /\ k \in Nat
    BY PlanType
  <2> SUFFICES ASSUME n + 1 <= MaxPeriods
               PROVE  t[n + 1] = s[n + 1] + (IF k <= n + 1 THEN d ELSE 0)
    BY <2>1
  <2>2. /\ n <= MaxPeriods /\ n \in 0..MaxPeriods /\ n + 1 \in 1..MaxPeriods /\ (n + 1) - 1 = n
        /\ u[n + 1] \in Int /\ v[n + 1] \in Int
    BY <1>0, <2>1 DEF Months
  <2>3. t[n] = s[n] + (IF k <= n THEN d ELSE 0)
    BY <2>2
  <2>4. s[n + 1] = s[n] + u[n + 1] /\ t[n + 1] = t[n] + v[n + 1] /\ s[n] \in Int /\ t[n] \in Int
    BY <1>1, <2>2 DEF IsSums
  <2>5. CASE n + 1 = k
    <3>1. v[n + 1] = u[n + 1] + d /\ ~ (k <= n) /\ k <= n + 1
      BY <1>0, <2>1, <2>5
    <3> QED
      BY <2>2, <2>3, <2>4, <3>1
  <2>6. CASE n + 1 # k
    <3>1. v[n + 1] = u[n + 1] /\ (k <= n <=> k <= n + 1)
      BY <1>0, <2>1, <2>2, <2>6
    <3> QED
      BY <2>2, <2>3, <2>4, <3>1
  <2> QED
    BY <2>5, <2>6
<1> HIDE DEF T
<1>4. T = Nat
  <2>1. T \in SUBSET Nat
    BY DEF T
  <2> QED
    BY <1>2, <1>3, <2>1, SetInduction
<1>5. MaxPeriods \in T /\ MaxPeriods \in Nat /\ k <= MaxPeriods
  BY <1>4, PlanType
<1>6. t[MaxPeriods] = s[MaxPeriods] + d
  BY <1>5 DEF T
<1>7. s[MaxPeriods] \in Int
  BY <1>1, <1>5 DEF IsSums
<1> QED
  BY <1>6, <1>7 DEF s, t, v

LEMMA SumOfNothing ==
  ASSUME NEW u \in Months, \A m \in 1..MaxPeriods : u[m] = 0
  PROVE  Sums(u)[MaxPeriods] = 0
<1> DEFINE s == Sums(u)
<1>1. IsSums(s, u, MaxPeriods)
  BY SumsAre
<1> HIDE DEF s
<1> DEFINE T == {n \in Nat : n <= MaxPeriods => s[n] = 0}
<1>2. 0 \in T
  BY <1>1 DEF IsSums
<1>3. ASSUME NEW n \in T PROVE n + 1 \in T
  <2>1. n \in Nat /\ n + 1 \in Nat /\ MaxPeriods \in Nat
    BY PlanType
  <2> SUFFICES ASSUME n + 1 <= MaxPeriods PROVE s[n + 1] = 0
    BY <2>1
  <2>2. n <= MaxPeriods /\ n + 1 \in 1..MaxPeriods /\ (n + 1) - 1 = n /\ u[n + 1] = 0
    BY <2>1
  <2>3. s[n] = 0
    BY <2>2
  <2>4. s[n + 1] = s[n] + u[n + 1]
    BY <1>1, <2>2 DEF IsSums
  <2> QED
    BY <2>2, <2>3, <2>4
<1> HIDE DEF T
<1>4. T = Nat
  <2>1. T \in SUBSET Nat
    BY DEF T
  <2> QED
    BY <1>2, <1>3, <2>1, SetInduction
<1>5. s[MaxPeriods] = 0
  BY <1>4, PlanType DEF T
<1> QED
  BY <1>5 DEF s

-----------------------------------------------------------------------------
(* Every run is paid for *)

\* Nothing but a creation touches the runs' statuses while requests step.
LEMMA RequestLeavesRuns ==
  ASSUME AdmInv, NEW q \in Requests, RequestStep(q)
  PROVE  (status' = status /\ madeBy' = madeBy) \/ Creating(q)
<1>1. ASSUME Write(q) \/ WriteAnswerLost(q) PROVE Creating(q)
  BY <1>1, WriteCreates, AnswerLostCreates DEF Creating
<1>2. ASSUME ~ Write(q), ~ WriteAnswerLost(q) PROVE status' = status /\ madeBy' = madeBy
  BY <1>2 DEF RequestStep, Submit, Lookup, Snapshot, Reserve, ReserveAnswerLost, WriteNothing,
              Refund, RefundFails, Preserve, Crash, convState, vars
<1> QED
  BY <1>1, <1>2

LEMMA MadeExistKept ==
  ASSUME AdmInv, ConvInv, MadeExist, [AdmNext]_admState
  PROVE  MadeExist'
<1> USE DEF AdmInv
<1>1. ASSUME UNCHANGED madeBy, \A r \in Runs : status'[r] = "absent" => status[r] = "absent"
      PROVE  MadeExist'
  BY <1>1 DEF MadeExist, Metered
<1>2. ASSUME NEW q \in Requests, NEW r \in Runs, NEW row, Creation(q, r, row) PROVE MadeExist'
  <2>1. CASE AskOf(q).kind = "branch"
    BY <1>1, <1>2, <2>1 DEF Creation
  <2>2. CASE AskOf(q).kind # "branch"
    <3>1. status \in [Runs -> RunStatus] /\ status' = [status EXCEPT ![r] = "queued"]
          /\ madeBy' = [madeBy EXCEPT ![r] = q]
      BY <1>2, <2>2 DEF Creation, ConvInv, TypeOK
    <3>2. status'[r] # "absent" /\ \A x \in Runs \ {r} : status'[x] = status[x] /\ madeBy'[x] = madeBy[x]
      BY <3>1 DEF AdmTypeOK
    <3> QED
      BY <3>2 DEF MadeExist, Metered
  <2> QED
    BY <2>1, <2>2
<1>3. ASSUME NEW q \in Requests, RequestStep(q) PROVE MadeExist'
  BY <1>1, <1>2, <1>3, RequestLeavesRuns DEF Creating
<1>4. CASE MonthTurns
  BY <1>1, <1>4 DEF MonthTurns, convState, vars
<1>5. CASE UserStep /\ UNCHANGED admVars
  <2>1. status' = status /\ madeBy' = madeBy
    BY <1>5 DEF UserStep, UpdateConversation, RestoreWorkspace, vars, admVars
  <2> QED
    BY <1>1, <2>1
<1>6. CASE WorkerStep /\ UNCHANGED admVars
  <2>1. TypeOK /\ ConvTypeOK
    BY DEF ConvInv
  <2>2. ASSUME StoreMove PROVE MadeExist'
    BY <1>1, <1>6, <2>2 DEF StoreMove, admVars
  <2>3. ASSUME NEW r \in Runs, Lapse(r) PROVE MadeExist'
    BY <2>1, <2>2, <2>3, LapseMoves
  <2>4. ASSUME NEW r \in Runs, NEW w \in Workers, Claim(r, w) PROVE MadeExist'
    BY <2>1, <2>2, <2>4, ClaimMoves
  <2>5. ASSUME NEW id \in 1..MaxLeases,
               \/ Prepare(id) \/ Save(id) \/ Publish(id)
               \/ Record(id) \/ Recover(id) \/ PublishRecovered(id)
        PROVE  MadeExist'
    <3>1. status' = status /\ madeBy' = madeBy
      BY <1>6, <2>5 DEF Prepare, Save, Publish, Record, Recover, PublishRecovered,
                        PublishCheckpoint, vars, admVars
    <3> QED
      BY <1>1, <3>1
  <2>6. ASSUME NEW id \in 1..MaxLeases, NEW o \in Outcome, End(id, o) PROVE MadeExist'
    BY <2>1, <2>2, <2>6, EndMoves
  <2> QED
    BY <1>6, <2>3, <2>4, <2>5, <2>6 DEF WorkerStep
<1>7. CASE UNCHANGED admState
  BY <1>1, <1>7 DEF admState, admVars, convState, vars
<1> QED
  BY <1>3, <1>4, <1>5, <1>6, <1>7 DEF AdmNext

\* What the units sum to after a step that adds d in one month.
LEMMA TotalMoves ==
  ASSUME AdmTypeOK, NEW k \in 1..MaxPeriods, NEW d \in Int, units' = [units EXCEPT ![k] = units[k] + d]
  PROVE  Total \in Int /\ Total' = Total + d
<1>1. units \in Months
  BY DEF AdmTypeOK, Months
<1>2. /\ Sums(units)[MaxPeriods] \in Int
      /\ Sums([units EXCEPT ![k] = units[k] + d])[MaxPeriods] = Sums(units)[MaxPeriods] + d
  BY <1>1, SumMoves
<1>3. Sums(units')[MaxPeriods] = Sums(units)[MaxPeriods] + d
  BY <1>2
<1> QED
  BY <1>2, <1>3 DEF Total

LEMMA TotalIs ==
  ASSUME AdmTypeOK
  PROVE  Total \in Int
<1>1. units \in Months
  BY DEF AdmTypeOK, Months
<1>2. IsSums(Sums(units), units, MaxPeriods)
  BY <1>1, SumsAre
<1> QED
  BY <1>2, PlanType DEF Total, IsSums

\* The runs and the requests that hold a unit, counted together.
Balance == Cardinality(Metered) + Cardinality(Holding)

LEMMA BalanceIs == ASSUME AdmInv PROVE Balance \in Nat
BY FiniteParts DEF AdmInv, Balance

LEMMA BalanceMoves ==
  ASSUME AdmInv, MadeExist, NEW q \in Requests,
         Idles(q) \/ Takes(q) \/ Gives(q) \/ Spends(q)
  PROVE  /\ Idles(q) => Balance' \in Nat /\ Balance' <= Balance /\ (req'[q].pc # "dead" => Balance' = Balance)
         /\ Takes(q) => Balance' = Balance + 1
         /\ Gives(q) => Balance' = Balance - 1
         /\ Spends(q) => Balance' = Balance
<1> USE DEF AdmInv
<1>1. /\ IsFiniteSet(Holding) /\ Cardinality(Holding) \in Nat
      /\ IsFiniteSet(Metered) /\ Cardinality(Metered) \in Nat
  BY FiniteParts
<1>2. ASSUME Passes(q) PROVE Metered' = Metered /\ Moves(q)
  BY <1>2 DEF Passes, Metered
<1>3. q \in Holding <=> Holds(req[q])
  BY HoldingIs
<1>4. ASSUME Idles(q)
      PROVE  Balance' \in Nat /\ Balance' <= Balance /\ (req'[q].pc # "dead" => Balance' = Balance)
  <2>1. Metered' = Metered /\ Moves(q)
    BY <1>2, <1>4 DEF Idles
  <2>2. CASE Holds(req'[q])
    <3>1. Holding' = Holding
      BY <1>3, <1>4, <2>1, <2>2, HeldAfterMove DEF Idles
    <3> QED
      BY <1>1, <2>1, <3>1 DEF Balance
  <2>3. CASE ~ Holds(req'[q])
    <3>1. Holding' = Holding \ {q}
      BY <2>1, <2>3, HeldAfterMove
    <3>2. Cardinality(Holding') <= Cardinality(Holding) /\ Cardinality(Holding') \in Nat
      <4>1. Holding' \in SUBSET Holding
        BY <3>1
      <4> QED
        BY <1>1, <4>1, NoMore
    <3>3. req'[q].pc # "dead" => Holding' = Holding
      BY <1>3, <1>4, <2>3, <3>1 DEF Idles
    <3> QED
      BY <1>1, <2>1, <3>2, <3>3 DEF Balance
  <2> QED
    BY <2>2, <2>3
<1>5. ASSUME Takes(q) PROVE Balance' = Balance + 1
  <2>1. Metered' = Metered /\ Moves(q) /\ Kept(q) /\ Holds(req'[q]) /\ q \notin Holding
    BY <1>2, <1>3, <1>5 DEF Takes
  <2>2. Holding' = Holding \cup {q}
    BY <2>1, HeldAfterMove
  <2>3. Cardinality(Holding') = Cardinality(Holding) + 1
    BY <1>1, <2>1, <2>2, FS_AddElement
  <2> QED
    BY <1>1, <2>1, <2>3 DEF Balance
<1>6. ASSUME Gives(q) PROVE Balance' = Balance - 1
  <2>1. Metered' = Metered /\ Moves(q) /\ ~Holds(req'[q]) /\ q \in Holding
    BY <1>2, <1>3, <1>6 DEF Gives
  <2>2. Holding' = Holding \ {q}
    BY <2>1, HeldAfterMove
  <2>3. Cardinality(Holding') \in Nat /\ Cardinality(Holding') + 1 = Cardinality(Holding)
    BY <1>1, <2>1, <2>2, OneLess
  <2> QED
    BY <1>1, <2>1, <2>3 DEF Balance
<1>7. ASSUME Spends(q) PROVE Balance' = Balance
  <2>1. PICK r \in Runs : \E row : Creation(q, r, row)
    BY <1>7 DEF Spends
  <2>2. PICK row : Creation(q, r, row)
    BY <2>1
  <2>3. /\ Moves(q) /\ Kept(q) /\ ~Holds(req'[q])
        /\ (Holds(req[q]) <=> req[q].ask.kind # "branch")
    BY <1>7, <2>2 DEF Spends, Creation
  <2>4. Holding' = Holding \ {q}
    BY <2>3, HeldAfterMove
  <2>5. CASE req[q].ask.kind = "branch"
    <3>1. Holding' = Holding
      BY <1>3, <2>3, <2>4, <2>5
    <3>2. Metered' = Metered
      BY <2>2, <2>5 DEF Creation, AskOf, Metered
    <3> QED
      BY <3>1, <3>2 DEF Balance
  <2>6. CASE req[q].ask.kind # "branch"
    <3>1. Metered' = Metered \cup {r}
      BY <2>2, <2>3, <2>6, MadeInAfterCreation
    <3>2. r \notin Metered
      BY <2>2, <2>6 DEF Creation, AskOf, MadeExist
    <3>3. Cardinality(Metered') = Cardinality(Metered) + 1
      BY <1>1, <3>1, <3>2, FS_AddElement
    <3>4. q \in Holding
      BY <1>3, <2>3, <2>6
    <3>5. Cardinality(Holding') \in Nat /\ Cardinality(Holding') + 1 = Cardinality(Holding)
      BY <1>1, <2>4, <3>4, OneLess
    <3> QED
      BY <1>1, <3>3, <3>5 DEF Balance
  <2> QED
    BY <2>5, <2>6
<1> QED
  BY <1>4, <1>5, <1>6, <1>7

LEMMA SumsKept ==
  ASSUME AdmInv, MadeExist, SumsFit, [AdmNext]_admState
  PROVE  SumsFit'
<1> USE DEF AdmInv
<1> DEFINE alive == \A p \in Requests : req[p].pc # "dead"
<1>1. ASSUME NEW q \in Requests, RequestStep(q) PROVE SumsFit'
  <2> SUFFICES ASSUME lost' = 0 PROVE Total' >= Balance' /\ (alive' => Total' = Balance')
    BY DEF SumsFit, Balance
  <2>1. lost = 0
    BY <1>1, HistoryStands
  <2>2. Total >= Balance /\ (alive => Total = Balance)
    BY <2>1 DEF SumsFit, Balance
  <2>3. Idles(q) \/ Takes(q) \/ Gives(q) \/ Spends(q)
    BY <1>1, <2>1, LedgerOf
  <2>4. (\A p \in Requests \ {q} : req'[p] = req[p]) /\ req[q].pc # "dead"
    BY <2>3 DEF Idles, Takes, Gives, Spends, Passes, Creation, Moves
  <2>5. alive' => alive /\ req'[q].pc # "dead"
    BY <2>4
  <2>6. Balance \in Nat /\ Total \in Int
    BY BalanceIs, TotalIs
  <2> HIDE DEF alive
  <2>8. CASE Idles(q)
    <3>1. Total' = Total
      BY <2>8 DEF Idles, Total
    <3>2. /\ Balance' \in Nat /\ Balance' <= Balance
          /\ req'[q].pc # "dead" => Balance' = Balance
      BY <2>8, BalanceMoves
    <3> QED
      BY <2>2, <2>5, <2>6, <3>1, <3>2
  <2>9. CASE Takes(q)
    <3>1. req[q].month \in 1..MaxPeriods /\ units' = [units EXCEPT ![req[q].month] = units[req[q].month] + 1]
      BY <2>9 DEF Takes
    <3>2. Total' = Total + 1
      <4>1. 1 \in Int
        OBVIOUS
      <4> QED
        BY <3>1, <4>1, TotalMoves
    <3>3. Balance' = Balance + 1
      BY <2>9, BalanceMoves
    <3> QED
      BY <2>2, <2>5, <2>6, <3>2, <3>3
  <2>10. CASE Gives(q)
    <3>1. period \in 1..MaxPeriods /\ units[period] \in Int
      BY DEF AdmTypeOK
    <3>2. units' = [units EXCEPT ![period] = units[period] + (-1)]
      BY <2>10, <3>1 DEF Gives
    <3>3. Total' = Total + (-1)
      <4>1. -1 \in Int
        OBVIOUS
      <4> QED
        BY <3>1, <3>2, <4>1, TotalMoves
    <3>4. Balance' = Balance - 1
      BY <2>10, BalanceMoves
    <3> QED
      BY <2>2, <2>5, <2>6, <3>3, <3>4
  <2>11. CASE Spends(q)
    <3>1. Total' = Total
      BY <2>11 DEF Spends, Total
    <3>2. Balance' = Balance
      BY <2>11, BalanceMoves
    <3> QED
      BY <2>2, <2>5, <3>1, <3>2
  <2> QED
    BY <2>3, <2>8, <2>9, <2>10, <2>11
<1>2. CASE UNCHANGED <<req, units, madeBy, lost>>
  <2>1. Total' = Total /\ Metered' = Metered /\ Holding' = Holding
    BY <1>2 DEF Total, Metered, Holding, AskOf
  <2> QED
    BY <1>2, <2>1 DEF SumsFit
<1>3. CASE MonthTurns
  BY <1>2, <1>3 DEF MonthTurns
<1>4. CASE UNCHANGED admVars
  BY <1>2, <1>4 DEF admVars
<1> QED
  BY <1>1, <1>3, <1>4 DEF AdmNext, admState

LEMMA SumsInit ==
  ASSUME AdmInit
  PROVE  SumsFit /\ MadeExist
<1>1. Metered = {} /\ Holding = {}
  BY DEF Metered, Holding, AdmInit
<1>2. units \in Months /\ \A m \in 1..MaxPeriods : units[m] = 0
  BY DEF AdmInit, Months
<1>3. Total = 0
  BY <1>2, SumOfNothing DEF Total
<1>4. Cardinality({}) = 0
  BY FS_EmptySet
<1> QED
  BY <1>1, <1>3, <1>4 DEF SumsFit, MadeExist

LEMMA UnitsInvariance == AdmSpec => [](AdmInv /\ SumsFit)
<1>1. AdmInit => SumsFit /\ MadeExist
  BY SumsInit
<1>2. AdmInv /\ ConvInv /\ (SumsFit /\ MadeExist) /\ [AdmNext]_admState => (SumsFit /\ MadeExist)'
  BY SumsKept, MadeExistKept
<1>3. AdmSpec => []AdmInv /\ []ConvInv
  BY AdmInvariance, RequestsKeepConversations, ConvInvariance, PTL
<1> QED
  BY <1>1, <1>2, <1>3, PTL DEF AdmSpec

\* While no database answer is lost, there is a unit for every run a request made and for
\* every request between its reservation and its run: a refund is only for a unit that no
\* run has (routes/build-sessions.ts, routes/conversation-actions.ts).
THEOREM RunsArePaid == AdmSpec => []EveryRunIsPaid
<1>1. SumsFit => EveryRunIsPaid
  BY DEF SumsFit, EveryRunIsPaid
<1> QED
  BY <1>1, UnitsInvariance, PTL

\* And when every request was answered without a crash, there is no unit beyond the runs.
THEOREM UnitsAreSpent == AdmSpec => []UnitsMatchRuns
<1>1. AdmInv /\ SumsFit => UnitsMatchRuns
  <2> SUFFICES ASSUME AdmInv, SumsFit, lost = 0,
                      \A q \in Requests : req[q].pc \in {"new", "answered"}
               PROVE  Total = Cardinality(Metered)
    BY DEF UnitsMatchRuns
  <2>1. Holding = {} /\ \A q \in Requests : req[q].pc # "dead"
    BY DEF Holding
  <2>2. Total = Cardinality(Metered) + Cardinality({})
    BY <2>1 DEF SumsFit
  <2>3. Cardinality({}) = 0 /\ Cardinality(Metered) \in Nat
    BY FS_EmptySet, FiniteParts DEF AdmInv
  <2> QED
    BY <2>2, <2>3
<1> QED
  BY <1>1, UnitsInvariance, PTL
=============================================================================
