---------------------------- MODULE SignInProofs ----------------------------
(***************************************************************************)
(* Proofs about SignIn, for every set of requests, links, states, subjects *)
(* and addresses and every value of the bounds: what happens to an account *)
(* for the first time happens once, a Google account stays with its        *)
(* account, and what is spent lets nobody in again.                        *)
(***************************************************************************)
EXTENDS SignIn, TLAPS, FiniteSetTheorems, SequenceTheorems

-----------------------------------------------------------------------------
(* Types that do not mention other variables *)

UserRow == [email: Emails, onboarded: BOOLEAN]
SessionRow == [user: Nat, life: {"live", "expired", "revoked"}, sent: BOOLEAN,
               from: Credential, subject: Subjects \cup {None}]
RequestRow == [pc: {"idle"} \cup SignInSteps, email: Emails \cup {None},
               subject: Subjects \cup {None}, from: Credential \cup {None}, user: Nat,
               created: BOOLEAN, session: Nat, previous: Nat]
Established == {"create", "list", "organize", "resolve", "revoke", "audit"}
Sessioned == Established \ {"create"}

Typed ==
    /\ link \in [Links -> [email: Emails \cup {None}, life: Life]]
    /\ oidc \in [States -> Life]
    /\ user \in Seq(UserRow)
    /\ linked \in [Subjects -> Nat]
    /\ organization \in Seq(Nat)
    /\ session \in Seq(SessionRow)
    /\ audit \in Seq([Events -> Nat])
    /\ request \in [Requests -> RequestRow]

\* What a request holds at the statement it is at.
Fits(q) ==
    LET r == request[q] IN
    /\ r.pc \in {"claim", "claimGoogle"} => r.email \in Emails
    /\ r.pc = "claimGoogle" => r.subject \in Subjects
    /\ r.pc # "idle" => r.from \in Credential
    /\ r.user <= Len(user) /\ r.session <= Len(session) /\ r.previous <= Len(session)
    /\ r.pc \in Established => r.user # 0
    /\ r.pc \in Sessioned => r.session # 0 /\ session[r.session].user = r.user
    /\ r.pc \in {"resolve", "revoke"} => r.previous # 0

Ranges ==
    /\ \A l \in Links : link[l].life # "absent" => link[l].email \in Emails
    /\ Len(audit) = Len(user)
    /\ \A g \in Subjects : linked[g] <= Len(user)
    /\ \A i \in DOMAIN organization : organization[i] \in 1..Len(user)
    /\ \A s \in DOMAIN session : session[s].user \in 1..Len(user)
    /\ \A q \in Requests : Fits(q)

-----------------------------------------------------------------------------
(* Sequences *)

LEMMA Appended ==
  ASSUME NEW S, NEW s \in Seq(S), NEW e \in S
  PROVE  /\ Append(s, e) \in Seq(S)
         /\ Len(Append(s, e)) = Len(s) + 1
         /\ DOMAIN Append(s, e) = 1..(Len(s) + 1)
         /\ \A i \in DOMAIN s : Append(s, e)[i] = s[i]
         /\ Append(s, e)[Len(s) + 1] = e
BY LenProperties, AppendProperties

LEMMA SameEnd ==
  ASSUME NEW m \in Nat, NEW n \in Nat, 1..m = 1..n
  PROVE  m = n
<1>1. CASE m < n
  BY <1>1, n \in 1..n
<1>2. CASE n < m
  BY <1>2, m \in 1..m
<1>3. QED
  BY <1>1, <1>2

LEMMA Updated ==
  ASSUME NEW S, NEW s \in Seq(S), NEW i \in DOMAIN s, NEW e \in S
  PROVE  /\ [s EXCEPT ![i] = e] \in Seq(S)
         /\ Len([s EXCEPT ![i] = e]) = Len(s)
         /\ DOMAIN [s EXCEPT ![i] = e] = DOMAIN s
         /\ \A j \in DOMAIN s : [s EXCEPT ![i] = e][j] = IF j = i THEN e ELSE s[j]
BY LenProperties, ExceptSeq

-----------------------------------------------------------------------------
(* What a step does *)

\* A step is one of the actions, or changes nothing.
LEMMA StepCases ==
  ASSUME [SignInNext]_signVars, NEW P,
         \A l \in Links, e \in Emails : RequestMagicLink(l, e) => P,
         \A o \in States : GoogleStart(o) => P,
         Expire => P,
         \A q \in Requests, l \in Links, p \in Previous : Callback(q, l, p) => P,
         \A q \in Requests, o \in States, g \in Subjects, e \in Emails, p \in Previous :
             GoogleCallback(q, o, g, e, p) => P,
         \A q \in Requests : ClaimByEmail(q) => P,
         \A q \in Requests : ClaimGoogle(q) => P,
         \A q \in Requests : CreateSession(q) => P,
         \A q \in Requests : ListMemberships(q) => P,
         \A q \in Requests : CreateOrganization(q) => P,
         \A q \in Requests : ResolvePrevious(q) => P,
         \A q \in Requests : RevokePrevious(q) => P,
         \A q \in Requests : Answer(q) => P,
         \A q \in Requests : Die(q) => P,
         \A s \in DOMAIN session : Present(s) => P,
         \A s \in DOMAIN session : \A which \in Ends(s) : SignOut(s, which) => P,
         \A s \in DOMAIN session : CompleteOnboarding(s) => P,
         UNCHANGED signVars => P
  PROVE  P
BY Zenon DEF SignInNext

\* One request moves, and the others stay.
LEMMA Gone ==
  ASSUME Typed, NEW q \in Requests, NEW v \in RequestRow, Goes(q, v)
  PROVE  /\ request' \in [Requests -> RequestRow]
         /\ request'[q] = v
         /\ \A p \in Requests : p # q => request'[p] = request[p]
BY DEF Typed, Goes

LEMMA GoneTo ==
  ASSUME Typed, NEW q \in Requests, NEW pc \in {"idle"} \cup SignInSteps, GoesTo(q, pc)
  PROVE  /\ request' \in [Requests -> RequestRow]
         /\ request'[q] = [request[q] EXCEPT !.pc = pc]
         /\ \A p \in Requests : p # q => request'[p] = request[p]
BY DEF Typed, GoesTo, RequestRow

\* InsertUser leaves the users that are there, and one with the address asked for.
LEMMA Inserted ==
  ASSUME Typed, Len(audit) = Len(user), NEW e \in Emails, InsertUser(e)
  PROVE  /\ user' \in Seq(UserRow) /\ audit' \in Seq([Events -> Nat])
         /\ Len(audit') = Len(user')
         /\ Claimed(e) \in 1..Len(user')
         /\ Len(user) <= Len(user')
         /\ \A u \in DOMAIN user : user'[u] = user[u] /\ audit'[u] = audit[u]
         /\ Account(e) # {} => user' = user /\ audit' = audit /\ Claimed(e) \in Account(e)
         /\ Account(e) = {} =>
               /\ Claimed(e) = Len(user) + 1 /\ Len(user') = Len(user) + 1
               /\ user'[Len(user) + 1] = [email |-> e, onboarded |-> FALSE]
               /\ audit'[Len(user) + 1] = [k \in Events |-> 0]
<1> DEFINE row == [email |-> e, onboarded |-> FALSE]
           none == [k \in Events |-> 0]
<1>1. user \in Seq(UserRow) /\ audit \in Seq([Events -> Nat])
      /\ row \in UserRow /\ none \in [Events -> Nat]
  BY DEF Typed, UserRow
<1>2. /\ Len(user) \in Nat /\ DOMAIN user = 1..Len(user)
      /\ Len(audit) \in Nat /\ DOMAIN audit = 1..Len(audit)
  BY <1>1, LenProperties
<1>3. CASE Account(e) # {}
  <2>1. user' = user /\ audit' = audit
    BY <1>3 DEF InsertUser
  <2>2. Claimed(e) \in Account(e)
    BY <1>3 DEF Claimed
  <2>3. Account(e) \subseteq 1..Len(user)
    BY <1>2 DEF Account
  <2>4. Claimed(e) \in 1..Len(user)
    BY <2>2, <2>3
  <2>5. Len(user) <= Len(user') /\ Claimed(e) \in 1..Len(user')
    BY <1>2, <2>1, <2>4
  <2>6. QED
    BY <1>1, <1>3, <2>1, <2>2, <2>5, Zenon
<1>4. CASE Account(e) = {}
  <2>1. user' = Append(user, row) /\ audit' = Append(audit, none) /\ Claimed(e) = Len(user) + 1
    BY <1>4 DEF InsertUser, Claimed
  <2>2. /\ user' \in Seq(UserRow) /\ Len(user') = Len(user) + 1
        /\ \A u \in DOMAIN user : user'[u] = user[u]
        /\ user'[Len(user) + 1] = row
    BY ONLY <1>1, <2>1, Appended
  <2>3. /\ audit' \in Seq([Events -> Nat]) /\ Len(audit') = Len(audit) + 1
        /\ \A u \in DOMAIN audit : audit'[u] = audit[u]
        /\ audit'[Len(audit) + 1] = none
    BY ONLY <1>1, <2>1, Appended
  <2>4. QED
    BY <1>2, <1>4, <2>1, <2>2, <2>3
<1>5. QED
  BY <1>3, <1>4

LEMMA Recorded ==
  ASSUME Typed, NEW u \in DOMAIN audit, NEW events, Record(u, events)
  PROVE  /\ audit' \in Seq([Events -> Nat]) /\ Len(audit') = Len(audit)
         /\ \A v \in DOMAIN audit : v # u => audit'[v] = audit[v]
         /\ \A k \in Events : audit'[u][k] = IF k \in events THEN audit[u][k] + 1 ELSE audit[u][k]
<1> DEFINE row == [k \in Events |-> IF k \in events THEN audit[u][k] + 1 ELSE audit[u][k]]
<1>1. audit \in Seq([Events -> Nat])
  BY DEF Typed
<1>2. audit[u] \in [Events -> Nat]
  BY <1>1, ElementOfSeq, LenProperties
<1>3. row \in [Events -> Nat]
  BY <1>2
<1>4. audit' = [audit EXCEPT ![u] = row]
  BY DEF Record
<1>5. /\ audit' \in Seq([Events -> Nat]) /\ Len(audit') = Len(audit)
      /\ \A v \in DOMAIN audit : audit'[v] = IF v = u THEN row ELSE audit[v]
  BY ONLY <1>1, <1>3, <1>4, Updated
<1>6. QED
  BY <1>5

\* Revocation changes nothing of a session but its life.
LEMMA RevokedRows ==
  ASSUME Typed, NEW which, session' = Revoked(which)
  PROVE  /\ session' \in Seq(SessionRow) /\ Len(session') = Len(session)
         /\ \A s \in DOMAIN session :
               /\ session'[s].user = session[s].user /\ session'[s].from = session[s].from
               /\ session'[s].subject = session[s].subject /\ session'[s].sent = session[s].sent
               /\ session[s].life # "live" => session'[s].life # "live"
<1>1. session \in Seq(SessionRow)
  BY DEF Typed
<1>2. /\ Len(session) \in Nat /\ DOMAIN session = 1..Len(session)
      /\ \A s \in DOMAIN session : session[s] \in SessionRow
  BY <1>1, LenProperties, ElementOfSeq
<1>3. /\ DOMAIN session' = 1..Len(session)
      /\ \A s \in 1..Len(session) :
            /\ session'[s] \in SessionRow
            /\ session'[s].user = session[s].user /\ session'[s].from = session[s].from
            /\ session'[s].subject = session[s].subject /\ session'[s].sent = session[s].sent
            /\ session[s].life # "live" => session'[s].life # "live"
  BY <1>2 DEF Revoked, SessionRow
<1>4. session' \in [1..Len(session) -> SessionRow]
  BY <1>2, <1>3 DEF Revoked
<1>5. session' \in Seq(SessionRow) /\ Len(session') = Len(session)
  BY <1>2, <1>4
<1>6. QED
  BY <1>2, <1>3, <1>5

LEMMA RowTypes ==
  ASSUME Typed
  PROVE  /\ Len(user) \in Nat /\ DOMAIN user = 1..Len(user)
         /\ Len(audit) \in Nat /\ DOMAIN audit = 1..Len(audit)
         /\ Len(session) \in Nat /\ DOMAIN session = 1..Len(session)
         /\ Len(organization) \in Nat /\ DOMAIN organization = 1..Len(organization)
         /\ \A u \in DOMAIN user : user[u] \in UserRow
         /\ \A u \in DOMAIN audit : audit[u] \in [Events -> Nat]
         /\ \A s \in DOMAIN session : session[s] \in SessionRow
         /\ \A i \in DOMAIN organization : organization[i] \in Nat
         /\ \A q \in Requests : request[q] \in RequestRow
BY LenProperties, ElementOfSeq DEF Typed

\* To resolve a session changes nothing that is modelled of it.
LEMMA Untouched ==
  ASSUME Typed, NEW s \in DOMAIN session, Resolves(s)
  PROVE  Touched(s) = session
BY RowTypes DEF Resolves, Touched, SessionRow, Typed

LEMMA TypedStep ==
  ASSUME Typed, Ranges, [SignInNext]_signVars
  PROVE  Typed'
<1>0. /\ DOMAIN user = 1..Len(user) /\ Len(user) \in Nat
      /\ DOMAIN audit = 1..Len(audit) /\ Len(audit) = Len(user)
      /\ DOMAIN session = 1..Len(session) /\ Len(session) \in Nat
      /\ \A u \in DOMAIN user : user[u] \in UserRow
      /\ \A s \in DOMAIN session : session[s] \in SessionRow
      /\ \A q \in Requests : request[q] \in RequestRow
  BY RowTypes DEF Ranges
<1> USE <1>0
<1>1. ASSUME NEW l \in Links, NEW e \in Emails, RequestMagicLink(l, e) PROVE Typed'
  BY <1>1 DEF RequestMagicLink, Typed, Life
<1>2. ASSUME NEW o \in States, GoogleStart(o) PROVE Typed'
  BY <1>2 DEF GoogleStart, Typed, Life
<1>3. ASSUME Expire PROVE Typed'
  <2>1. ASSUME NEW l \in Links, link' = [link EXCEPT ![l].life = "expired"]
        PROVE  link' \in [Links -> [email: Emails \cup {None}, life: Life]]
    BY <2>1 DEF Typed, Life
  <2>2. ASSUME NEW o \in States, oidc' = [oidc EXCEPT ![o] = "expired"]
        PROVE  oidc' \in [States -> Life]
    BY <2>2 DEF Typed, Life
  <2>3. ASSUME NEW s \in DOMAIN session, session' = [session EXCEPT ![s].life = "expired"]
        PROVE  session' \in Seq(SessionRow)
    <3>1. [session[s] EXCEPT !.life = "expired"] \in SessionRow
      BY DEF SessionRow
    <3>2. QED
      BY <2>3, <3>1, Updated DEF Typed
  <2>4. QED
    BY <1>3, <2>1, <2>2, <2>3 DEF Expire, Typed
<1>4. ASSUME NEW q \in Requests, NEW l \in Links, NEW p \in Previous, Callback(q, l, p)
      PROVE  Typed'
  <2> DEFINE v == [Idle EXCEPT !.pc = "claim", !.email = link[l].email, !.from = l, !.previous = p]
  <2>1. p \in Nat
    BY DEF Previous, Tokens
  <2>2. v \in RequestRow
    BY <2>1 DEF Idle, RequestRow, SignInSteps, Credential, Typed
  <2>3. request' \in [Requests -> RequestRow]
    BY <1>4, <2>2, Gone DEF Callback
  <2>4. QED
    BY <1>4, <2>3 DEF Callback, Typed, Life
<1>5. ASSUME NEW q \in Requests, NEW o \in States, NEW g \in Subjects, NEW e \in Emails,
             NEW p \in Previous, GoogleCallback(q, o, g, e, p)
      PROVE  Typed'
  <2> DEFINE v == [Idle EXCEPT !.pc = "claimGoogle", !.email = e, !.subject = g, !.from = o,
                               !.previous = p]
  <2>1. p \in Nat
    BY DEF Previous, Tokens
  <2>2. v \in RequestRow
    BY <2>1 DEF Idle, RequestRow, SignInSteps, Credential
  <2>3. request' \in [Requests -> RequestRow]
    BY <1>5, <2>2, Gone DEF GoogleCallback
  <2>4. QED
    BY <1>5, <2>3 DEF GoogleCallback, Typed, Life
<1>6. ASSUME NEW q \in Requests, ClaimByEmail(q) PROVE Typed'
  <2> DEFINE e == request[q].email
             v == [request[q] EXCEPT !.pc = "create", !.user = Claimed(e), !.created = Account(e) = {}]
  <2>1. e \in Emails
    BY <1>6 DEF ClaimByEmail, At, Ranges, Fits
  <2>2. InsertUser(e) /\ Goes(q, v)
    BY <1>6 DEF ClaimByEmail
  <2>3. /\ user' \in Seq(UserRow) /\ audit' \in Seq([Events -> Nat])
        /\ Claimed(e) \in 1..Len(user') /\ Len(user') \in Nat
    <3> HIDE DEF e
    <3>1. QED
      BY <2>1, <2>2, Inserted, LenProperties DEF Ranges
  <2>4. v \in RequestRow
    <3>1. Claimed(e) \in Nat /\ request[q] \in RequestRow
      BY <2>3
    <3>2. QED
      BY <3>1 DEF RequestRow, SignInSteps
  <2>5. request' \in [Requests -> RequestRow]
    BY <2>2, <2>4, Gone
  <2>6. QED
    BY <1>6, <2>3, <2>5 DEF ClaimByEmail, Typed
<1>7. ASSUME NEW q \in Requests, ClaimGoogle(q) PROVE Typed'
  <2> DEFINE e == request[q].email
             g == request[q].subject
             v == [request[q] EXCEPT !.pc = "create",
                                     !.user = IF Durable(g) THEN linked[g] ELSE Claimed(e),
                                     !.created = ~Durable(g) /\ Account(e) = {}]
  <2>1. e \in Emails /\ g \in Subjects
    BY <1>7 DEF ClaimGoogle, At, Ranges, Fits
  <2>2. Goes(q, v)
    BY <1>7 DEF ClaimGoogle
  <2>3. CASE Durable(g)
    <3>1. UNCHANGED <<user, audit, linked>>
      BY <1>7, <2>3 DEF ClaimGoogle
    <3>2. v \in RequestRow
      BY <2>1, <2>3 DEF RequestRow, SignInSteps, Typed
    <3>3. QED
      BY <1>7, <2>2, <3>1, <3>2, Gone DEF ClaimGoogle, Typed
  <2>4. CASE ~Durable(g)
    <3>1. InsertUser(e) /\ linked' = [linked EXCEPT ![g] = Claimed(e)]
      BY <1>7, <2>4 DEF ClaimGoogle
    <3>2. /\ user' \in Seq(UserRow) /\ audit' \in Seq([Events -> Nat])
          /\ Claimed(e) \in 1..Len(user') /\ Len(user') \in Nat
      <4> HIDE DEF e
      <4>1. QED
        BY <2>1, <3>1, Inserted, LenProperties DEF Ranges
    <3>3. v \in RequestRow
      <4>1. Claimed(e) \in Nat /\ request[q] \in RequestRow
        BY <3>2
      <4>2. QED
        BY <2>4, <4>1 DEF RequestRow, SignInSteps
    <3>4. request' \in [Requests -> RequestRow]
      BY <2>2, <3>3, Gone
    <3>5. linked' \in [Subjects -> Nat]
      <4>1. Claimed(e) \in Nat
        BY <3>2
      <4>2. QED
        BY <3>1, <4>1 DEF Typed
    <3>6. QED
      BY <1>7, <3>2, <3>4, <3>5 DEF ClaimGoogle, Typed
  <2>5. QED
    BY <2>3, <2>4
<1>8. ASSUME NEW q \in Requests, CreateSession(q) PROVE Typed'
  <2> DEFINE row == [user |-> request[q].user, life |-> "live", sent |-> FALSE,
                     from |-> request[q].from, subject |-> request[q].subject]
             v == [request[q] EXCEPT !.pc = "list", !.session = Len(session) + 1]
  <2>1. row \in SessionRow
    BY <1>8 DEF CreateSession, At, Ranges, Fits, SessionRow, RequestRow
  <2>2. session' = Append(session, row) /\ Goes(q, v)
    BY <1>8 DEF CreateSession
  <2>3. session' \in Seq(SessionRow)
    BY <2>1, <2>2, Appended DEF Typed
  <2>4. v \in RequestRow
    <3>1. Len(session) + 1 \in Nat /\ request[q] \in RequestRow
      OBVIOUS
    <3>2. QED
      BY <3>1 DEF RequestRow, SignInSteps
  <2>5. request' \in [Requests -> RequestRow]
    BY <2>2, <2>4, Gone
  <2>6. QED
    BY <1>8, <2>3, <2>5 DEF CreateSession, Typed
<1>9. ASSUME NEW q \in Requests, ListMemberships(q) PROVE Typed'
  <2>1. PICK pc \in SignInSteps : GoesTo(q, pc)
    BY <1>9 DEF ListMemberships, AfterOrganization, SignInSteps
  <2>2. request' \in [Requests -> RequestRow]
    BY <2>1, GoneTo
  <2>3. QED
    BY <1>9, <2>2 DEF ListMemberships, Typed
<1>10. ASSUME NEW q \in Requests, CreateOrganization(q) PROVE Typed'
  <2> DEFINE u == request[q].user
  <2>1. PICK pc \in SignInSteps : GoesTo(q, pc)
    BY <1>10 DEF CreateOrganization, AfterOrganization, SignInSteps
  <2>2. request' \in [Requests -> RequestRow]
    BY <2>1, GoneTo
  <2>3. u \in DOMAIN audit /\ u \in Nat
    BY <1>10 DEF CreateOrganization, At, Ranges, Fits, Established, RequestRow
  <2>4. organization' \in Seq(Nat) /\ audit' \in Seq([Events -> Nat])
    <3>1. CASE HasFirst(u)
      BY <1>10, <3>1 DEF CreateOrganization, Typed
    <3>2. CASE ~HasFirst(u)
      <4>1. organization' = Append(organization, u) /\ Record(u, {"organization.created"})
        BY <1>10, <3>2 DEF CreateOrganization
      <4> HIDE DEF u
      <4>2. QED
        BY <2>3, <4>1, Appended, Recorded DEF Typed
    <3>3. QED
      BY <3>1, <3>2
  <2>5. QED
    BY <1>10, <2>2, <2>4 DEF CreateOrganization, Typed
<1>11. ASSUME NEW q \in Requests, ResolvePrevious(q) PROVE Typed'
  <2> DEFINE s == request[q].previous
  <2>1. PICK pc \in SignInSteps : GoesTo(q, pc)
    BY <1>11 DEF ResolvePrevious, SignInSteps
  <2>2. request' \in [Requests -> RequestRow]
    BY <2>1, GoneTo
  <2>3. session' = session
    <3>1. s \in DOMAIN session
      BY <1>11 DEF ResolvePrevious, At, Ranges, Fits, RequestRow
    <3>2. QED
      BY <1>11, <3>1, Untouched DEF ResolvePrevious
  <2>4. QED
    BY <1>11, <2>2, <2>3 DEF ResolvePrevious, Typed
<1>12. ASSUME NEW q \in Requests, RevokePrevious(q) PROVE Typed'
  <2>1. GoesTo(q, "audit") /\ session' = Revoked({request[q].previous})
    BY <1>12 DEF RevokePrevious
  <2>2. request' \in [Requests -> RequestRow]
    BY <2>1, GoneTo DEF SignInSteps
  <2>3. session' \in Seq(SessionRow)
    BY <2>1, RevokedRows
  <2>4. QED
    BY <1>12, <2>2, <2>3 DEF RevokePrevious, Typed
<1>13. ASSUME NEW q \in Requests, Answer(q) PROVE Typed'
  <2> DEFINE s == request[q].session
             row == [session[s] EXCEPT !.sent = TRUE]
             events == {"signed_in"} \cup IF request[q].created THEN {"first_signed_in"} ELSE {}
  <2>1. /\ Record(request[q].user, events) /\ session' = [session EXCEPT ![s] = row]
        /\ Goes(q, Idle)
    BY <1>13 DEF Answer
  <2>2. s \in DOMAIN session /\ request[q].user \in DOMAIN audit
    BY <1>13 DEF Answer, At, Ranges, Fits, Established, Sessioned, RequestRow
  <2>3. row \in SessionRow
    BY <2>2 DEF SessionRow
  <2>4. session' \in Seq(SessionRow)
    BY <2>1, <2>2, <2>3, Updated DEF Typed
  <2>5. audit' \in Seq([Events -> Nat])
    BY <2>1, <2>2, Recorded
  <2>6. request' \in [Requests -> RequestRow]
    BY <2>1, Gone DEF Idle, RequestRow
  <2>7. QED
    BY <1>13, <2>4, <2>5, <2>6 DEF Answer, Typed
<1>14. ASSUME NEW q \in Requests, Die(q) PROVE Typed'
  <2>1. request' \in [Requests -> RequestRow]
    BY <1>14, Gone DEF Die, Idle, RequestRow
  <2>2. QED
    BY <1>14, <2>1 DEF Die, Typed
<1>15. ASSUME NEW s \in DOMAIN session, Present(s) PROVE Typed'
  <2>1. session' = session
    BY <1>15, Untouched DEF Present, Visit
  <2>2. QED
    BY <1>15, <2>1 DEF Present, Typed
<1>16. ASSUME NEW s \in DOMAIN session, NEW which \in Ends(s), SignOut(s, which) PROVE Typed'
  <2>1. session' \in Seq(SessionRow)
    BY <1>16, RevokedRows DEF SignOut
  <2>2. QED
    BY <1>16, <2>1 DEF SignOut, Typed
<1>17. ASSUME NEW s \in DOMAIN session, CompleteOnboarding(s)
       PROVE  Typed'
  <2> DEFINE u == session[s].user
             row == [user[u] EXCEPT !.onboarded = TRUE]
  <2>1. session' = session
    BY <1>17, Untouched DEF CompleteOnboarding, Visit
  <2>2. u \in DOMAIN user /\ u \in DOMAIN audit
    BY DEF Ranges
  <2>3. row \in UserRow
    BY <2>2 DEF UserRow
  <2>4. user' \in Seq(UserRow) /\ audit' \in Seq([Events -> Nat])
    <3>1. CASE MayOnboard(u)
      <4>1. user' = [user EXCEPT ![u] = row] /\ Record(u, {"onboarding_completed"})
        BY <1>17, <3>1 DEF CompleteOnboarding
      <4>2. user' \in Seq(UserRow)
        BY <2>2, <2>3, <4>1, Updated DEF Typed
      <4>3. audit' \in Seq([Events -> Nat])
        <5> HIDE DEF u
        <5>1. QED
          BY <2>2, <4>1, Recorded
      <4>4. QED
        BY <4>2, <4>3
    <3>2. CASE ~MayOnboard(u)
      BY <1>17, <3>2 DEF CompleteOnboarding, Typed
    <3>3. QED
      BY <3>1, <3>2
  <2>5. QED
    BY <1>17, <2>1, <2>4 DEF CompleteOnboarding, Typed
<1>18. ASSUME UNCHANGED signVars PROVE Typed'
  BY <1>18 DEF signVars, Typed
<1>19. QED
  BY <1>1, <1>2, <1>3, <1>4, <1>5, <1>6, <1>7, <1>8, <1>9, <1>10, <1>11, <1>12, <1>13, <1>14,
     <1>15, <1>16, <1>17, <1>18, StepCases

-----------------------------------------------------------------------------
(* What stays *)

\* Accounts, sessions, first organizations and linked subjects are only added; a
\* session is of whom it was, and what is dead stays dead.
UsersStay ==
    /\ Len(user) <= Len(user')
    /\ \A u \in DOMAIN user : user'[u].email = user[u].email
SessionsStay ==
    /\ Len(session) <= Len(session')
    /\ \A s \in DOMAIN session :
          /\ session'[s].user = session[s].user /\ session'[s].from = session[s].from
          /\ session'[s].subject = session[s].subject
          /\ session[s].life # "live" => session'[s].life # "live"
OrganizationsStay ==
    /\ Len(organization) <= Len(organization')
    /\ \A i \in DOMAIN organization : organization'[i] = organization[i]
LinkedStay == \A g \in Subjects : linked[g] # 0 => linked'[g] = linked[g]

Stays == UsersStay /\ SessionsStay /\ OrganizationsStay /\ LinkedStay

LEMMA Kept ==
  ASSUME Typed
  PROVE  /\ UNCHANGED user => UsersStay
         /\ UNCHANGED session => SessionsStay
         /\ UNCHANGED organization => OrganizationsStay
         /\ UNCHANGED linked => LinkedStay
BY RowTypes DEF UsersStay, SessionsStay, OrganizationsStay, LinkedStay

LEMMA StaysStep ==
  ASSUME Typed, Ranges, [SignInNext]_signVars
  PROVE  Stays
<1>0. /\ DOMAIN user = 1..Len(user) /\ Len(user) \in Nat
      /\ DOMAIN session = 1..Len(session) /\ Len(session) \in Nat
      /\ Len(organization) \in Nat
      /\ \A u \in DOMAIN user : user[u] \in UserRow
      /\ \A s \in DOMAIN session : session[s] \in SessionRow
      /\ \A q \in Requests : request[q] \in RequestRow
  BY RowTypes
<1>a. ASSUME NEW e \in Emails, InsertUser(e) PROVE UsersStay
  BY <1>a, Inserted DEF Ranges, UsersStay
<1>b. ASSUME NEW which, session' = Revoked(which) PROVE SessionsStay
  BY <1>0, <1>b, RevokedRows DEF SessionsStay
<1>c. UNCHANGED <<user, session, organization, linked>> => Stays
  BY Kept DEF Stays
<1>1. ASSUME NEW l \in Links, NEW e \in Emails, RequestMagicLink(l, e) PROVE Stays
  BY <1>1, <1>c DEF RequestMagicLink
<1>2. ASSUME NEW o \in States, GoogleStart(o) PROVE Stays
  BY <1>2, <1>c DEF GoogleStart
<1>3. ASSUME Expire PROVE Stays
  <2>1. ASSUME NEW s \in DOMAIN session, session' = [session EXCEPT ![s].life = "expired"]
        PROVE  SessionsStay
    <3>1. [session[s] EXCEPT !.life = "expired"] \in SessionRow
      BY <1>0 DEF SessionRow
    <3>2. /\ Len(session') = Len(session)
          /\ \A t \in DOMAIN session :
                session'[t] = IF t = s THEN [session[s] EXCEPT !.life = "expired"] ELSE session[t]
      BY <2>1, <3>1, Updated DEF Typed
    <3>3. QED
      BY <1>0, <3>2 DEF SessionsStay, SessionRow
  <2>2. QED
    BY <1>3, <2>1, Kept DEF Expire, Stays
<1>4. ASSUME NEW q \in Requests, NEW l \in Links, NEW p \in Previous, Callback(q, l, p)
      PROVE  Stays
  BY <1>4, <1>c DEF Callback
<1>5. ASSUME NEW q \in Requests, NEW o \in States, NEW g \in Subjects, NEW e \in Emails,
             NEW p \in Previous, GoogleCallback(q, o, g, e, p)
      PROVE  Stays
  BY <1>5, <1>c DEF GoogleCallback
<1>6. ASSUME NEW q \in Requests, ClaimByEmail(q) PROVE Stays
  <2>1. request[q].email \in Emails
    BY <1>6 DEF ClaimByEmail, At, Ranges, Fits
  <2>2. QED
    BY <1>6, <1>a, <2>1, Kept DEF ClaimByEmail, Stays
<1>7. ASSUME NEW q \in Requests, ClaimGoogle(q) PROVE Stays
  <2>1. request[q].email \in Emails /\ request[q].subject \in Subjects
    BY <1>7 DEF ClaimGoogle, At, Ranges, Fits
  <2>2. UsersStay
    BY <1>7, <1>a, <2>1, Kept DEF ClaimGoogle
  <2>3. LinkedStay
    BY <1>7, <2>1 DEF ClaimGoogle, Durable, LinkedStay, Typed
  <2>4. QED
    BY <1>7, <2>2, <2>3, Kept DEF ClaimGoogle, Stays
<1>8. ASSUME NEW q \in Requests, CreateSession(q) PROVE Stays
  <2> DEFINE row == [user |-> request[q].user, life |-> "live", sent |-> FALSE,
                     from |-> request[q].from, subject |-> request[q].subject]
  <2>1. row \in SessionRow
    BY <1>0, <1>8 DEF CreateSession, At, Ranges, Fits, SessionRow, RequestRow
  <2>2. session' = Append(session, row)
    BY <1>8 DEF CreateSession
  <2>3. Len(session') = Len(session) + 1 /\ \A s \in DOMAIN session : session'[s] = session[s]
    BY <2>1, <2>2, Appended DEF Typed
  <2>4. SessionsStay
    BY <1>0, <2>3 DEF SessionsStay
  <2>5. QED
    BY <1>8, <2>4, Kept DEF CreateSession, Stays
<1>9. ASSUME NEW q \in Requests, ListMemberships(q) PROVE Stays
  BY <1>9, <1>c DEF ListMemberships
<1>10. ASSUME NEW q \in Requests, CreateOrganization(q) PROVE Stays
  <2>1. OrganizationsStay
    <3>1. CASE HasFirst(request[q].user)
      BY <1>10, <3>1, Kept DEF CreateOrganization
    <3>2. CASE ~HasFirst(request[q].user)
      <4>1. organization' = Append(organization, request[q].user) /\ request[q].user \in Nat
        BY <1>0, <1>10, <3>2 DEF CreateOrganization, RequestRow
      <4>2. /\ Len(organization') = Len(organization) + 1
            /\ \A i \in DOMAIN organization : organization'[i] = organization[i]
        BY <4>1, Appended DEF Typed
      <4>3. QED
        BY <1>0, <4>2 DEF OrganizationsStay
    <3>3. QED
      BY <3>1, <3>2
  <2>2. QED
    BY <1>10, <2>1, Kept DEF CreateOrganization, Stays
<1>11. ASSUME NEW q \in Requests, ResolvePrevious(q) PROVE Stays
  <2>1. request[q].previous \in DOMAIN session
    BY <1>0, <1>11 DEF ResolvePrevious, At, Ranges, Fits, RequestRow
  <2>2. session' = session
    BY <1>11, <2>1, Untouched DEF ResolvePrevious
  <2>3. QED
    BY <1>11, <1>c, <2>2 DEF ResolvePrevious
<1>12. ASSUME NEW q \in Requests, RevokePrevious(q) PROVE Stays
  BY <1>12, <1>b, Kept DEF RevokePrevious, Stays
<1>13. ASSUME NEW q \in Requests, Answer(q) PROVE Stays
  <2> DEFINE s == request[q].session
             row == [session[s] EXCEPT !.sent = TRUE]
  <2>1. s \in DOMAIN session
    BY <1>0, <1>13 DEF Answer, At, Ranges, Fits, Sessioned, Established, RequestRow
  <2>2. row \in SessionRow
    BY <1>0, <2>1 DEF SessionRow
  <2>3. session' = [session EXCEPT ![s] = row]
    BY <1>13 DEF Answer
  <2>4. /\ Len(session') = Len(session)
        /\ \A t \in DOMAIN session : session'[t] = IF t = s THEN row ELSE session[t]
    BY <2>1, <2>2, <2>3, Updated DEF Typed
  <2>5. SessionsStay
    BY <1>0, <2>1, <2>4 DEF SessionsStay, SessionRow
  <2>6. QED
    BY <1>13, <2>5, Kept DEF Answer, Stays
<1>14. ASSUME NEW q \in Requests, Die(q) PROVE Stays
  BY <1>14, <1>c DEF Die
<1>15. ASSUME NEW s \in DOMAIN session, Present(s) PROVE Stays
  BY <1>15, <1>c, Untouched DEF Present, Visit
<1>16. ASSUME NEW s \in DOMAIN session, NEW which \in Ends(s), SignOut(s, which) PROVE Stays
  BY <1>16, <1>b, Kept DEF SignOut, Stays
<1>17. ASSUME NEW s \in DOMAIN session, CompleteOnboarding(s)
       PROVE  Stays
  <2> DEFINE u == session[s].user
             row == [user[u] EXCEPT !.onboarded = TRUE]
  <2>1. u \in DOMAIN user
    BY <1>0 DEF Ranges
  <2>2. UsersStay
    <3>1. CASE MayOnboard(u)
      <4>1. user' = [user EXCEPT ![u] = row]
        BY <1>17, <3>1 DEF CompleteOnboarding
      <4>2. row \in UserRow /\ row.email = user[u].email
        BY <1>0, <2>1 DEF UserRow
      <4>3. /\ Len(user') = Len(user)
            /\ \A v \in DOMAIN user : user'[v] = IF v = u THEN row ELSE user[v]
        <5> HIDE DEF u, row
        <5>1. user \in Seq(UserRow)
          BY DEF Typed
        <5>2. QED
          BY <2>1, <4>1, <4>2, <5>1, Updated
      <4>4. \A v \in DOMAIN user : user'[v].email = user[v].email
        <5> HIDE DEF u, row
        <5>1. QED
          BY <4>2, <4>3
      <4>5. QED
        BY <1>0, <4>3, <4>4 DEF UsersStay
    <3>2. CASE ~MayOnboard(u)
      BY <1>17, <3>2, Kept DEF CompleteOnboarding
    <3>3. QED
      BY <3>1, <3>2
  <2>3. session' = session
    BY <1>17, Untouched DEF CompleteOnboarding, Visit
  <2>4. QED
    BY <1>17, <2>2, <2>3, Kept DEF CompleteOnboarding, Stays
<1>18. ASSUME UNCHANGED signVars PROVE Stays
  BY <1>18, <1>c DEF signVars
<1>19. QED
  BY <1>1, <1>2, <1>3, <1>4, <1>5, <1>6, <1>7, <1>8, <1>9, <1>10, <1>11, <1>12, <1>13, <1>14,
     <1>15, <1>16, <1>17, <1>18, StepCases

-----------------------------------------------------------------------------
(* Ranges *)

\* A request that does not move still fits, whatever else was added.
LEMMA FitsStays ==
  ASSUME Typed, Typed', Stays, NEW q \in Requests, Fits(q), request'[q] = request[q]
  PROVE  Fits(q)'
<1>1. /\ Len(user) \in Nat /\ Len(user') \in Nat /\ Len(user) <= Len(user')
      /\ Len(session) \in Nat /\ Len(session') \in Nat /\ Len(session) <= Len(session')
      /\ DOMAIN session = 1..Len(session) /\ request[q] \in RequestRow
      /\ \A s \in DOMAIN session : session'[s].user = session[s].user
  BY RowTypes, LenProperties DEF Typed, Stays, UsersStay, SessionsStay
<1>2. request[q].pc \in Sessioned =>
         /\ request[q].session \in DOMAIN session
         /\ session[request[q].session].user = request[q].user
  BY <1>1 DEF Fits, RequestRow
<1>3. QED
  BY <1>1, <1>2 DEF Fits, RequestRow

LEMMA RangesFrom ==
  ASSUME Typed, Typed', Ranges, Stays,
         UNCHANGED link,
         Len(audit') = Len(user'),
         \A g \in Subjects : linked'[g] = linked[g] \/ linked'[g] <= Len(user'),
         \A i \in DOMAIN organization' : i \notin DOMAIN organization => organization'[i] \in 1..Len(user'),
         \A s \in DOMAIN session' : s \notin DOMAIN session => session'[s].user \in 1..Len(user'),
         \A q \in Requests : request'[q] = request[q] \/ Fits(q)'
  PROVE  Ranges'
<1>1. /\ Len(user) \in Nat /\ Len(user') \in Nat /\ Len(user) <= Len(user')
      /\ linked \in [Subjects -> Nat] /\ linked' \in [Subjects -> Nat]
  BY LenProperties DEF Typed, Stays, UsersStay
<1>2. \A q \in Requests : Fits(q)'
  BY FitsStays DEF Ranges
<1>3. \A g \in Subjects : linked'[g] <= Len(user')
  BY <1>1 DEF Ranges
<1>4. \A i \in DOMAIN organization' : organization'[i] \in 1..Len(user')
  BY <1>1 DEF Ranges, Stays, OrganizationsStay
<1>5. \A s \in DOMAIN session' : session'[s].user \in 1..Len(user')
  BY <1>1 DEF Ranges, Stays, SessionsStay
<1>6. QED
  BY <1>2, <1>3, <1>4, <1>5 DEF Ranges

\* Steps that move at most one request, to one that fits, and add nothing else.
LEMMA RangesMoved ==
  ASSUME Typed, Typed', Ranges, Stays, NEW q \in Requests, Fits(q)',
         \A p \in Requests : p # q => request'[p] = request[p],
         UNCHANGED <<link, linked, organization>>,
         Len(session') = Len(session), Len(audit') = Len(audit), Len(user') = Len(user)
  PROVE  Ranges'
<1>1. DOMAIN session' = DOMAIN session
  BY LenProperties DEF Typed
<1>2. QED
  BY <1>1, RangesFrom DEF Ranges

LEMMA RangesStep ==
  ASSUME Typed, Ranges, [SignInNext]_signVars
  PROVE  Ranges'
<1>0. /\ DOMAIN user = 1..Len(user) /\ Len(user) \in Nat /\ Len(user') \in Nat
      /\ DOMAIN audit = 1..Len(audit) /\ Len(audit) = Len(user)
      /\ DOMAIN session = 1..Len(session) /\ Len(session) \in Nat /\ Len(session') \in Nat
      /\ DOMAIN session' = 1..Len(session')
      /\ DOMAIN organization = 1..Len(organization) /\ Len(organization) \in Nat
      /\ \A s \in DOMAIN session : session[s] \in SessionRow
      /\ \A q \in Requests : request[q] \in RequestRow
      /\ Typed' /\ Stays
  BY RowTypes, TypedStep, StaysStep, LenProperties DEF Ranges, Typed
<1>a. ASSUME NEW q \in Requests, Goes(q, Idle)
      PROVE  Fits(q)' /\ \A p \in Requests : p # q => request'[p] = request[p]
  <2>1. request'[q] = Idle /\ \A p \in Requests : p # q => request'[p] = request[p]
    BY <1>0, <1>a DEF Goes, Typed
  <2>2. QED
    BY <1>0, <2>1 DEF Fits, Idle, Established, Sessioned
<1>b. UNCHANGED <<link, user, audit, linked, organization, session, request>> => Ranges'
  BY RangesFrom, <1>0
<1>1. ASSUME NEW l \in Links, NEW e \in Emails, RequestMagicLink(l, e) PROVE Ranges'
  <2>1. \A k \in Links : link'[k].life # "absent" => link'[k].email \in Emails
    BY <1>1 DEF RequestMagicLink, Ranges, Typed
  <2>2. QED
    BY <1>1, <2>1 DEF RequestMagicLink, Ranges, Fits
<1>2. ASSUME NEW o \in States, GoogleStart(o) PROVE Ranges'
  BY <1>2, <1>b DEF GoogleStart
<1>3. ASSUME Expire PROVE Ranges'
  <2>1. ASSUME NEW l \in Links, link[l].life = "good",
               link' = [link EXCEPT ![l].life = "expired"], UNCHANGED <<oidc, session>>
        PROVE  Ranges'
    <3>1. \A k \in Links : link'[k].life # "absent" => link'[k].email \in Emails
      BY <2>1 DEF Ranges, Typed
    <3>2. QED
      BY <1>3, <2>1, <3>1 DEF Expire, Ranges, Fits
  <2>2. ASSUME NEW o \in States, UNCHANGED <<link, session>> PROVE Ranges'
    BY <1>3, <2>2, <1>b DEF Expire
  <2>3. ASSUME NEW s \in DOMAIN session, UNCHANGED link,
               session' = [session EXCEPT ![s].life = "expired"]
        PROVE  Ranges'
    <3>1. DOMAIN session' = DOMAIN session
      BY <2>3
    <3>2. QED
      BY <1>0, <1>3, <2>3, <3>1, RangesFrom DEF Expire
  <2>4. QED
    BY <1>3, <2>1, <2>2, <2>3 DEF Expire
<1>4. ASSUME NEW q \in Requests, NEW l \in Links, NEW p \in Previous, Callback(q, l, p)
      PROVE  Ranges'
  <2> DEFINE v == [Idle EXCEPT !.pc = "claim", !.email = link[l].email, !.from = l, !.previous = p]
  <2>1. p <= Len(session) /\ link[l].email \in Emails
    BY <1>0, <1>4 DEF Callback, Consumable, Previous, Tokens, Ranges
  <2>2. request'[q] = v /\ \A x \in Requests : x # q => request'[x] = request[x]
    BY <1>4 DEF Callback, Goes, Typed
  <2>3. UNCHANGED <<user, audit, linked, organization, session>>
    BY <1>4 DEF Callback
  <2>4. Fits(q)'
    BY <1>0, <2>1, <2>2, <2>3 DEF Fits, Idle, Established, Sessioned, Credential
  <2>5. \A k \in Links : link'[k].life # "absent" => link'[k].email \in Emails
    BY <1>4 DEF Callback, Consumable, Ranges, Typed
  <2>6. \A x \in Requests : Fits(x)'
    BY <1>0, <2>2, <2>4, FitsStays DEF Ranges
  <2>7. QED
    BY <2>3, <2>5, <2>6 DEF Ranges
<1>5. ASSUME NEW q \in Requests, NEW o \in States, NEW g \in Subjects, NEW e \in Emails,
             NEW p \in Previous, GoogleCallback(q, o, g, e, p)
      PROVE  Ranges'
  <2> DEFINE v == [Idle EXCEPT !.pc = "claimGoogle", !.email = e, !.subject = g, !.from = o,
                               !.previous = p]
  <2>1. p <= Len(session)
    BY <1>0 DEF Previous, Tokens
  <2>2. request'[q] = v /\ \A x \in Requests : x # q => request'[x] = request[x]
    BY <1>5 DEF GoogleCallback, Goes, Typed
  <2>3. UNCHANGED <<link, user, audit, linked, organization, session>>
    BY <1>5 DEF GoogleCallback
  <2>4. Fits(q)'
    BY <1>0, <2>1, <2>2, <2>3 DEF Fits, Idle, Established, Sessioned, Credential
  <2>5. QED
    BY <1>0, <2>2, <2>3, <2>4, RangesMoved
<1>6. ASSUME NEW q \in Requests, ClaimByEmail(q) PROVE Ranges'
  <2> DEFINE e == request[q].email
             v == [request[q] EXCEPT !.pc = "create", !.user = Claimed(e), !.created = Account(e) = {}]
  <2>1. request[q].email \in Emails /\ request[q].pc = "claim"
    BY <1>6 DEF ClaimByEmail, At, Ranges, Fits
  <2>2. InsertUser(request[q].email)
    BY <1>6 DEF ClaimByEmail
  <2>3. Len(audit') = Len(user') /\ Claimed(request[q].email) \in 1..Len(user')
    BY <1>0, <2>1, <2>2, Inserted
  <2>4. request'[q] = v /\ \A x \in Requests : x # q => request'[x] = request[x]
    BY <1>6 DEF ClaimByEmail, Goes, Typed
  <2>5. /\ request'[q].pc = "create" /\ request'[q].user = Claimed(request[q].email)
        /\ request'[q].from = request[q].from /\ request'[q].session = request[q].session
        /\ request'[q].previous = request[q].previous
    BY <1>0, <2>4 DEF RequestRow
  <2>6. UNCHANGED <<link, linked, organization, session>>
    BY <1>6 DEF ClaimByEmail
  <2>7. Fits(q)'
    BY <1>0, <2>1, <2>3, <2>5, <2>6 DEF Fits, Established, Sessioned, Ranges
  <2>8. QED
    BY <1>0, <2>3, <2>4, <2>6, <2>7, RangesFrom
<1>7. ASSUME NEW q \in Requests, ClaimGoogle(q) PROVE Ranges'
  <2> DEFINE e == request[q].email
             g == request[q].subject
             v == [request[q] EXCEPT !.pc = "create",
                                     !.user = IF Durable(g) THEN linked[g] ELSE Claimed(e),
                                     !.created = ~Durable(g) /\ Account(e) = {}]
  <2>1. request[q].email \in Emails /\ request[q].subject \in Subjects /\ request[q].pc = "claimGoogle"
    BY <1>7 DEF ClaimGoogle, At, Ranges, Fits
  <2>2. request'[q] = v /\ \A x \in Requests : x # q => request'[x] = request[x]
    BY <1>7 DEF ClaimGoogle, Goes, Typed
  <2>3. /\ request'[q].pc = "create"
        /\ request'[q].user = IF Durable(g) THEN linked[g] ELSE Claimed(e)
        /\ request'[q].from = request[q].from /\ request'[q].session = request[q].session
        /\ request'[q].previous = request[q].previous
    BY <1>0, <2>2 DEF RequestRow
  <2>4. UNCHANGED <<link, organization, session>>
    BY <1>7 DEF ClaimGoogle
  <2>5. /\ Len(audit') = Len(user') /\ request'[q].user \in 1..Len(user')
        /\ \A x \in Subjects : linked'[x] = linked[x] \/ linked'[x] <= Len(user')
    <3>1. CASE Durable(g)
      <4>1. UNCHANGED <<user, audit, linked>> /\ request'[q].user = linked[g]
        BY <1>7, <2>3, <3>1 DEF ClaimGoogle
      <4>2. linked[g] \in 1..Len(user)
        BY <2>1, <3>1, <1>0 DEF Durable, Ranges, Typed
      <4>3. QED
        BY <1>0, <4>1, <4>2
    <3>2. CASE ~Durable(g)
      <4>1. /\ InsertUser(request[q].email) /\ request'[q].user = Claimed(request[q].email)
            /\ linked' = [linked EXCEPT ![g] = Claimed(request[q].email)]
        BY <1>7, <2>3, <3>2 DEF ClaimGoogle
      <4>2. Len(audit') = Len(user') /\ Claimed(request[q].email) \in 1..Len(user')
        BY <1>0, <2>1, <4>1, Inserted
      <4>3. \A x \in Subjects : linked'[x] = linked[x] \/ linked'[x] = Claimed(request[q].email)
        BY <4>1 DEF Typed
      <4>4. QED
        BY <1>0, <4>1, <4>2, <4>3
    <3>3. QED
      BY <3>1, <3>2
  <2>6. Fits(q)'
    BY <1>0, <2>1, <2>3, <2>4, <2>5 DEF Fits, Established, Sessioned, Ranges
  <2>7. QED
    BY <1>0, <2>2, <2>4, <2>5, <2>6, RangesFrom
<1>8. ASSUME NEW q \in Requests, CreateSession(q) PROVE Ranges'
  <2> DEFINE row == [user |-> request[q].user, life |-> "live", sent |-> FALSE,
                     from |-> request[q].from, subject |-> request[q].subject]
             v == [request[q] EXCEPT !.pc = "list", !.session = Len(session) + 1]
  <2>1. row \in SessionRow /\ row.user = request[q].user /\ request[q].user \in 1..Len(user)
    BY <1>0, <1>8 DEF CreateSession, At, Ranges, Fits, SessionRow, RequestRow, Established
  <2>2. session' = Append(session, row)
    BY <1>8 DEF CreateSession
  <2>3. /\ Len(session') = Len(session) + 1 /\ session'[Len(session) + 1] = row
    BY <2>1, <2>2, Appended DEF Typed
  <2>4. request'[q] = v /\ \A x \in Requests : x # q => request'[x] = request[x]
    BY <1>8 DEF CreateSession, Goes, Typed
  <2>5. /\ request'[q].pc = "list" /\ request'[q].user = request[q].user
        /\ request'[q].from = request[q].from /\ request'[q].session = Len(session) + 1
        /\ request'[q].previous = request[q].previous
    BY <1>0, <2>4 DEF RequestRow
  <2>6. UNCHANGED <<link, user, audit, linked, organization>>
    BY <1>8 DEF CreateSession
  <2>7. request[q].previous \in Nat /\ request[q].previous <= Len(session) /\ request[q].from \in Credential
    BY <1>0, <1>8 DEF CreateSession, At, Ranges, Fits, RequestRow
  <2>8. session'[Len(session) + 1].user = request[q].user
    BY <2>1, <2>3
  <2>9. Fits(q)'
    BY <1>0, <2>1, <2>3, <2>5, <2>6, <2>7, <2>8 DEF Fits, Established, Sessioned
  <2>10. \A s \in DOMAIN session' : s \notin DOMAIN session => session'[s].user \in 1..Len(user')
    BY <1>0, <2>1, <2>3, <2>6, <2>8
  <2>11. QED
    BY <1>0, <2>4, <2>6, <2>9, <2>10, RangesFrom
<1>c. ASSUME NEW q \in Requests, NEW pc \in Sessioned, GoesTo(q, pc),
             Fits(q), request[q].pc \in Sessioned, Len(session') = Len(session),
             pc \in {"resolve", "revoke"} => request[q].previous # 0, UNCHANGED user
      PROVE  Fits(q)' /\ \A p \in Requests : p # q => request'[p] = request[p]
  <2>1. /\ request'[q] = [request[q] EXCEPT !.pc = pc]
        /\ \A p \in Requests : p # q => request'[p] = request[p]
    BY <1>c DEF GoesTo, Typed
  <2>2. /\ request'[q].pc = pc /\ request'[q].user = request[q].user
        /\ request'[q].from = request[q].from /\ request'[q].session = request[q].session
        /\ request'[q].previous = request[q].previous
    BY <1>0, <2>1 DEF RequestRow
  <2>3. request[q].session \in DOMAIN session /\ session[request[q].session].user = request[q].user
    BY <1>0, <1>c DEF Fits, RequestRow
  <2>4. session'[request[q].session].user = request[q].user
    BY <1>0, <2>3 DEF Stays, SessionsStay
  <2>5. QED
    BY <1>0, <1>c, <2>1, <2>2, <2>3, <2>4 DEF Fits, Established, Sessioned, RequestRow
<1>9. ASSUME NEW q \in Requests, ListMemberships(q) PROVE Ranges'
  <2>1. PICK pc \in Sessioned : GoesTo(q, pc) /\ (pc \in {"resolve", "revoke"} => request[q].previous # 0)
    BY <1>9 DEF ListMemberships, AfterOrganization, Sessioned, Established
  <2>2. request[q].pc \in Sessioned /\ Fits(q)
    BY <1>9 DEF ListMemberships, At, Sessioned, Established, Ranges
  <2>3. UNCHANGED <<link, user, audit, linked, organization, session>>
    BY <1>9 DEF ListMemberships
  <2>4. QED
    BY <1>0, <1>c, <2>1, <2>2, <2>3, RangesMoved
<1>10. ASSUME NEW q \in Requests, CreateOrganization(q) PROVE Ranges'
  <2>1. PICK pc \in Sessioned : GoesTo(q, pc) /\ (pc \in {"resolve", "revoke"} => request[q].previous # 0)
    BY <1>10 DEF CreateOrganization, AfterOrganization, Sessioned, Established
  <2>2. request[q].pc \in Sessioned /\ Fits(q)
    BY <1>10 DEF CreateOrganization, At, Sessioned, Established, Ranges
  <2>3. UNCHANGED <<link, user, linked, session>>
    BY <1>10 DEF CreateOrganization
  <2>4. Fits(q)' /\ \A p \in Requests : p # q => request'[p] = request[p]
    BY <1>c, <2>1, <2>2, <2>3
  <2>5. request[q].user \in 1..Len(user) /\ request[q].user \in Nat
    BY <1>0, <2>2 DEF Fits, Established, Sessioned, RequestRow
  <2>6. CASE HasFirst(request[q].user)
    BY <1>0, <1>10, <2>3, <2>4, <2>6, RangesMoved DEF CreateOrganization
  <2>7. CASE ~HasFirst(request[q].user)
    <3>1. /\ organization' = Append(organization, request[q].user)
          /\ Record(request[q].user, {"organization.created"})
      BY <1>10, <2>7 DEF CreateOrganization
    <3>2. /\ DOMAIN organization' = 1..(Len(organization) + 1)
          /\ organization'[Len(organization) + 1] = request[q].user
      BY <2>5, <3>1, Appended DEF Typed
    <3>3. Len(audit') = Len(audit)
      BY <1>0, <2>5, <3>1, Recorded
    <3>4. \A i \in DOMAIN organization' : i \notin DOMAIN organization =>
              organization'[i] \in 1..Len(user')
      BY <1>0, <2>3, <2>5, <3>2
    <3>5. QED
      BY <1>0, <2>3, <2>4, <3>3, <3>4, RangesFrom
  <2>8. QED
    BY <2>6, <2>7
<1>11. ASSUME NEW q \in Requests, ResolvePrevious(q) PROVE Ranges'
  <2>1. request[q].pc \in Sessioned /\ Fits(q) /\ request[q].previous # 0
    BY <1>11 DEF ResolvePrevious, At, Sessioned, Established, Ranges, Fits
  <2>2. PICK pc \in Sessioned : GoesTo(q, pc)
    BY <1>11 DEF ResolvePrevious, Sessioned, Established
  <2>3. request[q].previous \in DOMAIN session
    BY <1>0, <2>1 DEF Fits, RequestRow
  <2>4. session' = session
    BY <1>11, <2>3, Untouched DEF ResolvePrevious
  <2>5. UNCHANGED <<link, user, audit, linked, organization>>
    BY <1>11 DEF ResolvePrevious
  <2>6. QED
    BY <1>0, <1>c, <2>1, <2>2, <2>4, <2>5, RangesMoved
<1>12. ASSUME NEW q \in Requests, RevokePrevious(q) PROVE Ranges'
  <2>1. request[q].pc \in Sessioned /\ Fits(q) /\ GoesTo(q, "audit") /\ "audit" \in Sessioned
    BY <1>12 DEF RevokePrevious, At, Sessioned, Established, Ranges
  <2>2. Len(session') = Len(session)
    BY <1>12, RevokedRows DEF RevokePrevious
  <2>3. UNCHANGED <<link, user, audit, linked, organization>>
    BY <1>12 DEF RevokePrevious
  <2>4. QED
    BY <1>0, <1>c, <2>1, <2>2, <2>3, RangesMoved
<1>13. ASSUME NEW q \in Requests, Answer(q) PROVE Ranges'
  <2>1. request[q].user \in DOMAIN audit
    BY <1>0, <1>13 DEF Answer, At, Ranges, Fits, Established, RequestRow
  <2>2. /\ UNCHANGED <<link, user, linked, organization>> /\ Goes(q, Idle)
        /\ \E events : Record(request[q].user, events)
        /\ session' = [session EXCEPT ![request[q].session].sent = TRUE]
    BY <1>13 DEF Answer
  <2>3. Len(audit') = Len(audit)
    BY <2>1, <2>2, Recorded
  <2>4. DOMAIN session' = DOMAIN session
    BY <2>2
  <2>5. Len(session') = Len(session)
    <3>1. 1..Len(session') = 1..Len(session)
      BY <1>0, <2>4
    <3>2. QED
      BY <1>0, <3>1, SameEnd
  <2>6. QED
    BY <1>0, <1>a, <2>2, <2>3, <2>5, RangesMoved
<1>14. ASSUME NEW q \in Requests, Die(q) PROVE Ranges'
  BY <1>0, <1>14, <1>a, RangesMoved DEF Die
<1>15. ASSUME NEW s \in DOMAIN session, Present(s) PROVE Ranges'
  BY <1>15, <1>b, Untouched DEF Present, Visit
<1>16. ASSUME NEW s \in DOMAIN session, NEW which \in Ends(s), SignOut(s, which) PROVE Ranges'
  <2>1. DOMAIN session' = DOMAIN session
    BY <1>16 DEF SignOut, Revoked
  <2>2. UNCHANGED <<link, user, audit, linked, organization, request>>
    BY <1>16 DEF SignOut
  <2>3. QED
    BY <1>0, <2>1, <2>2, RangesFrom
<1>17. ASSUME NEW s \in DOMAIN session, CompleteOnboarding(s)
       PROVE  Ranges'
  <2>1. session' = session /\ session[s].user \in DOMAIN audit
    BY <1>0, <1>17, Untouched DEF CompleteOnboarding, Visit, Ranges
  <2>2. UNCHANGED <<link, linked, organization, request>>
    BY <1>17 DEF CompleteOnboarding
  <2>3. Len(user') = Len(user) /\ Len(audit') = Len(audit)
    <3>1. CASE MayOnboard(session[s].user)
      <4>1. DOMAIN user' = DOMAIN user /\ Record(session[s].user, {"onboarding_completed"})
        BY <1>17, <3>1 DEF CompleteOnboarding
      <4>2. DOMAIN user' = 1..Len(user')
        BY <1>0, LenProperties DEF Typed
      <4>3. QED
        BY <1>0, <2>1, <4>1, <4>2, Recorded
    <3>2. CASE ~MayOnboard(session[s].user)
      BY <1>17, <3>2 DEF CompleteOnboarding
    <3>3. QED
      BY <3>1, <3>2
  <2>4. QED
    BY <1>0, <2>1, <2>2, <2>3, RangesFrom
<1>18. ASSUME UNCHANGED signVars PROVE Ranges'
  BY <1>18, <1>b DEF signVars
<1>19. QED
  BY <1>1, <1>2, <1>3, <1>4, <1>5, <1>6, <1>7, <1>8, <1>9, <1>10, <1>11, <1>12, <1>13, <1>14,
     <1>15, <1>16, <1>17, <1>18, StepCases

-----------------------------------------------------------------------------
(* What a step does to a request and to the sessions *)

Redeems(q) ==
    /\ request[q].pc = "idle"
    /\ request'[q].pc \in {"claim", "claimGoogle"} /\ ~request'[q].created
    /\ request'[q].pc = "claim" => request'[q].subject = None
Claims(q) == ClaimByEmail(q) \/ ClaimGoogle(q)
Advances(q) ==
    /\ request[q].pc \in Established /\ request'[q].pc \in Sessioned
    /\ request'[q].user = request[q].user /\ request'[q].subject = request[q].subject
    /\ request'[q].from = request[q].from /\ request'[q].created = request[q].created

LEMMA RequestsStep ==
  ASSUME Typed, Ranges, [SignInNext]_signVars, NEW q \in Requests
  PROVE  \/ request'[q] = request[q] \/ request'[q] = Idle
         \/ Redeems(q) \/ Claims(q) \/ Advances(q)
<1> DEFINE Goal == \/ request'[q] = request[q] \/ request'[q] = Idle
                   \/ Redeems(q) \/ Claims(q) \/ Advances(q)
<1>0. request[q] \in RequestRow /\ request \in [Requests -> RequestRow]
  BY DEF Typed
<1>a. ASSUME NEW p \in Requests, NEW v, Goes(p, v) PROVE request'[q] = IF q = p THEN v ELSE request[q]
  BY <1>0, <1>a DEF Goes
<1>b. ASSUME NEW p \in Requests, NEW pc \in Sessioned, GoesTo(p, pc), request[p].pc \in Established
      PROVE  Goal
  <2>1. request'[q] = IF q = p THEN [request[q] EXCEPT !.pc = pc] ELSE request[q]
    BY <1>0, <1>b DEF GoesTo
  <2>2. QED
    BY <1>0, <1>b, <2>1 DEF Advances, RequestRow
<1>1. ASSUME NEW l \in Links, NEW e \in Emails, RequestMagicLink(l, e) PROVE Goal
  BY <1>1 DEF RequestMagicLink
<1>2. ASSUME NEW o \in States, GoogleStart(o) PROVE Goal
  BY <1>2 DEF GoogleStart
<1>3. ASSUME Expire PROVE Goal
  BY <1>3 DEF Expire
<1>4. ASSUME NEW p \in Requests, NEW l \in Links, NEW x \in Previous, Callback(p, l, x) PROVE Goal
  <2> DEFINE v == [Idle EXCEPT !.pc = "claim", !.email = link[l].email, !.from = l, !.previous = x]
  <2>1. Goes(p, v) /\ request[p].pc = "idle"
    BY <1>4 DEF Callback, At
  <2>2. v.pc = "claim" /\ ~v.created /\ v.subject = None
    BY DEF Idle
  <2> HIDE DEF v
  <2>3. request'[q] = IF q = p THEN v ELSE request[q]
    BY <1>a, <2>1
  <2>4. QED
    BY <2>1, <2>2, <2>3 DEF Redeems
<1>5. ASSUME NEW p \in Requests, NEW o \in States, NEW g \in Subjects, NEW e \in Emails,
             NEW x \in Previous, GoogleCallback(p, o, g, e, x)
      PROVE  Goal
  <2> DEFINE v == [Idle EXCEPT !.pc = "claimGoogle", !.email = e, !.subject = g, !.from = o,
                               !.previous = x]
  <2>1. Goes(p, v) /\ request[p].pc = "idle"
    BY <1>5 DEF GoogleCallback, At
  <2>2. v.pc = "claimGoogle" /\ ~v.created
    BY DEF Idle
  <2> HIDE DEF v
  <2>3. request'[q] = IF q = p THEN v ELSE request[q]
    BY <1>a, <2>1
  <2>4. QED
    BY <2>1, <2>2, <2>3 DEF Redeems
<1>6. ASSUME NEW p \in Requests, ClaimByEmail(p) PROVE Goal
  BY <1>6, <1>a DEF ClaimByEmail, Claims
<1>7. ASSUME NEW p \in Requests, ClaimGoogle(p) PROVE Goal
  BY <1>7, <1>a DEF ClaimGoogle, Claims
<1>8. ASSUME NEW p \in Requests, CreateSession(p) PROVE Goal
  <2> DEFINE v == [request[p] EXCEPT !.pc = "list", !.session = Len(session) + 1]
  <2>1. Goes(p, v) /\ request[p].pc = "create"
    BY <1>8 DEF CreateSession, At
  <2>2. request'[q] = IF q = p THEN v ELSE request[q]
    BY <1>a, <2>1
  <2>3. QED
    BY <1>0, <2>1, <2>2 DEF Advances, RequestRow, Established, Sessioned
<1>9. ASSUME NEW p \in Requests, ListMemberships(p) PROVE Goal
  <2>1. PICK pc \in Sessioned : GoesTo(p, pc) /\ request[p].pc \in Established
    BY <1>9 DEF ListMemberships, AfterOrganization, At, Sessioned, Established
  <2>2. QED
    BY <1>b, <2>1
<1>10. ASSUME NEW p \in Requests, CreateOrganization(p) PROVE Goal
  <2>1. PICK pc \in Sessioned : GoesTo(p, pc) /\ request[p].pc \in Established
    BY <1>10 DEF CreateOrganization, AfterOrganization, At, Sessioned, Established
  <2>2. QED
    BY <1>b, <2>1
<1>11. ASSUME NEW p \in Requests, ResolvePrevious(p) PROVE Goal
  <2>1. PICK pc \in Sessioned : GoesTo(p, pc) /\ request[p].pc \in Established
    BY <1>11 DEF ResolvePrevious, At, Sessioned, Established
  <2>2. QED
    BY <1>b, <2>1
<1>12. ASSUME NEW p \in Requests, RevokePrevious(p) PROVE Goal
  <2>1. GoesTo(p, "audit") /\ request[p].pc \in Established /\ "audit" \in Sessioned
    BY <1>12 DEF RevokePrevious, At, Sessioned, Established
  <2>2. QED
    BY <1>b, <2>1
<1>13. ASSUME NEW p \in Requests, Answer(p) PROVE Goal
  BY <1>13, <1>a DEF Answer
<1>14. ASSUME NEW p \in Requests, Die(p) PROVE Goal
  BY <1>14, <1>a DEF Die
<1>15. ASSUME NEW s \in DOMAIN session, Present(s) PROVE Goal
  BY <1>15 DEF Present
<1>16. ASSUME NEW s \in DOMAIN session, NEW which \in Ends(s), SignOut(s, which) PROVE Goal
  BY <1>16 DEF SignOut
<1>17. ASSUME NEW s \in DOMAIN session, CompleteOnboarding(s) PROVE Goal
  BY <1>17 DEF CompleteOnboarding
<1>18. ASSUME UNCHANGED signVars PROVE Goal
  BY <1>18 DEF signVars
<1>19. QED
  BY <1>1, <1>2, <1>3, <1>4, <1>5, <1>6, <1>7, <1>8, <1>9, <1>10, <1>11, <1>12, <1>13, <1>14,
     <1>15, <1>16, <1>17, <1>18, StepCases

LEMMA ClaimsMove ==
  ASSUME Typed, NEW q \in Requests, Claims(q)
  PROVE  /\ request[q].pc \in {"claim", "claimGoogle"} /\ request'[q].pc = "create"
         /\ request'[q].from = request[q].from
         /\ \A p \in Requests : p # q => request'[p] = request[p]
<1>0. request[q] \in RequestRow /\ request \in [Requests -> RequestRow]
  BY DEF Typed
<1>1. request[q].pc \in {"claim", "claimGoogle"}
  BY DEF Claims, ClaimByEmail, ClaimGoogle, At
<1>2. \E u, c : Goes(q, [request[q] EXCEPT !.pc = "create", !.user = u, !.created = c])
  BY DEF Claims, ClaimByEmail, ClaimGoogle
<1>3. PICK u, c : /\ request'[q] = [request[q] EXCEPT !.pc = "create", !.user = u, !.created = c]
                  /\ \A p \in Requests : p # q => request'[p] = request[p]
  BY <1>0, <1>2 DEF Goes
<1>4. QED
  BY <1>0, <1>1, <1>3 DEF RequestRow

\* A session that was not there is the one a request creates.
LEMMA NewSession ==
  ASSUME Typed, Ranges, [SignInNext]_signVars, NEW s \in DOMAIN session', s \notin DOMAIN session
  PROVE  \E q \in Requests :
            /\ request[q].pc = "create" /\ request'[q].pc = "list" /\ s = Len(session) + 1
            /\ session'[s].user = request[q].user /\ session'[s].from = request[q].from
            /\ session'[s].subject = request[q].subject /\ ~session'[s].sent
<1> DEFINE Goal == \E q \in Requests :
            /\ request[q].pc = "create" /\ request'[q].pc = "list" /\ s = Len(session) + 1
            /\ session'[s].user = request[q].user /\ session'[s].from = request[q].from
            /\ session'[s].subject = request[q].subject /\ ~session'[s].sent
<1>0. /\ session \in Seq(SessionRow) /\ Len(session) \in Nat /\ DOMAIN session = 1..Len(session)
      /\ \A q \in Requests : request[q] \in RequestRow
      /\ request \in [Requests -> RequestRow]
  BY RowTypes DEF Typed
<1>a. DOMAIN session' # DOMAIN session
  OBVIOUS
<1>1. ASSUME NEW q \in Requests, CreateSession(q) PROVE Goal
  <2> DEFINE row == [user |-> request[q].user, life |-> "live", sent |-> FALSE,
                     from |-> request[q].from, subject |-> request[q].subject]
             v == [request[q] EXCEPT !.pc = "list", !.session = Len(session) + 1]
  <2>1. row \in SessionRow
    BY <1>0, <1>1 DEF CreateSession, At, Ranges, Fits, SessionRow, RequestRow
  <2>2. session' = Append(session, row) /\ Goes(q, v) /\ request[q].pc = "create"
    BY <1>1 DEF CreateSession, At
  <2>3. /\ DOMAIN session' = 1..(Len(session) + 1) /\ session'[Len(session) + 1] = row
    BY <1>0, <2>1, <2>2, Appended
  <2>4. s = Len(session) + 1
    BY <1>0, <2>3
  <2>5. /\ session'[s].user = request[q].user /\ session'[s].from = request[q].from
        /\ session'[s].subject = request[q].subject /\ ~session'[s].sent
    BY <2>3, <2>4
  <2>6. request'[q].pc = "list"
    BY <1>0, <2>2 DEF Goes, RequestRow
  <2>7. QED
    BY <2>2, <2>4, <2>5, <2>6
<1>2. ASSUME Expire PROVE Goal
  BY <1>2, <1>a DEF Expire
<1>3. ASSUME NEW q \in Requests, ResolvePrevious(q) PROVE Goal
  BY <1>3, <1>a DEF ResolvePrevious, Touched
<1>4. ASSUME NEW q \in Requests, RevokePrevious(q) PROVE Goal
  BY <1>4, <1>a DEF RevokePrevious, Revoked
<1>5. ASSUME NEW q \in Requests, Answer(q) PROVE Goal
  BY <1>5, <1>a DEF Answer
<1>6. ASSUME NEW t \in DOMAIN session, Present(t) PROVE Goal
  BY <1>6, <1>a DEF Present, Touched
<1>7. ASSUME NEW t \in DOMAIN session, NEW which \in Ends(t), SignOut(t, which) PROVE Goal
  BY <1>7, <1>a DEF SignOut, Revoked
<1>8. ASSUME NEW t \in DOMAIN session, CompleteOnboarding(t) PROVE Goal
  BY <1>8, <1>a DEF CompleteOnboarding, Touched
<1>9. UNCHANGED session => Goal
  BY <1>a
<1>10. QED
  BY <1>1, <1>2, <1>3, <1>4, <1>5, <1>6, <1>7, <1>8, <1>9, StepCases
  DEF RequestMagicLink, GoogleStart, Callback, GoogleCallback, ClaimByEmail, ClaimGoogle,
      ListMemberships, CreateOrganization, Die, signVars

-----------------------------------------------------------------------------
(* A Google account stays with its account *)

\* Sessions and requests of a subject are of the user the subject is linked to.
SubjectInv ==
    /\ \A s \in DOMAIN session : session[s].subject # None =>
           linked[session[s].subject] = session[s].user
    /\ \A q \in Requests :
           /\ request[q].pc = "claim" => request[q].subject = None
           /\ request[q].pc \in Established /\ request[q].subject # None =>
                  linked[request[q].subject] = request[q].user

LEMMA SubjectStep ==
  ASSUME Typed, Ranges, SubjectInv, [SignInNext]_signVars
  PROVE  SubjectInv'
<1>0. /\ Typed' /\ Stays
      /\ \A s \in DOMAIN session : session[s] \in SessionRow /\ session[s].user # 0
      /\ \A q \in Requests : request[q] \in RequestRow
      /\ linked \in [Subjects -> Nat] /\ request \in [Requests -> RequestRow]
  BY TypedStep, StaysStep, RowTypes DEF Ranges, Typed
<1>1. ASSUME NEW s \in DOMAIN session', session'[s].subject # None
      PROVE  linked'[session'[s].subject] = session'[s].user
  <2>1. CASE s \in DOMAIN session
    <3>1. session[s].subject \in Subjects /\ linked[session[s].subject] = session[s].user
      BY <1>0, <1>1, <2>1 DEF SubjectInv, Stays, SessionsStay, SessionRow
    <3>2. QED
      BY <1>0, <2>1, <3>1 DEF Stays, SessionsStay, LinkedStay
  <2>2. CASE s \notin DOMAIN session
    <3>1. PICK q \in Requests : /\ request[q].pc = "create"
                                /\ session'[s].user = request[q].user
                                /\ session'[s].subject = request[q].subject
      BY <2>2, NewSession
    <3>2. /\ request[q].subject \in Subjects /\ linked[request[q].subject] = request[q].user
          /\ request[q].user # 0
      BY <1>0, <1>1, <3>1 DEF SubjectInv, Ranges, Fits, Established, RequestRow
    <3>3. QED
      BY <1>0, <3>1, <3>2 DEF Stays, LinkedStay
  <2>3. QED
    BY <2>1, <2>2
<1>2. ASSUME NEW q \in Requests
      PROVE  /\ request'[q].pc = "claim" => request'[q].subject = None
             /\ request'[q].pc \in Established /\ request'[q].subject # None =>
                    linked'[request'[q].subject] = request'[q].user
  <2>1. ASSUME request[q].pc \in Established, request[q].subject # None
        PROVE  linked'[request[q].subject] = request[q].user
    <3>1. /\ request[q].subject \in Subjects /\ linked[request[q].subject] = request[q].user
          /\ request[q].user # 0
      BY <1>0, <2>1 DEF SubjectInv, Ranges, Fits, RequestRow
    <3>2. QED
      BY <1>0, <3>1 DEF Stays, LinkedStay
  <2>2. CASE request'[q] = request[q]
    BY <2>1, <2>2 DEF SubjectInv
  <2>3. CASE request'[q] = Idle
    BY <2>3 DEF Idle, Established
  <2>4. CASE Redeems(q)
    BY <2>4 DEF Redeems, Established
  <2>5. CASE ClaimByEmail(q)
    <3>1. request[q].subject = None
      BY <2>5 DEF ClaimByEmail, At, SubjectInv
    <3>2. request'[q].subject = request[q].subject
      BY <1>0, <2>5 DEF ClaimByEmail, Goes, RequestRow
    <3>3. QED
      BY <3>1, <3>2
  <2>6. CASE ClaimGoogle(q)
    <3> DEFINE g == request[q].subject
    <3>1. g \in Subjects
      BY <2>6 DEF ClaimGoogle, At, Ranges, Fits
    <3>2. /\ request'[q].subject = g /\ request'[q].pc = "create"
          /\ request'[q].user = IF Durable(g) THEN linked[g] ELSE Claimed(request[q].email)
      BY <1>0, <2>6 DEF ClaimGoogle, Goes, RequestRow
    <3>3. linked'[g] = IF Durable(g) THEN linked[g] ELSE Claimed(request[q].email)
      BY <1>0, <2>6, <3>1 DEF ClaimGoogle
    <3>4. QED
      BY <3>2, <3>3
  <2>7. CASE Advances(q)
    BY <2>1, <2>7 DEF Advances, Sessioned, Established
  <2>8. QED
    BY <2>2, <2>3, <2>4, <2>5, <2>6, <2>7, RequestsStep DEF Claims
<1>3. QED
  BY <1>1, <1>2 DEF SubjectInv

-----------------------------------------------------------------------------
(* What is spent lets nobody in again *)

Spent(c) == \/ c \in Links /\ link[c].life = "consumed"
            \/ c \in States /\ oidc[c] = "consumed"

\* Every request and every session stands for one credential that was consumed for it.
SpentInv ==
    /\ \A s \in DOMAIN session : Spent(session[s].from)
    /\ \A s, t \in DOMAIN session : session[s].from = session[t].from => s = t
    /\ \A q \in Requests : request[q].pc # "idle" => Spent(request[q].from)
    /\ \A q, p \in Requests :
           request[q].pc # "idle" /\ request[p].pc # "idle" /\ request[q].from = request[p].from
           => q = p
    /\ \A q \in Requests : request[q].pc \in {"claim", "claimGoogle", "create"} =>
           \A s \in DOMAIN session : session[s].from # request[q].from

\* What is consumed stays consumed.
LEMMA SpentStays ==
  ASSUME Typed, [SignInNext]_signVars, NEW c, Spent(c)
  PROVE  Spent(c)'
<1>0. link \in [Links -> [email: Emails \cup {None}, life: Life]] /\ oidc \in [States -> Life]
  BY DEF Typed
<1>1. ASSUME NEW l \in Links, NEW e \in Emails, RequestMagicLink(l, e) PROVE Spent(c)'
  BY <1>0, <1>1 DEF RequestMagicLink, Spent
<1>2. ASSUME NEW o \in States, GoogleStart(o) PROVE Spent(c)'
  BY <1>0, <1>2 DEF GoogleStart, Spent
<1>3. ASSUME Expire PROVE Spent(c)'
  BY <1>0, <1>3 DEF Expire, Spent
<1>4. ASSUME NEW q \in Requests, NEW l \in Links, NEW p \in Previous, Callback(q, l, p)
      PROVE  Spent(c)'
  BY <1>0, <1>4 DEF Callback, Spent
<1>5. ASSUME NEW q \in Requests, NEW o \in States, NEW g \in Subjects, NEW e \in Emails,
             NEW p \in Previous, GoogleCallback(q, o, g, e, p)
      PROVE  Spent(c)'
  BY <1>0, <1>5 DEF GoogleCallback, Spent
<1>6. UNCHANGED <<link, oidc>> => Spent(c)'
  BY DEF Spent
<1>7. QED
  BY <1>1, <1>2, <1>3, <1>4, <1>5, <1>6, StepCases
  DEF ClaimByEmail, ClaimGoogle, CreateSession, ListMemberships, CreateOrganization,
      ResolvePrevious, RevokePrevious, Answer, Die, Present, SignOut, CompleteOnboarding, signVars

\* A request that begins consumes what nobody consumed before, and nobody else moves.
LEMMA Redeemed ==
  ASSUME Typed, Ranges, [SignInNext]_signVars, NEW q \in Requests, Redeems(q)
  PROVE  /\ ~Spent(request'[q].from) /\ Spent(request[q].from)'
         /\ \A p \in Requests : p # q => request'[p] = request[p]
<1> DEFINE Goal == /\ ~Spent(request'[q].from) /\ Spent(request[q].from)'
                   /\ \A p \in Requests : p # q => request'[p] = request[p]
<1>0. /\ link \in [Links -> [email: Emails \cup {None}, life: Life]] /\ oidc \in [States -> Life]
      /\ request \in [Requests -> RequestRow]
  BY DEF Typed
<1>a. request'[q].pc # request[q].pc /\ request[q].pc = "idle" /\ request'[q].pc # "idle"
  BY DEF Redeems
<1>b. ASSUME NEW p \in Requests, NEW v, Goes(p, v) PROVE q = p \/ request'[q] = request[q]
  BY <1>0, <1>b DEF Goes
<1>c. ASSUME NEW p \in Requests, NEW pc, GoesTo(p, pc), request[p].pc # "idle" PROVE FALSE
  BY <1>0, <1>a, <1>c DEF GoesTo
<1>4. ASSUME NEW p \in Requests, NEW l \in Links, NEW x \in Previous, Callback(p, l, x)
      PROVE  Goal
  <2> DEFINE v == [Idle EXCEPT !.pc = "claim", !.email = link[l].email, !.from = l, !.previous = x]
  <2>1. Goes(p, v) /\ v.from = l
    BY <1>4 DEF Callback, Idle
  <2> HIDE DEF v
  <2>2. p = q
    BY <1>a, <1>b, <2>1
  <2>3. request'[q].from = l /\ \A y \in Requests : y # q => request'[y] = request[y]
    BY <1>0, <2>1, <2>2 DEF Goes
  <2>4. link[l].life = "good" /\ link'[l].life = "consumed" /\ l \notin States
    BY <1>0, <1>4, CredentialsDiffer DEF Callback, Consumable
  <2>5. ~Spent(l) /\ Spent(l)'
    BY <2>4 DEF Spent
  <2>6. QED
    BY <2>3, <2>5
<1>5. ASSUME NEW p \in Requests, NEW o \in States, NEW g \in Subjects, NEW e \in Emails,
             NEW x \in Previous, GoogleCallback(p, o, g, e, x)
      PROVE  Goal
  <2> DEFINE v == [Idle EXCEPT !.pc = "claimGoogle", !.email = e, !.subject = g, !.from = o,
                               !.previous = x]
  <2>1. Goes(p, v) /\ v.from = o
    BY <1>5 DEF GoogleCallback, Idle
  <2> HIDE DEF v
  <2>2. p = q
    BY <1>a, <1>b, <2>1
  <2>3. request'[q].from = o /\ \A y \in Requests : y # q => request'[y] = request[y]
    BY <1>0, <2>1, <2>2 DEF Goes
  <2>4. oidc[o] = "good" /\ oidc'[o] = "consumed" /\ o \notin Links
    BY <1>0, <1>5, CredentialsDiffer DEF GoogleCallback, Consumable
  <2>5. ~Spent(o) /\ Spent(o)'
    BY <2>4 DEF Spent
  <2>6. QED
    BY <2>3, <2>5
<1>6. ASSUME NEW p \in Requests,
             ClaimByEmail(p) \/ ClaimGoogle(p) \/ CreateSession(p) \/ ListMemberships(p)
             \/ CreateOrganization(p) \/ ResolvePrevious(p) \/ RevokePrevious(p)
      PROVE  Goal
  <2>1. request[p].pc # "idle" /\ ((\E v : Goes(p, v)) \/ \E pc : GoesTo(p, pc))
    BY <1>6 DEF ClaimByEmail, ClaimGoogle, CreateSession, ListMemberships, CreateOrganization,
                ResolvePrevious, RevokePrevious, At
  <2>2. QED
    BY <1>a, <1>b, <1>c, <2>1
<1>7. ASSUME NEW p \in Requests, Answer(p) \/ Die(p) PROVE Goal
  BY <1>0, <1>a, <1>7 DEF Answer, Die, Goes, Idle
<1>8. UNCHANGED request => Goal
  BY <1>a
<1>9. QED
  BY <1>4, <1>5, <1>6, <1>7, <1>8, StepCases
  DEF RequestMagicLink, GoogleStart, Expire, Present, SignOut, CompleteOnboarding, signVars

Before == {"claim", "claimGoogle", "create"}

LEMMA FromStays ==
  ASSUME Typed, Ranges, [SignInNext]_signVars, NEW q \in Requests,
         request'[q].pc # "idle", ~Redeems(q)
  PROVE  /\ request[q].pc # "idle" /\ request'[q].from = request[q].from
         /\ request'[q].pc \in Before => request[q].pc \in Before
<1>0. request[q] \in RequestRow /\ request \in [Requests -> RequestRow]
  BY DEF Typed
<1>1. CASE Claims(q)
  BY <1>1, ClaimsMove DEF Before
<1>2. CASE Advances(q)
  BY <1>0, <1>2 DEF Advances, Established, Sessioned, Before
<1>3. request'[q] # Idle
  BY DEF Idle
<1>4. QED
  BY <1>1, <1>2, <1>3, RequestsStep

LEMMA SpentStep ==
  ASSUME Typed, Ranges, SpentInv, [SignInNext]_signVars
  PROVE  SpentInv'
<1>0. Stays
  BY StaysStep
<1>1. \A s \in DOMAIN session : s \in DOMAIN session' /\ session'[s].from = session[s].from
  <2>1. /\ DOMAIN session = 1..Len(session) /\ DOMAIN session' = 1..Len(session')
        /\ Len(session) \in Nat /\ Len(session') \in Nat
    BY TypedStep, RowTypes, LenProperties DEF Typed
  <2>2. QED
    BY <1>0, <2>1 DEF Stays, SessionsStay
<1>2. ASSUME NEW s \in DOMAIN session', NEW t \in DOMAIN session',
             session'[s].from = session'[t].from
      PROVE  s = t
  <2>1. ASSUME NEW x \in DOMAIN session, NEW y \in DOMAIN session', y \notin DOMAIN session
        PROVE  session'[x].from # session'[y].from
    <3>1. PICK q \in Requests : request[q].pc = "create" /\ session'[y].from = request[q].from
      BY <2>1, NewSession
    <3>2. QED
      BY <1>1, <3>1 DEF SpentInv
  <2>2. CASE s \in DOMAIN session /\ t \in DOMAIN session
    BY <1>1, <1>2, <2>2 DEF SpentInv
  <2>3. CASE s \notin DOMAIN session /\ t \notin DOMAIN session
    BY <2>3, NewSession
  <2>4. QED
    BY <1>2, <2>1, <2>2, <2>3
<1>3. ASSUME NEW s \in DOMAIN session' PROVE Spent(session[s].from)'
  <2>1. CASE s \in DOMAIN session
    <3>1. Spent(session[s].from)
      BY <2>1 DEF SpentInv
    <3>2. PICK c : c = session[s].from
      OBVIOUS
    <3>3. Spent(c)' /\ session'[s].from = c
      BY <1>1, <2>1, <3>1, <3>2, SpentStays
    <3>4. QED
      BY <3>3 DEF Spent
  <2>2. CASE s \notin DOMAIN session
    <3>1. PICK q \in Requests : request[q].pc = "create" /\ session'[s].from = request[q].from
      BY <2>2, NewSession
    <3>2. PICK c : c = request[q].from
      OBVIOUS
    <3>3. Spent(c)' /\ session'[s].from = c
      BY <3>1, <3>2, SpentStays DEF SpentInv
    <3>4. QED
      BY <3>3 DEF Spent
  <2>3. QED
    BY <2>1, <2>2
<1>4. ASSUME NEW q \in Requests, request'[q].pc # "idle" PROVE Spent(request[q].from)'
  <2>1. CASE Redeems(q)
    BY <2>1, Redeemed
  <2>2. CASE ~Redeems(q)
    <3>1. PICK c : c = request[q].from
      OBVIOUS
    <3>2. Spent(c)' /\ request'[q].from = c
      BY <1>4, <2>2, <3>1, FromStays, SpentStays DEF SpentInv
    <3>3. QED
      BY <3>2 DEF Spent
  <2>3. QED
    BY <2>1, <2>2
<1>5. ASSUME NEW q \in Requests, NEW p \in Requests, request'[q].pc # "idle",
             request'[p].pc # "idle", request'[q].from = request'[p].from
      PROVE  q = p
  <2>1. ASSUME NEW x \in Requests, NEW y \in Requests, x # y, Redeems(x), request'[y].pc # "idle"
        PROVE  request'[x].from # request'[y].from
    <3>1. request'[y] = request[y] /\ ~Spent(request'[x].from)
      BY <2>1, Redeemed
    <3>2. QED
      BY <2>1, <3>1 DEF SpentInv
  <2>2. CASE ~Redeems(q) /\ ~Redeems(p)
    BY <1>5, <2>2, FromStays DEF SpentInv
  <2>3. QED
    BY <1>5, <2>1, <2>2
<1>6. ASSUME NEW q \in Requests, request'[q].pc \in Before, NEW s \in DOMAIN session'
      PROVE  session'[s].from # request'[q].from
  <2>1. request'[q].pc # "idle" /\ request'[q].pc # "list"
    BY <1>6 DEF Before
  <2>2. CASE Redeems(q)
    <3>1. ~Spent(request'[q].from)
      BY <2>2, Redeemed
    <3>2. Spent(session'[s].from)
      <4>1. CASE s \in DOMAIN session
        BY <1>1, <4>1 DEF SpentInv
      <4>2. CASE s \notin DOMAIN session
        BY <4>2, NewSession DEF SpentInv
      <4>3. QED
        BY <4>1, <4>2
    <3>3. QED
      BY <3>1, <3>2
  <2>3. CASE ~Redeems(q)
    <3>1. /\ request'[q].from = request[q].from /\ request[q].pc \in Before
          /\ request[q].pc # "idle"
      BY <1>6, <2>1, <2>3, FromStays
    <3>2. CASE s \in DOMAIN session
      BY <1>1, <3>1, <3>2 DEF SpentInv, Before
    <3>3. CASE s \notin DOMAIN session
      <4>1. PICK p \in Requests : /\ request[p].pc = "create" /\ request'[p].pc = "list"
                                  /\ session'[s].from = request[p].from
        BY <3>3, NewSession
      <4>2. p # q
        BY <2>1, <4>1
      <4>3. QED
        BY <3>1, <4>1, <4>2 DEF SpentInv
    <3>4. QED
      BY <3>2, <3>3
  <2>4. QED
    BY <2>2, <2>3
<1>7. QED
  BY <1>2, <1>3, <1>4, <1>5, <1>6 DEF SpentInv, Before

-----------------------------------------------------------------------------
(* What happens once: the first organization *)

Owning == {"resolve", "revoke", "audit"}

\* An account has at most one first organization, recorded once, and whoever is about
\* to be answered or has been answered has it.
OrganizationInv ==
    /\ \A i, j \in DOMAIN organization : organization[i] = organization[j] => i = j
    /\ \A u \in DOMAIN user :
           audit[u]["organization.created"] = IF Owns(u) THEN 1 ELSE 0
    /\ \A q \in Requests : request[q].pc \in Owning => Owns(request[q].user)
    /\ \A s \in DOMAIN session : session[s].sent => Owns(session[s].user)

\* The steps that change users, their events or their organizations.
LEMMA AccountsStep ==
  ASSUME Typed, Ranges, [SignInNext]_signVars
  PROVE  \/ UNCHANGED <<user, audit, organization>>
         \/ \E q \in Requests : /\ Claims(q) /\ UNCHANGED organization
                                /\ request[q].email \in Emails /\ InsertUser(request[q].email)
         \/ \E q \in Requests : /\ CreateOrganization(q) /\ ~Owns(request[q].user)
         \/ \E q \in Requests : Answer(q)
         \/ \E s \in DOMAIN session :
               CompleteOnboarding(s) /\ MayOnboard(session[s].user)
<1> DEFINE Goal ==
         \/ UNCHANGED <<user, audit, organization>>
         \/ \E q \in Requests : /\ Claims(q) /\ UNCHANGED organization
                                /\ request[q].email \in Emails /\ InsertUser(request[q].email)
         \/ \E q \in Requests : /\ CreateOrganization(q) /\ ~Owns(request[q].user)
         \/ \E q \in Requests : Answer(q)
         \/ \E s \in DOMAIN session :
               CompleteOnboarding(s) /\ MayOnboard(session[s].user)
<1>1. ASSUME NEW q \in Requests, ClaimByEmail(q) PROVE Goal
  BY <1>1 DEF ClaimByEmail, Claims, At, Ranges, Fits
<1>2. ASSUME NEW q \in Requests, ClaimGoogle(q) PROVE Goal
  <2>1. request[q].email \in Emails
    BY <1>2 DEF ClaimGoogle, At, Ranges, Fits
  <2>2. QED
    BY <1>2, <2>1 DEF ClaimGoogle, Claims
<1>3. ASSUME NEW q \in Requests, CreateOrganization(q) PROVE Goal
  <2>1. CASE Owns(request[q].user)
    BY <1>3, <2>1 DEF CreateOrganization, HasFirst
  <2>2. CASE ~Owns(request[q].user)
    BY <1>3, <2>2
  <2>3. QED
    BY <2>1, <2>2
<1>4. ASSUME NEW q \in Requests, Answer(q) PROVE Goal
  BY <1>4
<1>5. ASSUME NEW s \in DOMAIN session, CompleteOnboarding(s) PROVE Goal
  <2>1. CASE MayOnboard(session[s].user)
    BY <1>5, <2>1
  <2>2. CASE ~MayOnboard(session[s].user)
    BY <1>5, <2>2 DEF CompleteOnboarding
  <2>3. QED
    BY <2>1, <2>2
<1>6. UNCHANGED <<user, audit, organization>> => Goal
  OBVIOUS
<1>7. QED
  BY <1>1, <1>2, <1>3, <1>4, <1>5, <1>6, StepCases
  DEF RequestMagicLink, GoogleStart, Expire, Callback, GoogleCallback, CreateSession,
      ListMemberships, ResolvePrevious, RevokePrevious, Die, Present, SignOut, signVars

\* A request comes to its last statements by one of two steps that see to the organization.
LEMMA IntoOwning ==
  ASSUME Typed, Ranges, [SignInNext]_signVars, NEW q \in Requests, request'[q].pc \in Owning
  PROVE  /\ request'[q].user = request[q].user
         /\ request[q].pc \in Owning \/ ListMemberships(q) \/ CreateOrganization(q)
<1> DEFINE Goal == request[q].pc \in Owning \/ ListMemberships(q) \/ CreateOrganization(q)
<1>0. request[q] \in RequestRow /\ request \in [Requests -> RequestRow]
  BY DEF Typed
<1>a. ASSUME NEW p \in Requests, NEW v, Goes(p, v), v.pc \notin Owning PROVE request'[q] = request[q]
  BY <1>0, <1>a DEF Goes
<1>b. ASSUME NEW p \in Requests, NEW pc, GoesTo(p, pc) PROVE p = q \/ request'[q] = request[q]
  BY <1>0, <1>b DEF GoesTo
<1>c. request'[q] = request[q] => Goal
  OBVIOUS
<1>1. ASSUME NEW p \in Requests, NEW l \in Links, NEW x \in Previous, Callback(p, l, x) PROVE Goal
  <2> DEFINE v == [Idle EXCEPT !.pc = "claim", !.email = link[l].email, !.from = l, !.previous = x]
  <2>1. Goes(p, v) /\ v.pc \notin Owning
    BY <1>1 DEF Callback, Idle, Owning
  <2> HIDE DEF v
  <2>2. QED
    BY <1>a, <1>c, <2>1
<1>2. ASSUME NEW p \in Requests, NEW o \in States, NEW g \in Subjects, NEW e \in Emails,
             NEW x \in Previous, GoogleCallback(p, o, g, e, x)
      PROVE  Goal
  <2> DEFINE v == [Idle EXCEPT !.pc = "claimGoogle", !.email = e, !.subject = g, !.from = o,
                               !.previous = x]
  <2>1. Goes(p, v) /\ v.pc \notin Owning
    BY <1>2 DEF GoogleCallback, Idle, Owning
  <2> HIDE DEF v
  <2>2. QED
    BY <1>a, <1>c, <2>1
<1>3. ASSUME NEW p \in Requests, ClaimByEmail(p) \/ ClaimGoogle(p) PROVE Goal
  <2>1. PICK u, c : Goes(p, [request[p] EXCEPT !.pc = "create", !.user = u, !.created = c])
    BY <1>3 DEF ClaimByEmail, ClaimGoogle
  <2> DEFINE v == [request[p] EXCEPT !.pc = "create", !.user = u, !.created = c]
  <2>2. v.pc \notin Owning
    BY <1>0 DEF Owning, RequestRow
  <2>3. Goes(p, v)
    BY <2>1
  <2> HIDE DEF v
  <2>4. QED
    BY <1>a, <1>c, <2>2, <2>3
<1>4. ASSUME NEW p \in Requests, CreateSession(p) PROVE Goal
  <2> DEFINE v == [request[p] EXCEPT !.pc = "list", !.session = Len(session) + 1]
  <2>1. Goes(p, v)
    BY <1>4 DEF CreateSession
  <2>2. v.pc \notin Owning
    BY <1>0 DEF Owning, RequestRow
  <2> HIDE DEF v
  <2>3. QED
    BY <1>a, <1>c, <2>1, <2>2
<1>5. ASSUME NEW p \in Requests, ListMemberships(p) \/ CreateOrganization(p) PROVE Goal
  BY <1>5, <1>b, <1>c DEF ListMemberships, CreateOrganization
<1>6. ASSUME NEW p \in Requests, ResolvePrevious(p) \/ RevokePrevious(p) PROVE Goal
  BY <1>6, <1>b, <1>c DEF ResolvePrevious, RevokePrevious, At, Owning
<1>7. ASSUME NEW p \in Requests, Answer(p) \/ Die(p) PROVE Goal
  BY <1>7, <1>a, <1>c DEF Answer, Die, Idle, Owning
<1>8. UNCHANGED request => Goal
  OBVIOUS
<1>9. Goal
  BY <1>1, <1>2, <1>3, <1>4, <1>5, <1>6, <1>7, <1>8, StepCases
  DEF RequestMagicLink, GoogleStart, Expire, Present, SignOut, CompleteOnboarding, signVars
<1>10. request'[q].user = request[q].user
  <2>1. ~Redeems(q) /\ request'[q] # Idle
    BY DEF Redeems, Idle, Owning
  <2>2. ~Claims(q)
    BY ClaimsMove DEF Owning
  <2>3. QED
    BY <2>1, <2>2, RequestsStep DEF Advances
<1>11. QED
  BY <1>9, <1>10

\* Only an answer sends a session.
LEMMA SentStep ==
  ASSUME Typed, Ranges, [SignInNext]_signVars, NEW s \in DOMAIN session', session'[s].sent
  PROVE  s \in DOMAIN session /\ (session[s].sent \/ \E q \in Requests :
                                     Answer(q) /\ s = request[q].session)
<1> DEFINE Goal == session[s].sent \/ \E q \in Requests : Answer(q) /\ s = request[q].session
<1>0. /\ session \in Seq(SessionRow) /\ DOMAIN session = 1..Len(session)
      /\ \A t \in DOMAIN session : session[t] \in SessionRow
  BY RowTypes DEF Typed
<1>1. s \in DOMAIN session
  BY NewSession
<1>2. ASSUME Expire PROVE Goal
  <2>1. ASSUME NEW t \in DOMAIN session, session' = [session EXCEPT ![t].life = "expired"] PROVE Goal
    <3>1. [session[t] EXCEPT !.life = "expired"] \in SessionRow
          /\ [session[t] EXCEPT !.life = "expired"].sent = session[t].sent
      BY <1>0 DEF SessionRow
    <3>2. session'[s] = IF s = t THEN [session[t] EXCEPT !.life = "expired"] ELSE session[s]
      BY <1>0, <1>1, <2>1, <3>1, Updated
    <3>3. QED
      BY <3>1, <3>2
  <2>2. QED
    BY <1>2, <2>1 DEF Expire
<1>3. ASSUME NEW which, session' = Revoked(which) PROVE Goal
  BY <1>1, <1>3, RevokedRows
<1>4. ASSUME NEW q \in Requests, ResolvePrevious(q) PROVE Goal
  <2>1. CASE Resolves(request[q].previous)
    <3>1. request[q].previous \in DOMAIN session
      BY <1>0, <1>4 DEF ResolvePrevious, At, Ranges, Fits, Typed, RequestRow
    <3>2. QED
      BY <1>4, <2>1, <3>1, Untouched DEF ResolvePrevious
  <2>2. CASE ~Resolves(request[q].previous)
    BY <1>4, <2>2 DEF ResolvePrevious
  <2>3. QED
    BY <2>1, <2>2
<1>5. ASSUME NEW q \in Requests, Answer(q) PROVE Goal
  <2>1. session' = [session EXCEPT ![request[q].session].sent = TRUE]
    BY <1>5 DEF Answer
  <2>2. s # request[q].session => session'[s] = session[s]
    BY <1>1, <2>1
  <2>3. QED
    BY <1>5, <2>2
<1>6. ASSUME NEW t \in DOMAIN session, Present(t) PROVE Goal
  BY <1>6, Untouched DEF Present, Visit
<1>7. ASSUME NEW t \in DOMAIN session, CompleteOnboarding(t) PROVE Goal
  BY <1>7, Untouched DEF CompleteOnboarding, Visit
<1>8. ASSUME NEW q \in Requests, CreateSession(q) PROVE Goal
  <2> DEFINE row == [user |-> request[q].user, life |-> "live", sent |-> FALSE,
                     from |-> request[q].from, subject |-> request[q].subject]
  <2>1. row \in SessionRow
    BY <1>8 DEF CreateSession, At, Ranges, Fits, SessionRow, RequestRow, Typed
  <2>2. session' = Append(session, row)
    BY <1>8 DEF CreateSession
  <2>3. session'[s] = session[s]
    BY <1>0, <1>1, <2>1, <2>2, Appended
  <2>4. QED
    BY <2>3
<1>9. UNCHANGED session => Goal
  OBVIOUS
<1>10. Goal
  BY <1>2, <1>3, <1>4, <1>5, <1>6, <1>7, <1>8, <1>9, StepCases
  DEF RequestMagicLink, GoogleStart, Callback, GoogleCallback, ClaimByEmail, ClaimGoogle,
      ListMemberships, CreateOrganization, RevokePrevious, Die, SignOut, signVars
<1>11. QED
  BY <1>1, <1>10

\* Whoever has an organization keeps it.
LEMMA OwnsStays ==
  ASSUME Typed, Typed', OrganizationsStay, NEW u, Owns(u)
  PROVE  Owns(u)'
<1>1. /\ DOMAIN organization = 1..Len(organization) /\ DOMAIN organization' = 1..Len(organization')
      /\ Len(organization) \in Nat /\ Len(organization') \in Nat
  BY LenProperties DEF Typed
<1>2. QED
  BY <1>1 DEF Owns, OrganizationsStay

LEMMA OrganizationStep ==
  ASSUME Typed, Ranges, OrganizationInv, [SignInNext]_signVars
  PROVE  OrganizationInv'
<1>0. /\ DOMAIN user = 1..Len(user) /\ Len(user) \in Nat
      /\ DOMAIN audit = DOMAIN user
      /\ DOMAIN session = 1..Len(session) /\ Len(session) \in Nat
      /\ DOMAIN organization = 1..Len(organization) /\ Len(organization) \in Nat
      /\ \A q \in Requests : request[q] \in RequestRow
      /\ DOMAIN user' = 1..Len(user') /\ Len(user') \in Nat /\ DOMAIN audit' = DOMAIN user'
      /\ Typed' /\ Ranges' /\ Stays
  BY RowTypes, TypedStep, RangesStep, StaysStep, LenProperties DEF Ranges, Typed
<1> DEFINE once == \A i, j \in DOMAIN organization : organization[i] = organization[j] => i = j
           told == \A u \in DOMAIN user :
                       audit[u]["organization.created"] = IF Owns(u) THEN 1 ELSE 0
<1>1. once' /\ told'
  <2>1. CASE UNCHANGED <<user, audit, organization>>
    BY <2>1 DEF OrganizationInv, Owns
  <2>2. ASSUME NEW q \in Requests, UNCHANGED organization, request[q].email \in Emails,
               InsertUser(request[q].email)
        PROVE  once' /\ told'
    <3>1. once'
      BY <2>2 DEF OrganizationInv
    <3>2. /\ \A u \in DOMAIN user : audit'[u] = audit[u]
          /\ \/ user' = user
             \/ Len(user') = Len(user) + 1 /\ audit'[Len(user) + 1] = [k \in Events |-> 0]
      BY <1>0, <2>2, Inserted DEF Ranges
    <3>3. ~Owns(Len(user) + 1)
      BY <1>0 DEF Owns, Ranges
    <3>4. \A u : Owns(u)' <=> Owns(u)
      BY <2>2 DEF Owns
    <3>5. ASSUME NEW u \in DOMAIN user'
          PROVE  audit'[u]["organization.created"] = IF Owns(u)' THEN 1 ELSE 0
      <4>1. CASE u \in DOMAIN user
        BY <3>2, <3>4, <4>1 DEF OrganizationInv
      <4>2. CASE u \notin DOMAIN user
        <5>1. Len(user') = Len(user) + 1 /\ audit'[Len(user) + 1] = [k \in Events |-> 0]
          BY <3>2, <4>2
        <5>2. u = Len(user) + 1
          BY <1>0, <4>2, <5>1
        <5>3. QED
          BY <3>3, <3>4, <5>1, <5>2 DEF Events
      <4>3. QED
        BY <4>1, <4>2
    <3>6. QED
      BY <3>1, <3>5
  <2>3. ASSUME NEW q \in Requests, CreateOrganization(q), ~Owns(request[q].user)
        PROVE  once' /\ told'
    <3>0. PICK v : v = request[q].user
      OBVIOUS
    <3>1. v \in DOMAIN user /\ v \in Nat
      BY <1>0, <2>3, <3>0 DEF CreateOrganization, At, Ranges, Fits, Established, RequestRow
    <3>2. /\ organization' = Append(organization, v) /\ Record(v, {"organization.created"})
          /\ user' = user
      BY <2>3, <3>0 DEF CreateOrganization, HasFirst
    <3>3. /\ DOMAIN organization' = 1..(Len(organization) + 1)
          /\ \A i \in DOMAIN organization : organization'[i] = organization[i]
          /\ organization'[Len(organization) + 1] = v
      BY <3>1, <3>2, Appended DEF Typed
    <3>4. \A i \in DOMAIN organization : organization[i] # v
      BY <2>3, <3>0 DEF Owns
    <3>5. once'
      BY <1>0, <3>3, <3>4 DEF OrganizationInv
    <3>6. ASSUME NEW u PROVE Owns(u)' <=> Owns(u) \/ u = v
      <4>1. ASSUME Owns(u)' PROVE Owns(u) \/ u = v
        <5>1. PICK i \in DOMAIN organization' : organization'[i] = u
          BY <4>1 DEF Owns
        <5>2. QED
          BY <1>0, <3>3, <5>1 DEF Owns
      <4>2. ASSUME Owns(u) PROVE Owns(u)'
        BY <1>0, <4>2, OwnsStays DEF Stays
      <4>3. Owns(v)'
        BY <1>0, <3>3 DEF Owns
      <4>4. QED
        BY <4>1, <4>2, <4>3 DEF Owns
    <3>7. /\ \A u \in DOMAIN audit : u # v => audit'[u] = audit[u]
          /\ audit'[v]["organization.created"] = audit[v]["organization.created"] + 1
      BY <1>0, <3>1, <3>2, Recorded DEF Events
    <3>8. ~Owns(v)
      BY <2>3, <3>0
    <3>9. \A u \in DOMAIN user : audit'[u]["organization.created"] = IF Owns(u)' THEN 1 ELSE 0
      BY <1>0, <3>1, <3>6, <3>7, <3>8 DEF OrganizationInv
    <3>10. QED
      BY <3>2, <3>5, <3>9
  <2>4. ASSUME UNCHANGED organization, Len(user') = Len(user),
               NEW v \in DOMAIN audit, NEW events, Record(v, events),
               "organization.created" \notin events
        PROVE  once' /\ told'
    <3>1. \A u \in DOMAIN audit :
             audit'[u]["organization.created"] = audit[u]["organization.created"]
      BY <2>4, Recorded DEF Events
    <3>2. \A u : Owns(u)' <=> Owns(u)
      BY <2>4 DEF Owns
    <3>3. QED
      BY <1>0, <2>4, <3>1, <3>2 DEF OrganizationInv
  <2>5. ASSUME NEW q \in Requests, Answer(q) PROVE once' /\ told'
    <3>1. request[q].user \in DOMAIN audit
      BY <1>0, <2>5 DEF Answer, At, Ranges, Fits, Established, RequestRow
    <3>2. /\ UNCHANGED <<organization, user>>
          /\ Record(request[q].user, {"signed_in"} \cup
                        IF request[q].created THEN {"first_signed_in"} ELSE {})
      BY <2>5 DEF Answer
    <3>3. QED
      BY <2>4, <3>1, <3>2
  <2>6. ASSUME NEW s \in DOMAIN session, CompleteOnboarding(s),
               MayOnboard(session[s].user)
        PROVE  once' /\ told'
    <3>1. session[s].user \in DOMAIN audit
      BY <1>0 DEF Ranges
    <3>2. /\ UNCHANGED organization /\ DOMAIN user' = DOMAIN user
          /\ Record(session[s].user, {"onboarding_completed"})
      BY <2>6 DEF CompleteOnboarding
    <3>3. Len(user') = Len(user)
      BY <1>0, <3>2, SameEnd
    <3>4. QED
      BY <2>4, <3>1, <3>2, <3>3
  <2>7. QED
    BY <2>1, <2>2, <2>3, <2>5, <2>6, AccountsStep
<1>2. ASSUME NEW q \in Requests, request'[q].pc \in Owning PROVE Owns(request[q].user)'
  <2>1. PICK u : u = request[q].user
    OBVIOUS
  <2>2. request'[q].user = u
    BY <1>2, <2>1, IntoOwning
  <2>3. CASE Owns(u)
    <3>1. Owns(u)'
      BY <1>0, <2>3, OwnsStays DEF Stays
    <3>2. QED
      BY <2>2, <3>1 DEF Owns
  <2>4. CASE ~Owns(u)
    <3>1. CreateOrganization(q)
      <4>1. request[q].pc \notin Owning
        BY <2>1, <2>4 DEF OrganizationInv
      <4>2. ~ListMemberships(q)
        <5>1. ASSUME ListMemberships(q) PROVE FALSE
          <6>1. GoesTo(q, "organize")
            BY <2>1, <2>4, <5>1 DEF ListMemberships
          <6>2. request'[q].pc = "organize"
            BY <1>0, <6>1, GoneTo DEF GoesTo, Typed, RequestRow
          <6>3. QED
            BY <1>2, <6>2 DEF Owning
        <5>2. QED
          BY <5>1
      <4>3. QED
        BY <1>2, <4>1, <4>2, IntoOwning
    <3>2. organization' = Append(organization, u) /\ u \in Nat
      BY <1>0, <2>1, <2>4, <3>1 DEF CreateOrganization, HasFirst, RequestRow
    <3>3. /\ DOMAIN organization' = 1..(Len(organization) + 1)
          /\ organization'[Len(organization) + 1] = u
      BY <3>2, Appended DEF Typed
    <3>4. QED
      BY <1>0, <2>2, <3>3 DEF Owns
  <2>5. QED
    BY <2>3, <2>4
<1>3. ASSUME NEW s \in DOMAIN session', session'[s].sent PROVE Owns(session[s].user)'
  <2>1. PICK u : u = session[s].user
    OBVIOUS
  <2>2. s \in DOMAIN session /\ session'[s].user = u
    BY <1>0, <1>3, <2>1, SentStep DEF Stays, SessionsStay
  <2>3. Owns(u)
    <3>1. CASE session[s].sent
      BY <2>1, <2>2, <3>1 DEF OrganizationInv
    <3>2. ASSUME NEW q \in Requests, Answer(q), s = request[q].session PROVE Owns(u)
      <4>1. request[q].pc = "audit" /\ session[s].user = request[q].user
        BY <3>2 DEF Answer, At, Ranges, Fits, Sessioned, Established
      <4>2. QED
        BY <2>1, <4>1 DEF OrganizationInv, Owning
    <3>3. QED
      BY <1>3, <3>1, <3>2, SentStep
  <2>4. Owns(u)'
    BY <1>0, <2>3, OwnsStays DEF Stays
  <2>5. QED
    BY <2>2, <2>4 DEF Owns
<1>4. QED
  BY <1>1, <1>2, <1>3 DEF OrganizationInv

-----------------------------------------------------------------------------
(* What happens once: the account, its first sign-in, its onboarding *)

\* No two accounts have one address.  The first sign-in is not recorded before the
\* request that created the account is answered, of which there is one; onboarding is
\* recorded when onboarding_completed_at is first set.
AddressInv ==
    \A u, v \in DOMAIN user : AddressOf[user[u].email] = AddressOf[user[v].email] => u = v
FirstInv ==
    /\ \A u \in DOMAIN user :
          /\ audit[u]["first_signed_in"] <= 1
          /\ audit[u]["onboarding_completed"] <= 1
          /\ ~user[u].onboarded => audit[u]["onboarding_completed"] = 0
    /\ \A q \in Requests : request[q].created /\ request[q].pc \in Established =>
          audit[request[q].user]["first_signed_in"] = 0
    /\ \A q, p \in Requests :
          /\ request[q].created /\ request[q].pc \in Established
          /\ request[p].created /\ request[p].pc \in Established
          /\ request[q].user = request[p].user
          => q = p

\* Only a claim adds an account, for an address none of those there has.
LEMMA UsersStep ==
  ASSUME Typed, Ranges, [SignInNext]_signVars
  PROVE  \/ DOMAIN user' = DOMAIN user
         \/ /\ Len(user') = Len(user) + 1 /\ audit'[Len(user) + 1] = [k \in Events |-> 0]
            /\ ~user'[Len(user) + 1].onboarded
            /\ \A v \in DOMAIN user :
                  AddressOf[user'[Len(user) + 1].email] # AddressOf[user[v].email]
<1>0. DOMAIN user = 1..Len(user) /\ Len(user) \in Nat
  BY RowTypes
<1>1. ASSUME NEW q \in Requests, request[q].email \in Emails, InsertUser(request[q].email),
             DOMAIN user' # DOMAIN user
      PROVE  /\ Len(user') = Len(user) + 1 /\ audit'[Len(user) + 1] = [k \in Events |-> 0]
             /\ ~user'[Len(user) + 1].onboarded
             /\ \A v \in DOMAIN user :
                   AddressOf[user'[Len(user) + 1].email] # AddressOf[user[v].email]
  <2>1. PICK e : e = request[q].email
    OBVIOUS
  <2>2. e \in Emails /\ InsertUser(e)
    BY <1>1, <2>1
  <2>3. Account(e) = {}
    BY <1>1, <2>2, Inserted DEF Ranges
  <2>4. /\ Len(user') = Len(user) + 1 /\ audit'[Len(user) + 1] = [k \in Events |-> 0]
        /\ user'[Len(user) + 1] = [email |-> e, onboarded |-> FALSE]
    BY <2>2, <2>3, Inserted DEF Ranges
  <2>5. \A v \in DOMAIN user : AddressOf[e] # AddressOf[user[v].email]
    BY <2>3 DEF Account
  <2>6. QED
    BY <2>4, <2>5
<1>2. ASSUME NEW q \in Requests, CreateOrganization(q) \/ Answer(q) PROVE DOMAIN user' = DOMAIN user
  BY <1>2 DEF CreateOrganization, Answer
<1>3. ASSUME NEW s \in DOMAIN session, CompleteOnboarding(s)
      PROVE  DOMAIN user' = DOMAIN user
  BY <1>3 DEF CompleteOnboarding
<1>4. QED
  BY <1>1, <1>2, <1>3, AccountsStep

LEMMA AddressStep ==
  ASSUME Typed, Ranges, AddressInv, [SignInNext]_signVars
  PROVE  AddressInv'
<1>0. /\ DOMAIN user = 1..Len(user) /\ Len(user) \in Nat
      /\ DOMAIN user' = 1..Len(user') /\ Len(user') \in Nat
      /\ \A u \in DOMAIN user : user'[u].email = user[u].email
  BY RowTypes, TypedStep, StaysStep, LenProperties DEF Typed, Stays, UsersStay
<1>1. CASE DOMAIN user' = DOMAIN user
  BY <1>0, <1>1 DEF AddressInv
<1>2. CASE /\ Len(user') = Len(user) + 1
           /\ \A v \in DOMAIN user :
                 AddressOf[user'[Len(user) + 1].email] # AddressOf[user[v].email]
  <2>1. \A u \in DOMAIN user' : u \in DOMAIN user \/ u = Len(user) + 1
    BY <1>0, <1>2
  <2>2. QED
    BY <1>0, <1>2, <2>1 DEF AddressInv
<1>3. QED
  BY <1>1, <1>2, UsersStep

\* What a step records of an account that is there.
LEMMA EventsStep ==
  ASSUME Typed, Ranges, [SignInNext]_signVars, NEW u \in DOMAIN user
  PROVE  /\ \/ audit'[u]["first_signed_in"] = audit[u]["first_signed_in"]
            \/ /\ audit'[u]["first_signed_in"] = audit[u]["first_signed_in"] + 1
               /\ \E q \in Requests : Answer(q) /\ request[q].created /\ u = request[q].user
         /\ \/ /\ audit'[u]["onboarding_completed"] = audit[u]["onboarding_completed"]
               /\ user'[u].onboarded = user[u].onboarded
            \/ /\ audit'[u]["onboarding_completed"] = audit[u]["onboarding_completed"] + 1
               /\ ~user[u].onboarded /\ user'[u].onboarded
<1> DEFINE First == \/ audit'[u]["first_signed_in"] = audit[u]["first_signed_in"]
                    \/ /\ audit'[u]["first_signed_in"] = audit[u]["first_signed_in"] + 1
                       /\ \E q \in Requests : Answer(q) /\ request[q].created /\ u = request[q].user
           Onboard == \/ /\ audit'[u]["onboarding_completed"] = audit[u]["onboarding_completed"]
                         /\ user'[u].onboarded = user[u].onboarded
                      \/ /\ audit'[u]["onboarding_completed"] = audit[u]["onboarding_completed"] + 1
                         /\ ~user[u].onboarded /\ user'[u].onboarded
<1>0. /\ DOMAIN user = 1..Len(user) /\ DOMAIN audit = DOMAIN user /\ Len(audit) = Len(user)
      /\ \A q \in Requests : request[q] \in RequestRow
      /\ \A x \in DOMAIN user : user[x] \in UserRow
      /\ user \in Seq(UserRow)
  BY RowTypes DEF Ranges, Typed
<1>1. CASE UNCHANGED <<user, audit>>
  BY <1>1
<1>2. ASSUME NEW q \in Requests, request[q].email \in Emails, InsertUser(request[q].email)
      PROVE  First /\ Onboard
  <2>1. user'[u] = user[u] /\ audit'[u] = audit[u]
    BY <1>0, <1>2, Inserted
  <2>2. QED
    BY <2>1
<1>3. ASSUME NEW v \in DOMAIN audit, NEW events, Record(v, events)
      PROVE  \A k \in Events : audit'[u][k] = IF u = v /\ k \in events THEN audit[u][k] + 1
                                              ELSE audit[u][k]
  <2>1. CASE u = v
    BY <1>3, <2>1, Recorded
  <2>2. CASE u # v
    BY <1>0, <1>3, <2>2, Recorded
  <2>3. QED
    BY <2>1, <2>2
<1>4. ASSUME NEW q \in Requests, CreateOrganization(q), ~Owns(request[q].user) PROVE First /\ Onboard
  <2>1. request[q].user \in DOMAIN audit
    BY <1>0, <1>4, RowTypes DEF CreateOrganization, At, Ranges, Fits, Established, RequestRow
  <2>2. Record(request[q].user, {"organization.created"}) /\ user' = user
    BY <1>4 DEF CreateOrganization, HasFirst
  <2>3. QED
    BY <1>3, <2>1, <2>2 DEF Events
<1>5. ASSUME NEW q \in Requests, Answer(q) PROVE First /\ Onboard
  <2> DEFINE events == {"signed_in"} \cup IF request[q].created THEN {"first_signed_in"} ELSE {}
  <2>1. request[q].user \in DOMAIN audit
    BY <1>0, <1>5, RowTypes DEF Answer, At, Ranges, Fits, Established, RequestRow
  <2>2. Record(request[q].user, events) /\ user' = user
    BY <1>5 DEF Answer
  <2>3. "onboarding_completed" \notin events /\ ("first_signed_in" \in events <=> request[q].created)
    OBVIOUS
  <2> HIDE DEF events
  <2>4. \A k \in Events : audit'[u][k] = IF u = request[q].user /\ k \in events THEN audit[u][k] + 1
                                         ELSE audit[u][k]
    BY <1>3, <2>1, <2>2
  <2>5. Onboard
    BY <2>2, <2>3, <2>4 DEF Events
  <2>6. First
    BY <1>5, <2>3, <2>4 DEF Events
  <2>7. QED
    BY <2>5, <2>6
<1>6. ASSUME NEW s \in DOMAIN session, CompleteOnboarding(s),
             MayOnboard(session[s].user)
      PROVE  First /\ Onboard
  <2>1. PICK v : v = session[s].user
    OBVIOUS
  <2>2. v \in DOMAIN audit /\ ~user[v].onboarded
    BY <1>0, <1>6, <2>1 DEF Ranges, MayOnboard
  <2>3. Record(v, {"onboarding_completed"}) /\ user' = [user EXCEPT ![v].onboarded = TRUE]
    BY <1>6, <2>1 DEF CompleteOnboarding
  <2>4. user'[u].onboarded = IF u = v THEN TRUE ELSE user[u].onboarded
    BY <1>0, <2>2, <2>3 DEF UserRow
  <2>5. \A k \in Events : audit'[u][k] = IF u = v /\ k = "onboarding_completed" THEN audit[u][k] + 1
                                         ELSE audit[u][k]
    BY <1>3, <2>2, <2>3
  <2>6. QED
    BY <2>2, <2>4, <2>5 DEF Events
<1>7. QED
  BY <1>1, <1>2, <1>4, <1>5, <1>6, AccountsStep

\* A request that created an account did so for one nobody had.
LEMMA NewAccount ==
  ASSUME Typed, Ranges, NEW q \in Requests, Claims(q), request'[q].created
  PROVE  /\ request'[q].user = Len(user) + 1
         /\ audit'[Len(user) + 1]["first_signed_in"] = 0
<1>0. request[q] \in RequestRow /\ request \in [Requests -> RequestRow]
  BY DEF Typed
<1>1. request[q].email \in Emails
  BY DEF Claims, ClaimByEmail, ClaimGoogle, At, Ranges, Fits
<1>2. PICK e : e = request[q].email
  OBVIOUS
<1>3. /\ InsertUser(e) /\ Account(e) = {} /\ request'[q].user = Claimed(e)
  <2>1. CASE ClaimByEmail(q)
    <3>1. request'[q] = [request[q] EXCEPT !.pc = "create", !.user = Claimed(e),
                                           !.created = Account(e) = {}]
      BY <1>0, <1>2, <2>1 DEF ClaimByEmail, Goes
    <3>2. request'[q].created = (Account(e) = {}) /\ request'[q].user = Claimed(e)
      BY <1>0, <3>1 DEF RequestRow
    <3>3. QED
      BY <1>2, <2>1, <3>2 DEF ClaimByEmail
  <2>2. CASE ClaimGoogle(q)
    <3> DEFINE known == Durable(request[q].subject)
    <3>1. request'[q] = [request[q] EXCEPT !.pc = "create",
                                           !.user = IF known THEN linked[request[q].subject] ELSE Claimed(e),
                                           !.created = ~known /\ Account(e) = {}]
      BY <1>0, <1>2, <2>2 DEF ClaimGoogle, Goes
    <3>2. /\ request'[q].created = (~known /\ Account(e) = {})
          /\ request'[q].user = IF known THEN linked[request[q].subject] ELSE Claimed(e)
      BY <1>0, <3>1 DEF RequestRow
    <3>3. ~known /\ Account(e) = {}
      BY <3>2
    <3>4. QED
      BY <1>2, <2>2, <3>2, <3>3 DEF ClaimGoogle
  <2>3. QED
    BY <2>1, <2>2 DEF Claims
<1>4. e \in Emails /\ Len(audit) = Len(user)
  BY <1>1, <1>2 DEF Ranges
<1>5. /\ Claimed(e) = Len(user) + 1
      /\ audit'[Len(user) + 1] = [k \in Events |-> 0]
  BY <1>3, <1>4, Inserted
<1>6. QED
  BY <1>3, <1>5 DEF Events

LEMMA FirstStep ==
  ASSUME Typed, Ranges, FirstInv, [SignInNext]_signVars
  PROVE  FirstInv'
<1> DEFINE Created(q) == request[q].created /\ request[q].pc \in Established
<1>0. /\ DOMAIN user = 1..Len(user) /\ Len(user) \in Nat /\ DOMAIN user' = 1..Len(user')
      /\ \A q \in Requests : request[q] \in RequestRow
      /\ request \in [Requests -> RequestRow]
      /\ \A u \in DOMAIN user : audit[u] \in [Events -> Nat]
  BY RowTypes, TypedStep, LenProperties DEF Ranges, Typed
<1>1. ASSUME NEW q \in Requests, request'[q].created, request'[q].pc \in Established
      PROVE  Claims(q) \/ (Created(q) /\ request'[q].user = request[q].user)
  <2>1. request'[q] # Idle /\ ~Redeems(q)
    BY <1>1 DEF Idle, Redeems, Established
  <2>2. QED
    BY <1>1, <2>1, RequestsStep DEF Advances
<1>2. ASSUME NEW q \in Requests, Created(q) PROVE request[q].user \in DOMAIN user
  BY <1>0, <1>2 DEF Ranges, Fits, RequestRow
<1>3. ASSUME NEW u \in DOMAIN user'
      PROVE  /\ audit'[u]["first_signed_in"] <= 1
             /\ audit'[u]["onboarding_completed"] <= 1
             /\ ~user'[u].onboarded => audit'[u]["onboarding_completed"] = 0
  <2>1. CASE u \in DOMAIN user
    <3>1. audit[u]["first_signed_in"] \in Nat /\ audit[u]["onboarding_completed"] \in Nat
      BY <1>0, <2>1 DEF Events
    <3>2. audit'[u]["first_signed_in"] <= 1
      <4>1. ASSUME NEW q \in Requests, Answer(q), request[q].created, u = request[q].user
            PROVE  audit[u]["first_signed_in"] = 0
        BY <4>1 DEF FirstInv, Answer, At, Established
      <4>2. QED
        BY <2>1, <3>1, <4>1, EventsStep DEF FirstInv
    <3>3. audit'[u]["onboarding_completed"] <= 1
      BY <2>1, <3>1, EventsStep DEF FirstInv
    <3>4. ~user'[u].onboarded => audit'[u]["onboarding_completed"] = 0
      BY <2>1, EventsStep DEF FirstInv
    <3>5. QED
      BY <3>2, <3>3, <3>4
  <2>2. CASE u \notin DOMAIN user
    <3>1. /\ Len(user') = Len(user) + 1 /\ audit'[Len(user) + 1] = [k \in Events |-> 0]
      BY <2>2, UsersStep
    <3>2. u = Len(user) + 1
      BY <1>0, <2>2, <3>1
    <3>3. QED
      BY <3>1, <3>2 DEF Events
  <2>3. QED
    BY <2>1, <2>2
<1>4. ASSUME NEW q \in Requests, request'[q].created, request'[q].pc \in Established
      PROVE  audit'[request'[q].user]["first_signed_in"] = 0
  <2>1. CASE Claims(q)
    BY <1>4, <2>1, NewAccount
  <2>2. CASE Created(q) /\ request'[q].user = request[q].user
    <3>1. PICK u : u = request[q].user
      OBVIOUS
    <3>2. u \in DOMAIN user /\ audit[u]["first_signed_in"] = 0
      BY <1>2, <2>2, <3>1 DEF FirstInv
    <3>3. ASSUME NEW p \in Requests, Answer(p), request[p].created, u = request[p].user PROVE FALSE
      <4>1. p = q
        BY <2>2, <3>1, <3>3 DEF FirstInv, Answer, At, Established
      <4>2. request'[p] = Idle
        BY <1>0, <3>3 DEF Answer, Goes
      <4>3. QED
        BY <1>4, <4>1, <4>2 DEF Idle
    <3>4. audit'[u]["first_signed_in"] = 0
      BY <3>2, <3>3, EventsStep
    <3>5. QED
      BY <2>2, <3>1, <3>4
  <2>3. QED
    BY <1>1, <1>4, <2>1, <2>2
<1>5. ASSUME NEW q \in Requests, NEW p \in Requests,
             request'[q].created, request'[q].pc \in Established,
             request'[p].created, request'[p].pc \in Established,
             request'[q].user = request'[p].user
      PROVE  q = p
  <2>1. ASSUME NEW x \in Requests, NEW y \in Requests, Claims(x), request'[x].created,
               Created(y), request'[y].user = request[y].user
        PROVE  request'[x].user # request'[y].user
    BY <1>0, <1>2, <2>1, NewAccount
  <2>2. CASE Claims(q) /\ Claims(p)
    BY <2>2, ClaimsMove
  <2>3. CASE Created(q) /\ request'[q].user = request[q].user
             /\ Created(p) /\ request'[p].user = request[p].user
    BY <1>5, <2>3 DEF FirstInv
  <2>4. QED
    BY <1>1, <1>5, <2>1, <2>2, <2>3
<1>6. QED
  BY <1>3, <1>4, <1>5 DEF FirstInv

-----------------------------------------------------------------------------
(* The theorems *)

\* The inductive invariant.
SignInInv ==
    /\ Typed /\ Ranges
    /\ SubjectInv /\ SpentInv
    /\ OrganizationInv /\ AddressInv /\ FirstInv

LEMMA SignInInitially ==
  ASSUME SignInit
  PROVE  SignInInv
<1>1. /\ user = <<>> /\ audit = <<>> /\ organization = <<>> /\ session = <<>>
      /\ link = [l \in Links |-> [email |-> None, life |-> "absent"]]
      /\ oidc = [o \in States |-> "absent"]
      /\ linked = [g \in Subjects |-> 0]
      /\ request = [q \in Requests |-> Idle]
  BY DEF SignInit
<1>2. /\ DOMAIN user = {} /\ DOMAIN organization = {} /\ DOMAIN session = {}
      /\ Len(user) = 0 /\ Len(audit) = 0 /\ Len(session) = 0
  BY <1>1, EmptySeq
<1>3. Idle \in RequestRow
  BY DEF Idle, RequestRow
<1>4. Typed
  BY <1>1, <1>3, EmptySeq DEF Typed, Life
<1>5. \A q \in Requests : request[q] = Idle
  BY <1>1
<1>6. Ranges
  <2>1. \A q \in Requests : Fits(q)
    BY <1>2, <1>5 DEF Fits, Idle, Established, Sessioned
  <2>2. QED
    BY <1>1, <1>2, <2>1 DEF Ranges
<1>7. SubjectInv /\ SpentInv
  BY <1>2, <1>5 DEF SubjectInv, SpentInv, Idle, Established
<1>8. OrganizationInv /\ AddressInv /\ FirstInv
  BY <1>2, <1>5 DEF OrganizationInv, AddressInv, FirstInv, Idle, Established, Owning
<1>9. QED
  BY <1>4, <1>6, <1>7, <1>8 DEF SignInInv

LEMMA SignInKept ==
  ASSUME SignInInv, [SignInNext]_signVars
  PROVE  SignInInv'
BY TypedStep, RangesStep, SubjectStep, SpentStep, OrganizationStep, AddressStep, FirstStep
DEF SignInInv

\* The rows and what the requests hold agree in every reachable state, whatever the
\* requests of sign-in do at once and wherever they die.
THEOREM SignInInvariance == SignInSpec => []SignInInv
<1>1. SignInit => SignInInv
  BY SignInInitially
<1>2. SignInInv /\ [SignInNext]_signVars => SignInInv'
  BY SignInKept
<1>3. QED
  BY <1>1, <1>2, PTL DEF SignInSpec

\* A Google account stays with the account it was first linked to (claimGoogle).
THEOREM SubjectKept == SignInSpec => []SubjectKeepsAccount
<1>1. SignInInv => SubjectKeepsAccount
  BY DEF SignInInv, SubjectInv, SubjectKeepsAccount
<1>2. QED
  BY <1>1, SignInInvariance, PTL

\* A dead session stays dead, and a credential establishes one session at most (consume,
\* resolveSession, revokeSessions).
THEOREM SpentIsSpent == SignInSpec => SpentStaysSpent
<1> DEFINE Step == /\ \A s \in DOMAIN session : session[s].life # "live" => session'[s].life # "live"
                   /\ \A s \in DOMAIN session' : \A t \in DOMAIN session' :
                          session'[s].from = session'[t].from => s = t
<1>1. SignInInv /\ SignInInv' /\ [SignInNext]_signVars => Step
  BY StaysStep DEF SignInInv, SpentInv, Stays, SessionsStay
<1>2. QED
  BY <1>1, SignInInvariance, PTL DEF SignInSpec, SpentStaysSpent

\* The rows have the types SignIn states.
LEMMA SignTypes ==
  ASSUME Typed, Ranges
  PROVE  SignTypeOK
<1>0. /\ Len(user) \in Nat /\ Len(session) \in Nat
      /\ DOMAIN organization = 1..Len(organization) /\ Len(organization) \in Nat
      /\ DOMAIN session = 1..Len(session)
      /\ \A s \in DOMAIN session : session[s] \in SessionRow
      /\ \A q \in Requests : request[q] \in RequestRow
  BY RowTypes
<1>1. linked \in [Subjects -> 0..Len(user)]
  BY <1>0 DEF Typed, Ranges
<1>2. organization \in Seq(1..Len(user))
  <2>1. organization \in [1..Len(organization) -> 1..Len(user)]
    BY <1>0, LenProperties DEF Typed, Ranges
  <2>2. QED
    BY <1>0, <2>1
<1>3. session \in Seq([user: 1..Len(user), life: {"live", "expired", "revoked"}, sent: BOOLEAN,
                       from: Credential, subject: Subjects \cup {None}])
  <2> DEFINE Row == [user: 1..Len(user), life: {"live", "expired", "revoked"}, sent: BOOLEAN,
                     from: Credential, subject: Subjects \cup {None}]
  <2>1. \A s \in DOMAIN session : session[s] \in Row
    BY <1>0 DEF Ranges, SessionRow
  <2> HIDE DEF Row
  <2>2. session \in [1..Len(session) -> Row]
    BY <1>0, <2>1, LenProperties DEF Typed
  <2>3. session \in Seq(Row)
    BY <1>0, <2>2
  <2>4. QED
    BY <2>3 DEF Row
<1>4. \A q \in Requests : request[q] \in
           [pc: {"idle"} \cup SignInSteps, email: Emails \cup {None}, subject: Subjects \cup {None},
            from: Credential \cup {None}, user: 0..Len(user), created: BOOLEAN,
            session: 0..Len(session), previous: 0..Len(session)]
  BY <1>0 DEF Ranges, Fits, RequestRow
<1>5. request \in [Requests ->
           [pc: {"idle"} \cup SignInSteps, email: Emails \cup {None}, subject: Subjects \cup {None},
            from: Credential \cup {None}, user: 0..Len(user), created: BOOLEAN,
            session: 0..Len(session), previous: 0..Len(session)]]
  BY <1>4 DEF Typed
<1>6. QED
  BY <1>1, <1>2, <1>3, <1>5 DEF SignTypeOK, Typed, Ranges, UserRow

\* What happens to an account for the first time happens once, and whoever was answered
\* has an organization (claimUser, createOrganizationWithOwner, completeOnboarding).
THEOREM EachFirstOnce == SignInSpec => []FirstTimesOnce
<1>1. SignInInv => FirstTimesOnce
  <2> SUFFICES ASSUME SignInInv PROVE FirstTimesOnce
    OBVIOUS
  <2>0. Typed /\ Ranges /\ OrganizationInv /\ AddressInv /\ FirstInv
    BY DEF SignInInv
  <2>1. ASSUME NEW u \in DOMAIN user
        PROVE  /\ Cardinality({i \in DOMAIN organization : organization[i] = u})
                      = audit[u]["organization.created"]
               /\ \A k \in Events \ {"signed_in"} : audit[u][k] <= 1
    <3> DEFINE own == {i \in DOMAIN organization : organization[i] = u}
    <3>1. CASE Owns(u)
      <4>1. PICK i \in DOMAIN organization : organization[i] = u
        BY <3>1 DEF Owns
      <4>2. own = {i}
        BY <2>0, <4>1 DEF OrganizationInv
      <4>3. Cardinality(own) = 1
        BY <4>2, FS_Singleton
      <4>4. audit[u]["organization.created"] = 1
        BY <2>0, <3>1 DEF OrganizationInv
      <4>5. QED
        BY <2>0, <4>3, <4>4 DEF FirstInv, Events
    <3>2. CASE ~Owns(u)
      <4>1. own = {}
        BY <3>2 DEF Owns
      <4>2. Cardinality(own) = 0
        BY <4>1, FS_EmptySet
      <4>3. audit[u]["organization.created"] = 0
        BY <2>0, <3>2 DEF OrganizationInv
      <4>4. QED
        BY <2>0, <4>2, <4>3 DEF FirstInv, Events
    <3>3. QED
      BY <3>1, <3>2
  <2>2. \A s \in Tokens : Owns(session[s].user)
    BY <2>0 DEF OrganizationInv, Tokens
  <2>3. QED
    BY <2>0, <2>1, <2>2, SignTypes DEF FirstTimesOnce, AddressInv
<1>2. QED
  BY <1>1, SignInInvariance, PTL
=============================================================================
