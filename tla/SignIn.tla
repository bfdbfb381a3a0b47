------------------------------- MODULE SignIn -------------------------------
(***************************************************************************)
(* Sign-in: mailed links and Google sign-in, the accounts, sessions and    *)
(* first organizations they lead to, onboarding, sign-out and revocation   *)
(* (routes/auth.ts over magic-links.ts, identity.ts, users.ts, sessions.ts *)
(* and three operations of postgres.ts).                                   *)
(*                                                                         *)
(* A request is at the statement its pc names, and each statement or       *)
(* transaction is one action.  A request may die at any statement: its     *)
(* process ends, the statement fails, or the answer is lost.  Sessions     *)
(* expire between any two steps.  A call under a session resolves it and   *)
(* writes in one action: what it writes does not ask for the session       *)
(* again.  Rate windows, the CSRF check, the browser a link is bound to,   *)
(* names, audit rows of other events and organizations joined by other     *)
(* ways are left out.                                                      *)
(***************************************************************************)
EXTENDS Naturals, Sequences, FiniteSets

CONSTANTS
    Requests,      \* requests under way at once
    Links,         \* mailed links
    States,        \* OIDC states, one per Google sign-in begun
    Subjects,      \* Google accounts
    Emails,        \* addresses as somebody spells them
    AddressOf,     \* the lowercased address of each spelling
    None,          \* SQL null
    MaxSessions,   \* bound: rows of auth_sessions
    MaxVisits,     \* bound: requests other than sign-ins
    MaxFaults      \* bound: requests that die

ASSUME AddressOfType == DOMAIN AddressOf = Emails
ASSUME CredentialsDiffer == Links \cap States = {}
ASSUME NoneIsNothing == None \notin Links \cup States \cup Subjects \cup Emails

VARIABLES
    link,          \* magic_link_tokens: the address and state of each link
    oidc,          \* identity_oidc_requests: the state of each row
    user,          \* users by their order: the address as first spelled, and
                   \* whether onboarding_completed_at is set
    linked,        \* identity_provider_accounts: the user of each subject, 0 for none
    organization,  \* organizations: the owner of each
    session,       \* auth_sessions by their order; who established one is history
    audit,         \* audit_events about a user, with how often each was recorded
    request,       \* requests: where they are and what they hold
    visits,        \* history: requests other than sign-ins so far
    faults         \* history: requests that died so far

signVars == <<link, oidc, user, linked, organization, session, audit, request, visits, faults>>

Credential == Links \cup States
Life == {"absent", "good", "consumed", "expired"}
Events == {"organization.created", "first_signed_in", "signed_in", "onboarding_completed"}
SignInSteps == {"claim", "claimGoogle", "create", "list", "organize", "resolve", "revoke", "audit"}

Idle == [pc |-> "idle", email |-> None, subject |-> None, from |-> None, user |-> 0,
         created |-> FALSE, session |-> 0, previous |-> 0]

SignTypeOK ==
    /\ link \in [Links -> [email: Emails \cup {None}, life: Life]]
    /\ oidc \in [States -> Life]
    /\ user \in Seq([email: Emails, onboarded: BOOLEAN])
    /\ linked \in [Subjects -> 0..Len(user)]
    /\ organization \in Seq(1..Len(user))
    /\ session \in Seq([user: 1..Len(user), life: {"live", "expired", "revoked"}, sent: BOOLEAN,
                        from: Credential, subject: Subjects \cup {None}])
    /\ audit \in Seq([Events -> Nat]) /\ Len(audit) = Len(user)
    /\ request \in [Requests ->
           [pc: {"idle"} \cup SignInSteps, email: Emails \cup {None}, subject: Subjects \cup {None},
            from: Credential \cup {None}, user: 0..Len(user), created: BOOLEAN,
            session: 0..Len(session), previous: 0..Len(session)]]

SignInit ==
    /\ link = [l \in Links |-> [email |-> None, life |-> "absent"]]
    /\ oidc = [o \in States |-> "absent"]
    /\ user = <<>> /\ audit = <<>>
    /\ linked = [g \in Subjects |-> 0]
    /\ organization = <<>>
    /\ session = <<>>
    /\ request = [q \in Requests |-> Idle]
    /\ visits = 0 /\ faults = 0

-----------------------------------------------------------------------------
(* Accounts and sessions *)

\* The row the unique index on the lowercased address leaves for this spelling.
Account(e) == {u \in DOMAIN user : AddressOf[user[u].email] = AddressOf[e]}

\* insert ... on conflict do nothing, and the select that follows: the user.
Claimed(e) == IF Account(e) = {} THEN Len(user) + 1 ELSE CHOOSE u \in Account(e) : TRUE

InsertUser(e) ==
    /\ user' = IF Account(e) = {} THEN Append(user, [email |-> e, onboarded |-> FALSE]) ELSE user
    /\ audit' = IF Account(e) = {} THEN Append(audit, [k \in Events |-> 0]) ELSE audit

Record(u, events) == audit' = [audit EXCEPT ![u] = [k \in Events |->
                                  IF k \in events THEN @[k] + 1 ELSE @[k]]]

\* resolveSession: the row a token leads to, touched; 0 rows for a dead session.
Resolves(s) == session[s].life = "live"

Touched(s) == [session EXCEPT ![s].life = "live"]
Revoked(which) ==
    [s \in DOMAIN session |-> IF s \in which /\ session[s].life # "revoked"
                              THEN [session[s] EXCEPT !.life = "revoked"] ELSE session[s]]

\* A browser presents a token it was sent, or none.
Tokens == {s \in DOMAIN session : session[s].sent}

At(q, pc) == request[q].pc = pc
Goes(q, value) == request' = [request EXCEPT ![q] = value]
GoesTo(q, pc) == request' = [request EXCEPT ![q].pc = pc]

-----------------------------------------------------------------------------
(* Credentials *)

\* requestMagicLink, once the windows allow it.
RequestMagicLink(l, e) ==
    /\ link[l].life = "absent"
    /\ link' = [link EXCEPT ![l] = [email |-> e, life |-> "good"]]
    /\ UNCHANGED <<oidc, user, linked, organization, session, audit, request, visits, faults>>

\* googleStart
GoogleStart(o) ==
    /\ oidc[o] = "absent"
    /\ oidc' = [oidc EXCEPT ![o] = "good"]
    /\ UNCHANGED <<link, user, linked, organization, session, audit, request, visits, faults>>

\* Time passes for a link, an OIDC request or a session.
Expire ==
    /\ \/ \E l \in Links : link[l].life = "good" /\ link' = [link EXCEPT ![l].life = "expired"]
                           /\ UNCHANGED <<oidc, session>>
       \/ \E o \in States : oidc[o] = "good" /\ oidc' = [oidc EXCEPT ![o] = "expired"]
                            /\ UNCHANGED <<link, session>>
       \/ \E s \in DOMAIN session :
              session[s].life = "live" /\ session' = [session EXCEPT ![s].life = "expired"]
              /\ UNCHANGED <<link, oidc>>
    /\ UNCHANGED <<user, linked, organization, audit, request, visits, faults>>

\* consume: one conditional update, whatever other request redeems the same token.
Consumable_Unspent(life) == life \in {"good", "consumed"}
Consumable(life) == life = "good"

\* callback: a link is consumed before anything else is done for it.
Callback(q, l, previous) ==
    /\ At(q, "idle")
    /\ Consumable(link[l].life)
    /\ link' = [link EXCEPT ![l].life = "consumed"]
    /\ Goes(q, [Idle EXCEPT !.pc = "claim", !.email = link[l].email, !.from = l,
                            !.previous = previous])
    /\ UNCHANGED <<oidc, user, linked, organization, session, audit, visits, faults>>

\* googleCallback: what Google says of the caller, then the state is consumed.
GoogleCallback(q, o, g, e, previous) ==
    /\ At(q, "idle")
    /\ Consumable(oidc[o])
    /\ oidc' = [oidc EXCEPT ![o] = "consumed"]
    /\ Goes(q, [Idle EXCEPT !.pc = "claimGoogle", !.email = e, !.subject = g, !.from = o,
                            !.previous = previous])
    /\ UNCHANGED <<link, user, linked, organization, session, audit, visits, faults>>

-----------------------------------------------------------------------------
(* Accounts *)

ClaimByEmail(q) ==
    LET e == request[q].email IN
    /\ At(q, "claim")
    /\ InsertUser(e)
    /\ Goes(q, [request[q] EXCEPT !.pc = "create", !.user = Claimed(e),
                                  !.created = Account(e) = {}])
    /\ UNCHANGED <<link, oidc, linked, organization, session, visits, faults>>

\* The subject is the durable identity; the address counts only the first time.
Durable_ByAddress(g) == FALSE
Durable(g) == linked[g] # 0

\* claimGoogle: one transaction under the subject's advisory lock.
ClaimGoogle(q) ==
    LET e == request[q].email
        g == request[q].subject
        known == Durable(g)
    IN
    /\ At(q, "claimGoogle")
    /\ IF known THEN UNCHANGED <<user, audit, linked>>
       ELSE InsertUser(e) /\ linked' = [linked EXCEPT ![g] = Claimed(e)]
    /\ Goes(q, [request[q] EXCEPT !.pc = "create",
                                  !.user = IF known THEN linked[g] ELSE Claimed(e),
                                  !.created = ~known /\ Account(e) = {}])
    /\ UNCHANGED <<link, oidc, organization, session, visits, faults>>

-----------------------------------------------------------------------------
(* establishSession *)

CreateSession(q) ==
    /\ At(q, "create")
    /\ Len(session) < MaxSessions
    /\ session' = Append(session, [user |-> request[q].user, life |-> "live", sent |-> FALSE,
                                   from |-> request[q].from, subject |-> request[q].subject])
    /\ Goes(q, [request[q] EXCEPT !.pc = "list", !.session = Len(session) + 1])
    /\ UNCHANGED <<link, oidc, user, linked, organization, audit, visits, faults>>

Owns(u) == \E i \in DOMAIN organization : organization[i] = u

AfterOrganization(q) == IF request[q].previous # 0 THEN "resolve" ELSE "audit"

\* listOrganizationMemberships
ListMemberships(q) ==
    /\ At(q, "list")
    /\ GoesTo(q, IF Owns(request[q].user) THEN AfterOrganization(q) ELSE "organize")
    /\ UNCHANGED <<link, oidc, user, linked, organization, session, audit, visits, faults>>

\* createOrganizationWithOwner, ensureFirst: looked for again under the user's row lock.
HasFirst_AsListed(u) == FALSE
HasFirst(u) == Owns(u)

CreateOrganization(q) ==
    LET u == request[q].user IN
    /\ At(q, "organize")
    /\ IF HasFirst(u) THEN UNCHANGED <<organization, audit>>
       ELSE organization' = Append(organization, u) /\ Record(u, {"organization.created"})
    /\ GoesTo(q, AfterOrganization(q))
    /\ UNCHANGED <<link, oidc, user, linked, session, visits, faults>>

\* The session of the cookie that came with the request is resolved, then revoked.
ResolvePrevious(q) ==
    LET s == request[q].previous IN
    /\ At(q, "resolve")
    /\ IF Resolves(s) THEN session' = Touched(s) /\ GoesTo(q, "revoke")
       ELSE UNCHANGED session /\ GoesTo(q, "audit")
    /\ UNCHANGED <<link, oidc, user, linked, organization, audit, visits, faults>>

RevokePrevious(q) ==
    /\ At(q, "revoke")
    /\ session' = Revoked({request[q].previous})
    /\ GoesTo(q, "audit")
    /\ UNCHANGED <<link, oidc, user, linked, organization, audit, visits, faults>>

\* The sign-in is recorded and answered: only now the browser has the token.
Answer(q) ==
    /\ At(q, "audit")
    /\ Record(request[q].user, {"signed_in"} \cup
                               IF request[q].created THEN {"first_signed_in"} ELSE {})
    /\ session' = [session EXCEPT ![request[q].session].sent = TRUE]
    /\ Goes(q, Idle)
    /\ UNCHANGED <<link, oidc, user, linked, organization, visits, faults>>

\* Whatever a request has written by the time it dies stays.
Die(q) ==
    /\ ~At(q, "idle") /\ faults < MaxFaults
    /\ faults' = faults + 1
    /\ Goes(q, Idle)
    /\ UNCHANGED <<link, oidc, user, linked, organization, session, audit, visits>>

-----------------------------------------------------------------------------
(* Requests under a session *)

\* A request names its session by the token it presents.
Visit(s) ==
    /\ visits < MaxVisits /\ visits' = visits + 1
    /\ s \in Tokens /\ Resolves(s)

\* Any request a signed-in user makes.
Present(s) ==
    /\ Visit(s)
    /\ session' = Touched(s)
    /\ UNCHANGED <<link, oidc, user, linked, organization, audit, request, faults>>

\* signOut, and revokeSessions of one session or of all.
Ends(s) ==
    {{s}} \cup {{t} : t \in {x \in DOMAIN session : session[x].user = session[s].user}}
          \cup {{t \in DOMAIN session : session[t].user = session[s].user}}

SignOut(s, which) ==
    /\ Visit(s)
    /\ which \in Ends(s)
    /\ session' = Revoked(which)
    /\ UNCHANGED <<link, oidc, user, linked, organization, audit, request, faults>>

\* completeOnboarding: under the user's row lock, which sets onboarding_completed_at
\* where it is null; only the first one writes.
MayOnboard(u) == Owns(u) /\ ~user[u].onboarded

CompleteOnboarding(s) ==
    LET u == session[s].user IN
    /\ Visit(s)
    /\ session' = Touched(s)
    /\ IF MayOnboard(u)
       THEN user' = [user EXCEPT ![u].onboarded = TRUE] /\ Record(u, {"onboarding_completed"})
       ELSE UNCHANGED <<user, audit>>
    /\ UNCHANGED <<link, oidc, linked, organization, request, faults>>

-----------------------------------------------------------------------------
(* Specification *)

Previous == {0} \cup Tokens

SignInNext ==
    \/ \E l \in Links, e \in Emails : RequestMagicLink(l, e)
    \/ \E o \in States : GoogleStart(o)
    \/ Expire
    \/ \E q \in Requests :
          \/ \E l \in Links, p \in Previous : Callback(q, l, p)
          \/ \E o \in States, g \in Subjects, e \in Emails, p \in Previous :
                 GoogleCallback(q, o, g, e, p)
          \/ ClaimByEmail(q) \/ ClaimGoogle(q)
          \/ CreateSession(q) \/ ListMemberships(q) \/ CreateOrganization(q)
          \/ ResolvePrevious(q) \/ RevokePrevious(q) \/ Answer(q) \/ Die(q)
    \/ \E s \in DOMAIN session :
          \/ Present(s)
          \/ \E which \in Ends(s) : SignOut(s, which)
          \/ CompleteOnboarding(s)

SignInSpec == SignInit /\ [][SignInNext]_signVars

-----------------------------------------------------------------------------
(* Properties *)

\* What happens to an account for the first time happens once, however many of its
\* sign-ins race by link and by Google, die half way or repeat: it is created once,
\* gets one first organization, is recorded once as signed in for the first time, and
\* is onboarded once.  Whoever has been answered has an organization.
FirstTimesOnce ==
    /\ SignTypeOK
    /\ \A u, v \in DOMAIN user : AddressOf[user[u].email] = AddressOf[user[v].email] => u = v
    /\ \A u \in DOMAIN user :
          /\ Cardinality({i \in DOMAIN organization : organization[i] = u})
                 = audit[u]["organization.created"]
          /\ \A k \in Events \ {"signed_in"} : audit[u][k] <= 1
    /\ \A s \in Tokens : Owns(session[s].user)

\* What was consumed, expired or revoked lets nobody in again: a session that is dead
\* stays dead, and a link or an OIDC state establishes one session at most.
SpentStaysSpent ==
    [][/\ \A s \in DOMAIN session : session[s].life # "live" => session'[s].life # "live"
       /\ \A s \in DOMAIN session' : \A t \in DOMAIN session' :
              session'[s].from = session'[t].from => s = t]_signVars

\* A Google account stays with the account it was first linked to, whichever address
\* Google reports for it later.
SubjectKeepsAccount ==
    \A s, t \in DOMAIN session :
        session[s].subject # None /\ session[s].subject = session[t].subject
        => session[s].user = session[t].user
=============================================================================
