------------------------------- MODULE Login -------------------------------
(***************************************************************************)
(* Signing in to the control plane.  The auth crate runs the OIDC          *)
(* authorization-code flow for several browser tabs at once: the tabs of   *)
(* one browser share a cookie jar, a flow's callback runs over several     *)
(* awaits (exchange the code, verify the token, look the user up, create   *)
(* the account, store the session), and the identity provider rotates its  *)
(* signing key behind the cached JWKS.  The first verified login of a      *)
(* subject creates its users row, its /24 and its libvirt network.         *)
(*                                                                         *)
(* A flow is one pair of state and nonce values, so both cookies hold the  *)
(* flow's own identity.  The name a subject asks for is PreferredName[s];  *)
(* names and subnets are numbered: <<n, k>> is the k-th variant of n.      *)
(***************************************************************************)
EXTENDS Naturals, FiniteSets

CONSTANTS Browser, Subject, Flow, PreferredName, NameVariants, Subnets,
          MaxRotations, MaxEvents

ASSUME LoginSizes == NameVariants \in Nat /\ Subnets \in Nat /\ MaxRotations \in Nat

VARIABLES
  users,      \* the users rows: [sub, name, net]
  networks,   \* the /24s whose libvirt network is defined
  sessions,   \* MemorySessionStore: [id, sub]; the id is the flow that made it
  jar,        \* the cookies of each browser
  visit,      \* the page request under way in each browser, with the cookies it carries
  leaving,    \* the browsers whose logout is done and not yet answered
  flow,       \* the flows, and the callbacks that serve them
  idp,        \* who is signed in at the provider in each browser ({} or {s})
  wired,      \* install_oidc has run
  epoch,      \* the provider's signing key
  jwks,       \* the cached key set ({} = never fetched)
  out,        \* the browser was told it is signed out (history)
  events      \* how many pages and logouts were asked for, cookies or sessions
              \* expired, keys were rotated and control planes restarted

loginVars == <<users, networks, sessions, jar, visit, leaving, flow, idp, wired, epoch, jwks,
          out, events>>

EmptyJar == [state |-> {}, silent |-> FALSE, probed |-> FALSE, session |-> {}]

\* A flow not yet started.  `sent` is the state and nonce cookie the callback
\* request carried, `key` the key that signed its ID token; `unasked` is kept
\* for the property: a page that the browser sent after it was told that it
\* is signed out began the flow.
FreshFlow == [stage |-> "new", sub |-> {}]

LoginInit ==
  /\ users = {} /\ networks = {} /\ sessions = {}
  /\ jar = [b \in Browser |-> EmptyJar] /\ visit = [b \in Browser |-> {}] /\ leaving = {}
  /\ flow = [f \in Flow |-> FreshFlow]
  /\ idp \in [Browser -> {{}} \cup {{s} : s \in Subject}]
  /\ wired = FALSE /\ epoch = 1 /\ jwks = {}
  /\ out = [b \in Browser |-> FALSE]
  /\ events = 0

\* What a browser, the provider or the machine does of its own accord.
Happens == events < MaxEvents /\ events' = events + 1

-----------------------------------------------------------------------------
(* Cookies.                                                                *)

\* attach_flow_cookies: a redirect to the provider replaces the flow cookies
\* of whatever flow this browser had under way.
attach_flow_cookies(b, f, silent) ==
  jar' = [jar EXCEPT ![b].state = {f}, ![b].silent = @ \/ silent]

\* The cookies of a completed login: the flow cookies and both probe cookies
\* are cleared, the session cookie is set.
SignedInJar(b, f) == [state |-> {}, silent |-> FALSE, probed |-> FALSE, session |-> {f}]

\* session_from_headers: the live session that a request's cookie names.
session_from_headers(cookies) == {s \in sessions : s.id \in cookies.session}

-----------------------------------------------------------------------------
(* Starting a flow.                                                        *)

StartFlow(b, f, stage, unasked) ==
  /\ flow[f].stage = "new"
  /\ flow' = [flow EXCEPT ![f] = [stage |-> stage, b |-> b, sub |-> {}, sent |-> {}, key |-> 0,
                                  unasked |-> unasked]]

\* /login: the visitor asked to sign in.
login_response(b, f) ==
  /\ wired
  /\ StartFlow(b, f, "asked", FALSE)
  /\ attach_flow_cookies(b, f, FALSE)
  /\ UNCHANGED <<users, networks, sessions, visit, leaving, idp, wired, epoch, jwks, events, out>>

\* A tab asks for a page, with the cookies of this moment.
OpenPage(b) ==
  /\ visit[b] = {} /\ Happens
  /\ visit' = [visit EXCEPT ![b] = {[session |-> jar[b].session, probed |-> jar[b].probed, out |-> out[b]]}]
  /\ UNCHANGED <<users, networks, sessions, jar, leaving, flow, idp, wired, epoch, jwks, out>>

\* A request without a live session is worth a probe, unless a probe came
\* back empty-handed or a logout suppressed it.
probe_is_useful(request) == session_from_headers(request) = {} /\ wired /\ ~request.probed

\* dashboard_gate judges the cookies the request came with, however long ago
\* that was: it starts a silent probe, or the page or the splash changes
\* nothing.
dashboard_gate(b, f) ==
  /\ \E request \in visit[b] :
       IF probe_is_useful(request)
       THEN StartFlow(b, f, "probing", request.out) /\ attach_flow_cookies(b, f, TRUE)
       ELSE UNCHANGED <<flow, jar>>
  /\ visit' = [visit EXCEPT ![b] = {}]
  /\ UNCHANGED <<users, networks, sessions, leaving, idp, wired, epoch, jwks, events, out>>

-----------------------------------------------------------------------------
(* The provider (external): it answers with a code for the identity signed *)
(* in there, or with an error.  prompt=none never asks the visitor.        *)

ProviderSignsIn(f, s) ==
  /\ \/ flow[f].stage = "asked"
     \/ flow[f].stage = "probing" /\ idp[flow[f].b] = {s}
  /\ flow' = [flow EXCEPT ![f].stage = "code", ![f].sub = {s}]
  /\ idp' = [idp EXCEPT ![flow[f].b] = {s}]
  /\ UNCHANGED <<users, networks, sessions, jar, wired, epoch, jwks, events, out, visit, leaving>>

ProviderRefuses(f) ==
  /\ \/ flow[f].stage = "asked"
     \/ flow[f].stage = "probing" /\ idp[flow[f].b] = {}
  /\ flow' = [flow EXCEPT ![f].stage = "error"]
  /\ UNCHANGED <<users, networks, sessions, jar, visit, leaving, idp, wired, epoch, jwks, events, out>>

RotateKey ==
  /\ epoch <= MaxRotations /\ Happens
  /\ epoch' = epoch + 1
  /\ UNCHANGED <<users, networks, sessions, jar, visit, leaving, flow, idp, wired, jwks, out>>

\* The provider publishes its current key and the one before it.
PublishedKeys == {epoch, epoch - 1} \ {0}

-----------------------------------------------------------------------------
(* callback_response, one action per await.                                *)

Fails(f) == flow' = [flow EXCEPT ![f].stage = "failed"]

\* The provider's error: the silent cookie decides whether it was a probe.
\* Without a provider wired every callback is an error.
callback_error(f) ==
  LET b == flow[f].b
      empty_handed == wired /\ jar[b].silent IN
  /\ flow[f].stage = "error"
  /\ Fails(f)
  /\ jar' = IF empty_handed
            THEN [jar EXCEPT ![b].silent = FALSE, ![b].probed = TRUE]
            ELSE jar
  /\ out' = [out EXCEPT ![b] = @ \/ empty_handed]
  /\ UNCHANGED <<users, networks, sessions, visit, leaving, idp, wired, epoch, jwks, events>>

\* The state cookie must be there and match; the request's cookies are what
\* the rest of the callback reads, whatever the jar holds by then.
callback_state(f) ==
  LET b == flow[f].b IN
  /\ flow[f].stage = "code"
  /\ flow' = [flow EXCEPT ![f].stage = IF wired /\ jar[b].state = {f} THEN "exchange" ELSE "failed",
                          ![f].sent = jar[b].state]
  /\ UNCHANGED <<users, networks, sessions, jar, visit, leaving, idp, wired, epoch, jwks, events, out>>

\* exchange: header credentials, then body credentials; a code buys a token
\* signed with the provider's current key.
exchange(f) ==
  /\ flow[f].stage = "exchange"
  /\ \/ flow' = [flow EXCEPT ![f].stage = "verify", ![f].key = epoch]
     \/ Fails(f)
  /\ UNCHANGED <<users, networks, sessions, jar, visit, leaving, idp, wired, epoch, jwks, events, out>>

\* fetch_jwks caches what the provider publishes now.
fetch_jwks == jwks' = PublishedKeys

\* verify, first attempt: the cached set, or a fetch, which may fail, when
\* there is none.  A key the cached set lacks is worth one more fetch; one a
\* set fetched just now lacks is not.  The token may also have expired.
verify(f) ==
  /\ flow[f].stage = "verify"
  /\ \/ jwks = {} /\ UNCHANGED jwks /\ Fails(f)
     \/ /\ IF jwks = {} THEN fetch_jwks ELSE UNCHANGED jwks
        /\ \/ /\ flow[f].key \in jwks'
              /\ flow' = [flow EXCEPT ![f].stage = "nonce"]
           \/ /\ flow[f].key \notin jwks' /\ jwks # {}
              /\ flow' = [flow EXCEPT ![f].stage = "refetch"]
           \/ /\ flow[f].key \notin jwks' \/ flow[f].key # epoch
              /\ jwks = {} \/ flow[f].key \in jwks'
              /\ Fails(f)
  /\ UNCHANGED <<users, networks, sessions, jar, visit, leaving, idp, wired, epoch, events, out>>

\* verify, second attempt with a fresh set; the fetch may fail.
verify_fresh(f) ==
  /\ flow[f].stage = "refetch"
  /\ \/ /\ fetch_jwks
        /\ flow' = [flow EXCEPT ![f].stage = IF flow[f].key \in PublishedKeys THEN "nonce" ELSE "failed"]
     \/ UNCHANGED jwks /\ Fails(f)
  /\ UNCHANGED <<users, networks, sessions, jar, visit, leaving, idp, wired, epoch, events, out>>

-----------------------------------------------------------------------------
(* The account.                                                            *)

\* Mutant of lookup: without a provisioner the callback goes on all the same.
lookup_unprovisioned(f, signups) ==
  /\ flow[f].stage = "nonce"
  /\ flow' = [flow EXCEPT ![f].stage =
                IF flow[f].sent # {f} THEN "failed"
                ELSE IF (\E u \in users : {u.sub} = flow[f].sub) \/ ~signups THEN "session"
                ELSE "provision"]
  /\ UNCHANGED <<users, networks, sessions, jar, visit, leaving, idp, wired, epoch, jwks, events, out>>

\* The nonce check and user_by_oidc_subject.  Only a deployment with signups
\* has a provisioner for a subject without a row.
lookup(f, signups) ==
  LET known == \E u \in users : {u.sub} = flow[f].sub IN
  /\ flow[f].stage = "nonce"
  /\ flow' = [flow EXCEPT ![f].stage =
                IF flow[f].sent # {f} THEN "failed"
                ELSE IF known THEN "session"
                ELSE IF signups THEN "provision" ELSE "failed"]
  /\ UNCHANGED <<users, networks, sessions, jar, visit, leaving, idp, wired, epoch, jwks, events, out>>

\* available_name: the first variant of the wanted name no row holds.
AvailableNames(want) == {<<want, k>> : k \in 1 .. NameVariants} \ {u.name : u \in users}
available_name(want) ==
  CHOOSE n \in AvailableNames(want) : \A m \in AvailableNames(want) : n[2] <= m[2]

\* next_free_subnet: the lowest subnet no row holds.
FreeSubnets == (1 .. Subnets) \ {u.net : u \in users}
next_free_subnet == CHOOSE n \in FreeSubnets : \A m \in FreeSubnets : n <= m

\* What makes the register transaction commit: a free name and a free subnet,
\* and the UNIQUE constraint on the subject.
CanRegister(s) ==
  /\ AvailableNames(PreferredName[s]) # {}
  /\ FreeSubnets # {}
  /\ \A u \in users : u.sub # s

\* AccountProvisioner.provision: register_user_with_available_name, one
\* transaction.
provision(f) ==
  /\ flow[f].stage = "provision"
  /\ \E s \in flow[f].sub :
       IF CanRegister(s)
       THEN /\ users' = users \cup {[sub |-> s, name |-> available_name(PreferredName[s]),
                                     net |-> next_free_subnet]}
            /\ flow' = [flow EXCEPT ![f].stage = "settle"]
       ELSE Fails(f) /\ UNCHANGED users
  /\ UNCHANGED <<networks, sessions, jar, visit, leaving, idp, wired, epoch, jwks, events, out>>

\* The /24 of a subject's account.
NetOf(s) == {u.net : u \in {v \in users : v.sub = s}}

\* AccountProvisioner.settle: define the new account's network; a failure is
\* logged and left to the convergence loop.
settle(f) ==
  /\ flow[f].stage = "settle"
  /\ \/ networks' = networks \cup UNION {NetOf(s) : s \in flow[f].sub}
     \/ UNCHANGED networks
  /\ flow' = [flow EXCEPT ![f].stage = "session"]
  /\ UNCHANGED <<users, sessions, jar, visit, leaving, idp, wired, epoch, jwks, events, out>>

\* ensure_user_networks, on every convergence tick: the networks of all users.
ensure_user_networks ==
  /\ networks # {u.net : u \in users}
  /\ networks' = {u.net : u \in users}
  /\ UNCHANGED <<users, sessions, jar, visit, leaving, flow, idp, wired, epoch, jwks, events, out>>

-----------------------------------------------------------------------------
(* Sessions.                                                               *)

\* new_session and the answer that carries its cookie.
new_session(f) ==
  /\ flow[f].stage = "session"
  /\ \E s \in flow[f].sub : sessions' = sessions \cup {[id |-> f, sub |-> s]}
  /\ jar' = [jar EXCEPT ![flow[f].b] = SignedInJar(flow[f].b, f)]
  /\ flow' = [flow EXCEPT ![f].stage = "done"]
  /\ out' = [out EXCEPT ![flow[f].b] = FALSE]
  /\ UNCHANGED <<users, networks, visit, leaving, idp, wired, epoch, jwks, events>>

\* Mutant of LoggedOutJar: logout does not suppress the next probe.
ProbingJar(b) == [jar[b] EXCEPT !.session = {}]

\* The logout answer: the session cookie goes, and suppress_next_probe keeps
\* the provider's own session from signing the visitor straight back in.
LoggedOutJar(b) == [jar[b] EXCEPT !.session = {}, !.probed = TRUE]

\* logout_response: the session goes at the server first,
logout_response(b) ==
  /\ b \notin leaving /\ Happens
  /\ sessions' = sessions \ session_from_headers(jar[b])
  /\ leaving' = leaving \cup {b}
  /\ UNCHANGED <<users, networks, jar, visit, flow, idp, wired, epoch, jwks, out>>

\* and the browser learns of it, and gets the cookies, from the answer.
LogoutAnswered(b) ==
  /\ b \in leaving
  /\ leaving' = leaving \ {b}
  /\ jar' = [jar EXCEPT ![b] = LoggedOutJar(b)]
  /\ out' = [out EXCEPT ![b] = TRUE]
  /\ UNCHANGED <<users, networks, sessions, visit, flow, idp, wired, epoch, jwks, events>>

\* A session's lifetime ends: session() and delete_expired drop it.
session_expires(s) ==
  /\ Happens
  /\ sessions' = sessions \ {s}
  /\ UNCHANGED <<users, networks, jar, visit, leaving, flow, idp, wired, epoch, jwks, out>>

\* The browser drops its ten-minute flow cookies, or its probed cookie.
CookiesExpire(b) ==
  /\ Happens
  /\ \/ /\ jar[b].state # {}
        /\ jar' = [jar EXCEPT ![b].state = {}, ![b].silent = FALSE]
        /\ UNCHANGED out
     \/ /\ jar[b].probed
        /\ jar' = [jar EXCEPT ![b].probed = FALSE]
        /\ out' = [out EXCEPT ![b] = FALSE]
  /\ UNCHANGED <<users, networks, sessions, visit, leaving, flow, idp, wired, epoch, jwks>>

\* The control plane boots: sessions, the key cache and the discovered
\* provider live in memory, and requests under way are cut off.
ServeRestarts ==
  /\ Happens
  /\ sessions' = {} /\ jwks' = {} /\ wired' = FALSE
  /\ visit' = [b \in Browser |-> {}] /\ leaving' = {}
  /\ flow' = [f \in Flow |-> IF flow[f].stage \in {"new", "asked", "probing", "code", "error", "done"}
                             THEN flow[f] ELSE [flow[f] EXCEPT !.stage = "failed"]]
  /\ UNCHANGED <<users, networks, jar, idp, epoch, out>>

\* spawn_oidc_discovery retries until the provider answers, then install_oidc.
install_oidc ==
  /\ ~wired
  /\ wired' = TRUE /\ jwks' = {}
  /\ UNCHANGED <<users, networks, sessions, jar, visit, leaving, flow, idp, epoch, events, out>>

-----------------------------------------------------------------------------
Start(f) == \E b \in Browser : login_response(b, f) \/ dashboard_gate(b, f)

Provider(f) == ProviderRefuses(f) \/ \E s \in Subject : ProviderSignsIn(f, s)

callback_response(f) ==
  \/ callback_error(f) \/ callback_state(f) \/ exchange(f)
  \/ verify(f) \/ verify_fresh(f)
  \/ \E signups \in BOOLEAN : lookup(f, signups)
  \/ provision(f) \/ settle(f) \/ new_session(f)

Environment ==
  \/ \E b \in Browser : OpenPage(b) \/ logout_response(b) \/ LogoutAnswered(b) \/ CookiesExpire(b)
  \/ \E s \in sessions : session_expires(s)
  \/ RotateKey \/ ServeRestarts

LoginNext ==
  \/ \E f \in Flow : Start(f) \/ Provider(f) \/ callback_response(f)
  \/ Environment \/ install_oidc \/ ensure_user_networks

LoginSpec == LoginInit /\ [][LoginNext]_loginVars

-----------------------------------------------------------------------------
Stages == {"new", "asked", "probing", "code", "error", "exchange", "verify",
           "refetch", "nonce", "provision", "settle", "session", "done", "failed"}

\* The state of the login component has its type: rows, sessions, cookies,
\* callbacks and key caches (auth/src, store/src/users.rs).
LoginTypeOK ==
  /\ users \subseteq [sub : Subject, name : {PreferredName[s] : s \in Subject} \X (1 .. NameVariants),
                      net : 1 .. Subnets]
  /\ networks \subseteq 1 .. Subnets
  /\ sessions \subseteq [id : Flow, sub : Subject]
  /\ jar \in [Browser -> [state : SUBSET Flow, silent : BOOLEAN, probed : BOOLEAN,
                          session : SUBSET Flow]]
  /\ \A b \in Browser : visit[b] \subseteq [session : SUBSET Flow, probed : BOOLEAN, out : BOOLEAN]
  /\ leaving \subseteq Browser
  /\ \A f \in Flow : \/ flow[f] = FreshFlow
                     \/ flow[f] \in [stage : Stages \ {"new"}, b : Browser, sub : SUBSET Subject,
                                     sent : SUBSET Flow, key : 0 .. epoch, unasked : BOOLEAN]
  /\ epoch \in 1 .. MaxRotations + 1 /\ jwks \subseteq 1 .. epoch

\* However many first logins of one subject run at once, it has one account:
\* no two rows share a subject, a name or a /24, and every session belongs to
\* the row of the subject that the provider signed in for that very flow, in
\* the browser that started it (callback_response, register).
OneAccountPerSubject ==
  /\ \A u, v \in users : u # v => u.sub # v.sub /\ u.name # v.name /\ u.net # v.net
  /\ \A s \in sessions : /\ {s.sub} = flow[s.id].sub
                         /\ \E u \in users : u.sub = s.sub
  /\ \A b \in Browser : \A f \in jar[b].session : flow[f].b = b

SignsBackIn ==
  \A f \in Flow :
    (flow[f].stage # "done" /\ flow'[f].stage = "done" /\ out[flow[f].b]) => ~flow[f].unasked

\* Signing out is not undone by the provider's own session.  From the moment
\* a browser is told that it is signed out (the answer to a logout, or a
\* probe that found nobody) until its probed cookie ends, it gets a session
\* only from a login that the visitor asked for or one that a page sent
\* before that moment began, whatever its other tabs do (landing.rs
\* dashboard_gate, probe_failed_response, suppress_next_probe; session.rs
\* logout_response).  A page sent earlier is not held back: it carries the
\* cookies of before, the gate finds its session gone, and its probe signs
\* the visitor in again without the "deliberate click" of session.rs:130.
NoProbeAfterLogout == [][SignsBackIn]_loginVars
=============================================================================
