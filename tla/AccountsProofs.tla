--------------------------- MODULE AccountsProofs ---------------------------
(***************************************************************************)
(* What signing in and linking a key promise for any browsers, subjects,   *)
(* flows, connections and pages, any number of subnets, of name variants,  *)
(* of key rotations, of restarts and of pairings.                          *)
(*                                                                         *)
(* LoginInv is the inductive invariant of Login.  One account per subject  *)
(* is not inductive by itself: that a session has a row needs every        *)
(* callback past the lookup to have one, and that nobody is signed back in *)
(* after a sign-out needs the probed cookie to be there as long as the     *)
(* visitor counts as signed out, and to be carried by every page sent in   *)
(* that time.  PairInv is that of Pairing: that a page links    *)
(* what it showed needs the row it was drawn from to be there still, under *)
(* the same id, or to have been swept.                                     *)
(***************************************************************************)
EXTENDS Login, Pairing, TLAPS

-----------------------------------------------------------------------------
(* Numbers. *)

INSTANCE WellFoundedInduction

\* A set of numbers that is not empty has a smallest one.
LEMMA Smallest ==
  ASSUME NEW S, S \subseteq Nat, S # {}
  PROVE  \E x \in S : \A y \in S : x <= y
<1>1. PICK x \in S : \A y \in S : ~ (<<y, x>> \in OpToRel(<, Nat))
  BY NatLessThanWellFounded, WFMin, Zenon
<1>2. ASSUME NEW y \in S PROVE x <= y
  <2>1. x \in Nat /\ y \in Nat
    OBVIOUS
  <2>2. ~ (y < x)
    BY <1>1, <2>1, Zenon DEF OpToRel
  <2> QED
    BY <2>1, <2>2
<1> QED
  BY <1>2, Zenon

-----------------------------------------------------------------------------
(* Sign-in. *)

\* The records of a users row, of a cookie jar, of a page request and of a
\* started flow.  A page sent by a browser that was told it is signed out
\* carries the cookie that suppresses the probe, so none begins a flow.
UserRec == [sub : Subject, name : {PreferredName[s] : s \in Subject} \X (1 .. NameVariants),
            net : 1 .. Subnets]
JarRec == [state : SUBSET Flow, silent : BOOLEAN, probed : BOOLEAN, session : SUBSET Flow]
RequestRec == {q \in [session : SUBSET Flow, probed : BOOLEAN, out : BOOLEAN] : q.out => q.probed}
NeverUnasked == {FALSE}
FlowRec == [stage : Stages \ {"new"}, b : Browser, sub : SUBSET Subject, sent : SUBSET Flow, key : Nat,
            unasked : NeverUnasked]

\* The stages at which the provider has said who signed in.
Signed == {"code", "exchange", "verify", "refetch", "nonce", "provision", "settle", "session", "done"}

\* The requests under way.
RequestsOK == visit \in [Browser -> SUBSET RequestRec] /\ leaving \subseteq Browser

\* The state of the sign-in, without the bounds on the signing keys.
LoginTypes ==
  /\ users \subseteq UserRec /\ networks \subseteq 1 .. Subnets
  /\ sessions \subseteq [id : Flow, sub : Subject]
  /\ jar \in [Browser -> JarRec] /\ flow \in [Flow -> {FreshFlow} \cup FlowRec]
  /\ out \in [Browser -> BOOLEAN] /\ epoch \in Nat /\ RequestsOK

\* The one subject of S has a row among the known ones.
HasRow(known, S) == \E u \in known : S = {u.sub}

\* A callback: from the provider's answer on it is about one subject, and
\* from the registration or a successful lookup on that subject has its row.
FlowOK(f) ==
  /\ flow[f].stage \in Signed => \E s \in Subject : flow[f].sub = {s}
  /\ flow[f].stage \in {"settle", "session", "done"} => HasRow(users, flow[f].sub)

\* The UNIQUE columns of users: no two rows share a subject, a name or a /24.
RowsApart == \A u, v \in users : u # v => u.sub # v.sub /\ u.name # v.name /\ u.net # v.net

\* A session belongs to the subject of the finished flow that stored it.
SessionsOK == \A s \in sessions : flow[s.id].stage = "done" /\ {s.sub} = flow[s.id].sub

\* A session cookie names a finished flow of this very browser, and whoever
\* was told that they are signed out has the cookie that suppresses the
\* probe.
JarOK(b) ==
  /\ \A f \in jar[b].session : flow[f].stage = "done" /\ flow[f].b = b
  /\ out[b] => jar[b].probed

\* The inductive invariant of the sign-in.
LoginInv ==
  /\ LoginTypes /\ RowsApart /\ SessionsOK
  /\ \A f \in Flow : FlowOK(f)
  /\ \A b \in Browser : JarOK(b)

\* A flow is new exactly when it is fresh, and a record once it has started.
LEMMA FlowFields ==
  ASSUME NEW r \in {FreshFlow} \cup FlowRec
  PROVE  /\ r.stage = "new" <=> r = FreshFlow
         /\ r.stage # "new" => r \in FlowRec
  BY SMT DEF FreshFlow, FlowRec, Stages

\* A callback that goes on to another stage keeps its browser, its subject,
\* its cookie and its key.
LEMMA NewStage ==
  ASSUME NEW r \in FlowRec, NEW s \in Stages \ {"new"}
  PROVE  /\ [r EXCEPT !.stage = s] \in FlowRec /\ [r EXCEPT !.stage = s].stage = s
         /\ [r EXCEPT !.stage = s].sub = r.sub /\ [r EXCEPT !.stage = s].b = r.b
         /\ [r EXCEPT !.stage = s].sent = r.sent /\ [r EXCEPT !.stage = s].key = r.key
  BY SMT DEF FlowRec

\* A callback that also notes the subject, the cookies of its request or the
\* signing key is still a record.
LEMMA FlowWith ==
  ASSUME NEW r \in FlowRec, NEW s \in Stages \ {"new"}
  PROVE  /\ \A z \in SUBSET Subject : [r EXCEPT !.stage = s, !.sub = z] \in FlowRec
         /\ \A z \in SUBSET Flow : [r EXCEPT !.stage = s, !.sent = z] \in FlowRec
         /\ \A k \in Nat : [r EXCEPT !.stage = s, !.key = k] \in FlowRec
  BY Zenon DEF FlowRec

\* The jar after attach_flow_cookies, a failed probe, a logout and an expiry
\* is a jar.
LEMMA JarWith ==
  ASSUME NEW j \in JarRec, NEW S \in SUBSET Flow, NEW x \in BOOLEAN
  PROVE  /\ [j EXCEPT !.state = S, !.silent = x] \in JarRec
         /\ [j EXCEPT !.silent = FALSE, !.probed = TRUE] \in JarRec
         /\ [j EXCEPT !.session = {}, !.probed = TRUE] \in JarRec
         /\ [j EXCEPT !.probed = FALSE] \in JarRec
  BY Zenon DEF JarRec

\* What a step does beside taking the flow f to r: accounts, sessions and
\* session cookies appear only for the account and the flow they belong to.
Beside(f, r) ==
  /\ users \subseteq users' /\ users' \subseteq UserRec /\ RowsApart'
  /\ networks' \subseteq 1 .. Subnets /\ epoch' \in Nat /\ RequestsOK'
  /\ sessions' \subseteq [id : Flow, sub : Subject]
  /\ \A s \in sessions' : s \in sessions \/ (s.id = f /\ r.stage = "done" /\ {s.sub} = r.sub)
  /\ jar' \in [Browser -> JarRec] /\ out' \in [Browser -> BOOLEAN]
  /\ \A b \in Browser :
       /\ \A g \in jar'[b].session : g \in jar[b].session \/ (g = f /\ r.stage = "done" /\ r.b = b)
       /\ out'[b] => jar'[b].probed

\* A step that leaves rows, networks, sessions, cookies and the provider's
\* key alone does nothing beside its flow.
LEMMA NothingBeside ==
  ASSUME LoginInv, UNCHANGED <<users, networks, sessions, jar, out, epoch, visit, leaving>>
  PROVE  \A f, r : Beside(f, r)
  BY Zenon DEF LoginInv, LoginTypes, RequestsOK, JarOK, RowsApart, Beside

\* A step that takes the flow f to r, and beside it only what Beside allows,
\* keeps the invariant, provided r has the subject and the row its stage
\* calls for.
LEMMA FlowGoes ==
  ASSUME LoginInv, NEW f \in Flow, NEW r \in FlowRec, flow' = [flow EXCEPT ![f] = r],
         flow[f].stage # "done", Beside(f, r),
         r.stage \in Signed => \E s \in Subject : r.sub = {s},
         r.stage \in {"settle", "session", "done"} => HasRow(users', r.sub)
  PROVE  LoginInv'
<1>1. flow' \in [Flow -> {FreshFlow} \cup FlowRec] /\ flow'[f] = r /\ \A g \in Flow \ {f} : flow'[g] = flow[g]
  BY Zenon DEF LoginInv, LoginTypes
<1>2. LoginTypes' /\ RowsApart'
  BY <1>1, Zenon DEF LoginInv, LoginTypes, Beside
<1>3. SessionsOK'
  <2>1. ASSUME NEW s \in sessions' PROVE flow'[s.id].stage = "done" /\ {s.sub} = flow'[s.id].sub
    <3>1. CASE s \in sessions
      <4>1. s.id \in Flow
        BY <3>1, SMT DEF LoginInv, LoginTypes
      <4>2. flow[s.id].stage = "done" /\ {s.sub} = flow[s.id].sub
        BY <3>1, Zenon DEF LoginInv, SessionsOK
      <4> QED
        BY <4>1, <4>2, <1>1, Zenon
    <3>2. CASE s \notin sessions
      BY <3>2, <1>1, Zenon DEF Beside
    <3> QED
      BY <3>1, <3>2, Zenon
  <2> QED
    BY <2>1, Zenon DEF SessionsOK
<1>4. ASSUME NEW g \in Flow PROVE FlowOK(g)'
  <2>1. CASE g = f
    BY <1>1, <2>1, Zenon DEF FlowOK
  <2>2. CASE g # f
    <3>1. FlowOK(g) /\ flow'[g] = flow[g] /\ users \subseteq users'
      BY <1>1, <2>2, Zenon DEF LoginInv, Beside
    <3> QED
      BY <3>1, Zenon DEF FlowOK, HasRow
  <2> QED
    BY <2>1, <2>2, Zenon
<1>5. ASSUME NEW b \in Browser PROVE JarOK(b)'
  <2>1. ASSUME NEW g \in jar'[b].session PROVE flow'[g].stage = "done" /\ flow'[g].b = b
    <3>1. CASE g \in jar[b].session
      <4>1. jar[b] \in JarRec /\ JarOK(b)
        BY Zenon DEF LoginInv, LoginTypes
      <4>2. g \in Flow
        BY <3>1, <4>1, SMT DEF JarRec
      <4>3. flow[g].stage = "done" /\ flow[g].b = b
        BY <3>1, <4>1, Zenon DEF JarOK
      <4> QED
        BY <4>2, <4>3, <1>1, Zenon
    <3>2. CASE g \notin jar[b].session
      <4>1. g = f /\ r.stage = "done" /\ r.b = b
        BY <3>2, Zenon DEF Beside
      <4> QED
        BY <4>1, <1>1, Zenon
    <3> QED
      BY <3>1, <3>2, Zenon
  <2>2. out'[b] => jar'[b].probed
    BY Zenon DEF Beside
  <2> QED
    BY <2>1, <2>2, Zenon DEF JarOK
<1> QED
  BY <1>2, <1>3, <1>4, <1>5, Zenon DEF LoginInv

\* The same for a step that changes only the stage of its flow.
LEMMA StageGoes ==
  ASSUME LoginInv, NEW f \in Flow, NEW s \in Stages \ {"new", "done"},
         flow' = [flow EXCEPT ![f] = [flow[f] EXCEPT !.stage = s]],
         flow[f].stage \notin {"new", "done"}, \A r : r.stage = s => Beside(f, r),
         s \in Signed => flow[f].stage \in Signed,
         s \in {"settle", "session", "done"} => HasRow(users', flow[f].sub)
  PROVE  LoginInv'
<1>1. flow[f] \in FlowRec /\ FlowOK(f)
  BY FlowFields, Zenon DEF LoginInv, LoginTypes
<1>2. flow[f].stage \in Signed => \E z \in Subject : flow[f].sub = {z}
  BY <1>1, Zenon DEF FlowOK
<1>3. PICK r : r = [flow[f] EXCEPT !.stage = s]
  BY Zenon
<1>4. r \in FlowRec /\ r.stage = s /\ r.sub = flow[f].sub
  BY <1>1, <1>3, NewStage, Zenon
<1>5. r.stage \in {"settle", "session", "done"} => HasRow(users', r.sub)
  BY <1>4, Zenon DEF HasRow
<1>6. flow' = [flow EXCEPT ![f] = r] /\ flow[f].stage # "done" /\ Beside(f, r)
  BY <1>3, <1>4, Zenon
<1>7. r.stage \in Signed => \E z \in Subject : r.sub = {z}
  BY <1>2, <1>4, Zenon
<1> QED
  BY <1>4, <1>5, <1>6, <1>7, FlowGoes, Zenon

\* What the login page and the gate do: they begin a flow, of a page that
\* does not carry the probed cookie, or nothing.
LEMMA StartGoes ==
  ASSUME LoginInv, NEW f \in Flow, Start(f)
  PROVE  /\ UNCHANGED <<users, sessions, networks, out, epoch, jwks, leaving>> /\ RequestsOK'
         /\ \/ UNCHANGED <<flow, jar>>
            \/ \E b \in Browser, silent \in BOOLEAN, stage \in {"asked", "probing"} :
                 StartFlow(b, f, stage, FALSE) /\ attach_flow_cookies(b, f, silent)
<1>1. PICK b \in Browser : login_response(b, f) \/ dashboard_gate(b, f)
  BY Zenon DEF Start
<1>2. CASE login_response(b, f)
  BY <1>2, Zenon DEF login_response, LoginInv, LoginTypes, RequestsOK
<1>3. CASE dashboard_gate(b, f)
  <2>1. PICK request \in visit[b] :
          \/ UNCHANGED <<flow, jar>>
          \/ /\ ~request.probed
             /\ StartFlow(b, f, "probing", request.out) /\ attach_flow_cookies(b, f, TRUE)
    BY <1>3, Zenon DEF dashboard_gate, probe_is_useful
  <2>2. request \in RequestRec /\ visit \in [Browser -> SUBSET RequestRec]
    BY Zenon DEF LoginInv, LoginTypes, RequestsOK
  <2>3. ~request.probed => request.out = FALSE
    BY <2>2, SMT DEF RequestRec
  <2>4. UNCHANGED <<users, sessions, networks, out, epoch, jwks, leaving>> /\ visit' = [visit EXCEPT ![b] = {}]
    BY <1>3, Zenon DEF dashboard_gate
  <2>5. visit' \in [Browser -> SUBSET RequestRec]
    BY <2>2, <2>4, Zenon
  <2>6. RequestsOK'
    BY <2>4, <2>5, Zenon DEF LoginInv, LoginTypes, RequestsOK
  <2> QED
    BY <2>1, <2>3, <2>4, <2>6, Zenon
<1> QED
  BY <1>1, <1>2, <1>3, Zenon

\* login_response and dashboard_gate keep the invariant: the cookies of the
\* new flow replace those of the flow before it, and no session cookie
\* changes.
LEMMA StartStep ==
  ASSUME LoginInv, NEW f \in Flow, Start(f), NEW b \in Browser, NEW silent \in BOOLEAN,
         NEW stage \in {"asked", "probing"}, StartFlow(b, f, stage, FALSE), attach_flow_cookies(b, f, silent)
  PROVE  LoginInv'
<1>1. UNCHANGED <<users, sessions, networks, out, epoch>> /\ RequestsOK'
  BY StartGoes, Zenon
<1>2. /\ jar[b] \in JarRec /\ jar \in [Browser -> JarRec] /\ out' \in [Browser -> BOOLEAN]
      /\ networks' \subseteq 1 .. Subnets /\ \A c \in Browser : JarOK(c)
      /\ users' \subseteq UserRec /\ sessions' \subseteq [id : Flow, sub : Subject] /\ RowsApart
      /\ epoch' \in Nat
  BY <1>1, Zenon DEF LoginInv, LoginTypes
<1>3. /\ jar' \in [Browser -> JarRec]
      /\ \A c \in Browser : jar'[c].session = jar[c].session /\ jar'[c].probed = jar[c].probed
  <2>1. PICK x \in BOOLEAN : x = (jar[b].silent \/ silent)
    BY Zenon
  <2>2. jar' = [jar EXCEPT ![b] = jar'[b]] /\ jar'[b] = [jar[b] EXCEPT !.state = {f}, !.silent = x]
    BY <1>2, <2>1, Zenon DEF attach_flow_cookies
  <2>3. [jar[b] EXCEPT !.state = {f}, !.silent = x] \in JarRec
    <3>1. {f} \in SUBSET Flow
      BY Zenon
    <3> QED
      BY <1>2, <3>1, JarWith, Zenon
  <2>4. /\ [jar[b] EXCEPT !.state = {f}, !.silent = x].session = jar[b].session
        /\ [jar[b] EXCEPT !.state = {f}, !.silent = x].probed = jar[b].probed
    BY <1>2, SMT DEF JarRec
  <2> QED
    BY <1>2, <2>2, <2>3, <2>4, Zenon
<1>a. PICK u \in NeverUnasked : u = FALSE
  BY Zenon DEF NeverUnasked
<1>4. PICK r : r = [stage |-> stage, b |-> b, sub |-> {}, sent |-> {}, key |-> 0, unasked |-> u]
  BY Zenon
<1>5. r \in FlowRec /\ r.stage \notin Signed /\ r.stage \notin {"settle", "session", "done"}
  BY <1>4, SMT DEF FlowRec, Stages, Signed
<1>6. flow' = [flow EXCEPT ![f] = r] /\ flow[f].stage # "done"
  BY <1>4, <1>a, Zenon DEF StartFlow
<1>7. Beside(f, r)
  BY <1>1, <1>2, <1>3, Zenon DEF JarOK, Beside, RowsApart
<1> QED
  BY <1>5, <1>6, <1>7, FlowGoes, Zenon

\* The provider's answer keeps it: the flow is about one subject from here
\* on, or ends in an error.
LEMMA ProviderStep ==
  ASSUME LoginInv, NEW f \in Flow, Provider(f)
  PROVE  LoginInv'
<1>0. flow[f] \in {FreshFlow} \cup FlowRec
  BY Zenon DEF LoginInv, LoginTypes
<1>1. CASE ProviderRefuses(f)
  <2>1. /\ flow' = [flow EXCEPT ![f] = [flow[f] EXCEPT !.stage = "error"]]
        /\ flow[f].stage \notin {"new", "done"} /\ UNCHANGED <<users, networks, sessions, jar, out, epoch, visit, leaving>>
    BY <1>1, Zenon DEF ProviderRefuses
  <2>2. "error" \in Stages \ {"new", "done"} /\ "error" \notin Signed /\ "error" \notin {"settle", "session", "done"}
    BY SMT DEF Stages, Signed
  <2> QED
    BY <2>1, <2>2, NothingBeside, StageGoes, Zenon
<1>2. CASE \E s \in Subject : ProviderSignsIn(f, s)
  <2>1. PICK s \in Subject : ProviderSignsIn(f, s)
    BY <1>2, Zenon
  <2>2. flow[f].stage \in {"asked", "probing"} /\ UNCHANGED <<users, networks, sessions, jar, out, epoch, visit, leaving>>
    BY <2>1, Zenon DEF ProviderSignsIn
  <2>3. flow[f] \in FlowRec
    BY <1>0, <2>2, FlowFields, Zenon
  <2>4. flow' = [flow EXCEPT ![f] = flow'[f]] /\ flow'[f] = [flow[f] EXCEPT !.stage = "code", !.sub = {s}]
    BY <2>1, Zenon DEF ProviderSignsIn, LoginInv, LoginTypes
  <2>5. "code" \in Stages \ {"new"} /\ "code" \notin {"settle", "session", "done"} /\ {s} \in SUBSET Subject
    BY SMT DEF Stages
  <2>6. [flow[f] EXCEPT !.stage = "code", !.sub = {s}] \in FlowRec
    BY <2>3, <2>5, FlowWith, Zenon
  <2>7. /\ [flow[f] EXCEPT !.stage = "code", !.sub = {s}].stage = "code"
        /\ [flow[f] EXCEPT !.stage = "code", !.sub = {s}].sub = {s}
    BY <2>3, SMT DEF FlowRec
  <2>8. PICK r \in FlowRec : r = flow'[f] /\ r.stage = "code" /\ r.sub = {s}
    BY <2>4, <2>6, <2>7, Zenon
  <2> QED
    BY <2>2, <2>4, <2>5, <2>8, NothingBeside, FlowGoes, ZenonT(60)
<1> QED
  BY <1>1, <1>2, Zenon DEF Provider

\* callback_error keeps it: the visitor is told, and the next probe is
\* suppressed by the same answer.
LEMMA ErrorStep ==
  ASSUME LoginInv, NEW f \in Flow, callback_error(f)
  PROVE  LoginInv'
<1>0. PICK b : b = flow[f].b
  OBVIOUS
<1>a. PICK h \in BOOLEAN : h = (wired /\ jar[b].silent)
  BY Zenon
<1>1. b = flow[f].b /\ h = (wired /\ jar[flow[f].b].silent)
  BY <1>0, <1>a, Zenon
<1>2. /\ flow' = [flow EXCEPT ![f] = [flow[f] EXCEPT !.stage = "failed"]] /\ flow[f].stage = "error"
      /\ jar' = IF h THEN [jar EXCEPT ![b].silent = FALSE, ![b].probed = TRUE] ELSE jar
      /\ out' = [out EXCEPT ![b] = out[b] \/ h]
      /\ UNCHANGED <<users, networks, sessions, epoch, visit, leaving>>
  BY <1>1, Zenon DEF callback_error, Fails
<1>3. flow[f] \in {FreshFlow} \cup FlowRec /\ jar \in [Browser -> JarRec] /\ out \in [Browser -> BOOLEAN]
  BY Zenon DEF LoginInv, LoginTypes
<1>4. flow[f] \in FlowRec
  BY <1>2, <1>3, FlowFields, Zenon
<1>5. b \in Browser
  BY <1>1, <1>4, SMT DEF FlowRec
<1>6. jar[b] \in JarRec /\ \A c \in Browser : JarOK(c)
  BY <1>3, <1>5, Zenon DEF LoginInv
<1>7. /\ jar' \in [Browser -> JarRec] /\ out' \in [Browser -> BOOLEAN]
      /\ \A c \in Browser : jar'[c].session = jar[c].session /\ (out'[c] => jar'[c].probed)
  <2>1. CASE h
    <3>1. jar' = [jar EXCEPT ![b] = jar'[b]] /\ jar'[b] = [jar[b] EXCEPT !.silent = FALSE, !.probed = TRUE]
      BY <2>1, <1>2, <1>3, <1>5, Zenon
    <3>2. [jar[b] EXCEPT !.silent = FALSE, !.probed = TRUE] \in JarRec
      BY <1>6, Zenon DEF JarRec
    <3>3. /\ [jar[b] EXCEPT !.silent = FALSE, !.probed = TRUE].session = jar[b].session
          /\ [jar[b] EXCEPT !.silent = FALSE, !.probed = TRUE].probed = TRUE
      BY <1>6, SMT DEF JarRec
    <3>4. jar' \in [Browser -> JarRec] /\ \A c \in Browser \ {b} : jar'[c] = jar[c]
      BY <1>3, <3>1, <3>2, Zenon
    <3>5. out' \in [Browser -> BOOLEAN] /\ \A c \in Browser \ {b} : out'[c] = out[c]
      BY <1>2, <1>3, <2>1, Zenon
    <3> QED
      BY <1>5, <1>6, <3>1, <3>3, <3>4, <3>5, Zenon DEF JarOK
  <2>2. CASE ~h
    <3>1. jar' = jar
      BY <1>2, <2>2, Zenon
    <3>2. out' \in [Browser -> BOOLEAN] /\ \A c \in Browser : out'[c] <=> out[c]
      BY <1>2, <1>3, <2>2, Zenon
    <3> QED
      BY <1>3, <1>6, <3>1, <3>2, Zenon DEF JarOK
  <2> QED
    BY <2>1, <2>2, Zenon
<1>8. ASSUME NEW r PROVE Beside(f, r)
  BY <1>2, <1>7, Zenon DEF LoginInv, LoginTypes, RequestsOK, RowsApart, Beside
<1>9. "failed" \in Stages \ {"new", "done"} /\ "failed" \notin Signed /\ "failed" \notin {"settle", "session", "done"}
  BY SMT DEF Stages, Signed
<1>10. flow[f].stage \notin {"new", "done"}
  BY <1>2, Zenon
<1> QED
  BY <1>2, <1>8, <1>9, <1>10, StageGoes, Zenon

\* callback_state keeps it: the state cookie is compared, and noted with the
\* flow.
LEMMA StateStep ==
  ASSUME LoginInv, NEW f \in Flow, callback_state(f)
  PROVE  LoginInv'
<1>1. PICK b : b = flow[f].b
  OBVIOUS
<1>2. PICK s \in {"exchange", "failed"} :
        flow' = [flow EXCEPT ![f].stage = s, ![f].sent = jar[b].state]
  BY <1>1, Zenon DEF callback_state
<1>3. flow[f].stage = "code" /\ UNCHANGED <<users, networks, sessions, jar, out, epoch, visit, leaving>>
  BY Zenon DEF callback_state
<1>4. flow[f] \in {FreshFlow} \cup FlowRec /\ flow \in [Flow -> {FreshFlow} \cup FlowRec] /\ FlowOK(f)
  BY Zenon DEF LoginInv, LoginTypes
<1>5. flow[f] \in FlowRec
  BY <1>3, <1>4, FlowFields, Zenon
<1>6. b \in Browser /\ "code" \in Signed
  BY <1>1, <1>5, SMT DEF FlowRec, Signed
<1>7. jar[b] \in JarRec
  BY <1>6, Zenon DEF LoginInv, LoginTypes
<1>8. jar[b].state \in SUBSET Flow
  BY <1>7, SMT DEF JarRec
<1>9. flow' = [flow EXCEPT ![f] = flow'[f]] /\ flow'[f] = [flow[f] EXCEPT !.stage = s, !.sent = jar[b].state]
  BY <1>2, <1>4, Zenon
<1>10. s \in Stages \ {"new"} /\ s \notin {"settle", "session", "done"}
  BY SMT DEF Stages
<1>11. [flow[f] EXCEPT !.stage = s, !.sent = jar[b].state] \in FlowRec
  BY <1>5, <1>8, <1>10, FlowWith, Zenon
<1>12. /\ [flow[f] EXCEPT !.stage = s, !.sent = jar[b].state].stage = s
       /\ [flow[f] EXCEPT !.stage = s, !.sent = jar[b].state].sub = flow[f].sub
  BY <1>5, SMT DEF FlowRec
<1>13. PICK r \in FlowRec : r = flow'[f] /\ r.stage = s /\ r.sub = flow[f].sub
  BY <1>9, <1>11, <1>12, Zenon
<1>14. \E z \in Subject : r.sub = {z}
  BY <1>3, <1>4, <1>6, <1>13, Zenon DEF FlowOK
<1>15. flow' = [flow EXCEPT ![f] = r] /\ Beside(f, r) /\ flow[f].stage # "done"
  BY <1>3, <1>9, <1>13, NothingBeside, Zenon
<1>16. r.stage \notin {"settle", "session", "done"}
  BY <1>10, <1>13, Zenon
<1> QED
  BY <1>14, <1>15, <1>16, FlowGoes, Zenon

\* A callback that gives up or goes on, and does nothing else, keeps it.
LEMMA OnlyStage ==
  ASSUME LoginInv, NEW f \in Flow, NEW s \in Stages \ {"new", "done", "settle"},
         flow' = [flow EXCEPT ![f] = [flow[f] EXCEPT !.stage = s]],
         UNCHANGED <<users, networks, sessions, jar, out, epoch, visit, leaving>>,
         flow[f].stage \in Signed \ {"done"}, s = "session" => HasRow(users, flow[f].sub)
  PROVE  LoginInv'
<1>1. flow[f].stage \notin {"new", "done"} /\ s \notin {"settle", "done"} /\ s \in Stages \ {"new", "done"}
  BY SMT DEF Signed
<1>2. \A r : r.stage = s => Beside(f, r)
  BY NothingBeside, Zenon
<1>3. s \in {"settle", "session", "done"} => HasRow(users', flow[f].sub)
  BY <1>1, Zenon
<1> QED
  BY <1>1, <1>2, <1>3, StageGoes, Zenon

\* exchange keeps it: the code buys a token signed with the current key, or
\* the login fails.
LEMMA ExchangeStep ==
  ASSUME LoginInv, NEW f \in Flow, exchange(f)
  PROVE  LoginInv'
<1>1. flow[f].stage = "exchange" /\ UNCHANGED <<users, networks, sessions, jar, out, epoch, visit, leaving>>
  BY Zenon DEF exchange
<1>2. /\ flow[f] \in {FreshFlow} \cup FlowRec /\ flow \in [Flow -> {FreshFlow} \cup FlowRec] /\ FlowOK(f)
      /\ epoch \in Nat
  BY Zenon DEF LoginInv, LoginTypes
<1>3. flow[f] \in FlowRec
  BY <1>1, <1>2, FlowFields, Zenon
<1>4. flow[f].stage \in Signed \ {"done"}
  BY <1>1, SMT DEF Signed
<1>5. CASE Fails(f)
  <2>1. flow' = [flow EXCEPT ![f] = [flow[f] EXCEPT !.stage = "failed"]]
    BY <1>5, Zenon DEF Fails
  <2>2. "failed" \in Stages \ {"new", "done", "settle"} /\ "failed" # "session"
    BY SMT DEF Stages
  <2> QED
    BY <1>1, <1>4, <2>1, <2>2, OnlyStage, Zenon
<1>6. CASE flow' = [flow EXCEPT ![f].stage = "verify", ![f].key = epoch]
  <2>1. flow' = [flow EXCEPT ![f] = flow'[f]] /\ flow'[f] = [flow[f] EXCEPT !.stage = "verify", !.key = epoch]
    BY <1>2, <1>6, Zenon
  <2>2. "verify" \in Stages \ {"new"} /\ "verify" \notin {"settle", "session", "done"}
    BY SMT DEF Stages
  <2>3. [flow[f] EXCEPT !.stage = "verify", !.key = epoch] \in FlowRec
    BY <1>2, <1>3, <2>2, FlowWith, Zenon
  <2>4. /\ [flow[f] EXCEPT !.stage = "verify", !.key = epoch].stage = "verify"
        /\ [flow[f] EXCEPT !.stage = "verify", !.key = epoch].sub = flow[f].sub
    BY <1>3, SMT DEF FlowRec
  <2>5. PICK r \in FlowRec : r = flow'[f] /\ r.stage = "verify" /\ r.sub = flow[f].sub
    BY <2>1, <2>3, <2>4, Zenon
  <2>6. \E z \in Subject : r.sub = {z}
    BY <1>2, <1>4, <2>5, Zenon DEF FlowOK
  <2>7. flow' = [flow EXCEPT ![f] = r] /\ Beside(f, r) /\ flow[f].stage # "done"
    BY <1>1, <2>1, <2>5, NothingBeside, Zenon
  <2>8. r.stage \notin {"settle", "session", "done"}
    BY <2>2, <2>5, Zenon
  <2> QED
    BY <2>6, <2>7, <2>8, FlowGoes, Zenon
<1> QED
  BY <1>5, <1>6, Zenon DEF exchange

\* verify and verify_fresh keep it, whichever keys are cached.
LEMMA VerifyStep ==
  ASSUME LoginInv, NEW f \in Flow, verify(f) \/ verify_fresh(f)
  PROVE  LoginInv'
<1>1. PICK s \in {"nonce", "refetch", "failed"} : flow' = [flow EXCEPT ![f] = [flow[f] EXCEPT !.stage = s]]
  BY Zenon DEF verify, verify_fresh, Fails
<1>2. flow[f].stage \in {"verify", "refetch"} /\ UNCHANGED <<users, networks, sessions, jar, out, epoch, visit, leaving>>
  BY Zenon DEF verify, verify_fresh
<1>3. flow[f].stage \in Signed \ {"done"} /\ s \in Stages \ {"new", "done", "settle"} /\ s # "session"
  BY <1>2, SMT DEF Signed, Stages
<1> QED
  BY <1>1, <1>2, <1>3, OnlyStage, Zenon

\* lookup keeps it: a login goes on to its session only when it found the
\* row.
LEMMA LookupStep ==
  ASSUME LoginInv, NEW f \in Flow, NEW signups \in BOOLEAN, lookup(f, signups)
  PROVE  LoginInv'
<1>1. PICK s \in {"failed", "session", "provision"} :
        /\ flow' = [flow EXCEPT ![f] = [flow[f] EXCEPT !.stage = s]]
        /\ s = "session" => HasRow(users, flow[f].sub)
  BY Zenon DEF lookup, HasRow
<1>2. flow[f].stage = "nonce" /\ UNCHANGED <<users, networks, sessions, jar, out, epoch, visit, leaving>>
  BY Zenon DEF lookup
<1>3. flow[f].stage \in Signed \ {"done"} /\ s \in Stages \ {"new", "done", "settle"}
  BY <1>2, SMT DEF Signed, Stages
<1> QED
  BY <1>1, <1>2, <1>3, OnlyStage, Zenon

\* What register_user_with_available_name gives a new row: a variant of its
\* name and a subnet that no row holds.
LEMMA FreshRow ==
  ASSUME LoginInv, NEW s \in Subject, CanRegister(s)
  PROVE  /\ available_name(PreferredName[s]) \in AvailableNames(PreferredName[s])
         /\ next_free_subnet \in FreeSubnets
<1>1. available_name(PreferredName[s]) \in AvailableNames(PreferredName[s])
  <2>1. PICK N : N = AvailableNames(PreferredName[s])
    OBVIOUS
  <2>2. N # {} /\ \A n \in N : \E k \in 1 .. NameVariants : n = <<PreferredName[s], k>>
    BY <2>1, Zenon DEF CanRegister, AvailableNames
  <2>3. PICK K : K = {n[2] : n \in N}
    BY Zenon
  <2>4. \A n \in N : n[2] \in 1 .. NameVariants
    BY <2>2, SMT
  <2>5. K \subseteq Nat /\ K # {}
    <3>1. \A k \in K : k \in 1 .. NameVariants
      BY <2>3, <2>4, Zenon
    <3>2. \A k \in 1 .. NameVariants : k \in Nat
      BY LoginSizes, SMT
    <3> QED
      BY <2>2, <2>3, <3>1, <3>2, Zenon
  <2>6. PICK k \in K : \A j \in K : k <= j
    BY <2>5, Smallest, Zenon
  <2>7. \E n \in N : \A m \in N : n[2] <= m[2]
    BY <2>3, <2>6, Zenon
  <2> QED
    BY <2>1, <2>7, Zenon DEF available_name
<1>2. next_free_subnet \in FreeSubnets
  <2>1. FreeSubnets # {}
    BY Zenon DEF CanRegister
  <2>2. FreeSubnets \subseteq Nat
    BY LoginSizes, SMT DEF FreeSubnets
  <2>3. \E x \in FreeSubnets : \A y \in FreeSubnets : x <= y
    BY <2>1, <2>2, Smallest, Zenon
  <2> QED
    BY <2>3, Zenon DEF next_free_subnet
<1> QED
  BY <1>1, <1>2, Zenon

\* provision keeps it: the row it stores is apart from all others, also when
\* another login of the same subject came first and this one fails.
LEMMA ProvisionStep ==
  ASSUME LoginInv, NEW f \in Flow, provision(f)
  PROVE  LoginInv'
<1>1. flow[f].stage = "provision" /\ UNCHANGED <<networks, sessions, jar, out, epoch, visit, leaving>>
  BY Zenon DEF provision
<1>2. flow[f].stage \in Signed \ {"done"} /\ flow[f].stage \notin {"new", "done"}
  BY <1>1, SMT DEF Signed
<1>3. FlowOK(f) /\ RowsApart /\ users \subseteq UserRec
  BY Zenon DEF LoginInv, LoginTypes
<1>4. PICK s \in Subject : flow[f].sub = {s}
  BY <1>2, <1>3, Zenon DEF FlowOK
<1>5. CASE CanRegister(s)
  <2>1. PICK n \in AvailableNames(PreferredName[s]), m \in FreeSubnets :
          /\ users' = users \cup {[sub |-> s, name |-> n, net |-> m]}
          /\ flow' = [flow EXCEPT ![f] = [flow[f] EXCEPT !.stage = "settle"]]
    BY <1>4, <1>5, FreshRow, Zenon DEF provision
  <2>2. PICK w : w = [sub |-> s, name |-> n, net |-> m]
    BY Zenon
  <2>3. w.sub = s /\ w.name = n /\ w.net = m
    BY <2>2, SMT
  <2>4. w \in UserRec
    <3>1. n \in {PreferredName[z] : z \in Subject} \X (1 .. NameVariants)
      <4>1. PICK k \in 1 .. NameVariants : n = <<PreferredName[s], k>>
        BY <2>1, Zenon DEF AvailableNames
      <4>2. PreferredName[s] \in {PreferredName[z] : z \in Subject}
        BY Zenon
      <4> QED
        BY <4>1, <4>2, SMT
    <3>2. m \in 1 .. Subnets
      BY <2>1, Zenon DEF FreeSubnets
    <3> QED
      BY <2>2, <3>1, <3>2, Zenon DEF UserRec
  <2>5. \A u \in users : u.sub # w.sub /\ u.name # w.name /\ u.net # w.net
    BY <1>5, <2>1, <2>3, Zenon DEF CanRegister, AvailableNames, FreeSubnets
  <2>6. users' = users \cup {w}
    BY <2>1, <2>2, Zenon
  <2>7. RowsApart' /\ users' \subseteq UserRec /\ users \subseteq users'
    BY <1>3, <2>4, <2>5, <2>6, ZenonT(60) DEF RowsApart
  <2>8. \A r : Beside(f, r)
    BY <1>1, <2>7, Zenon DEF LoginInv, LoginTypes, RequestsOK, JarOK, Beside
  <2>9. HasRow(users', flow[f].sub)
    BY <1>4, <2>3, <2>6, Zenon DEF HasRow
  <2>10. "settle" \in Stages \ {"new", "done"}
    BY SMT DEF Stages
  <2> QED
    BY <1>2, <2>1, <2>8, <2>9, <2>10, StageGoes, Zenon
<1>6. CASE ~CanRegister(s)
  <2>1. flow' = [flow EXCEPT ![f] = [flow[f] EXCEPT !.stage = "failed"]] /\ UNCHANGED users
    BY <1>4, <1>6, Zenon DEF provision, Fails
  <2>2. "failed" \in Stages \ {"new", "done", "settle"} /\ "failed" # "session"
    BY SMT DEF Stages
  <2> QED
    BY <1>1, <1>2, <2>1, <2>2, OnlyStage, Zenon
<1> QED
  BY <1>5, <1>6, Zenon

\* settle keeps it: the network is defined, or left to the convergence loop.
LEMMA SettleStep ==
  ASSUME LoginInv, NEW f \in Flow, settle(f)
  PROVE  LoginInv'
<1>1. /\ flow[f].stage = "settle" /\ UNCHANGED <<users, sessions, jar, out, epoch, visit, leaving>>
      /\ flow' = [flow EXCEPT ![f] = [flow[f] EXCEPT !.stage = "session"]]
  BY Zenon DEF settle
<1>2. FlowOK(f) /\ users \subseteq UserRec /\ networks \subseteq 1 .. Subnets
  BY Zenon DEF LoginInv, LoginTypes
<1>3. \A u \in users : u.net \in 1 .. Subnets
  BY <1>2, SMT DEF UserRec
<1>4. networks' \subseteq 1 .. Subnets
  <2>1. ASSUME NEW s PROVE NetOf(s) \subseteq 1 .. Subnets
    BY <1>3, Zenon DEF NetOf
  <2>2. UNION {NetOf(s) : s \in flow[f].sub} \subseteq 1 .. Subnets
    BY <2>1, Zenon
  <2>3. networks' = networks \/ networks' = networks \cup UNION {NetOf(s) : s \in flow[f].sub}
    BY Zenon DEF settle
  <2> QED
    BY <1>2, <2>2, <2>3, Zenon
<1>5. \A r : Beside(f, r)
  BY <1>1, <1>4, Zenon DEF LoginInv, LoginTypes, RequestsOK, JarOK, RowsApart, Beside
<1>6. HasRow(users', flow[f].sub)
  BY <1>1, <1>2, Zenon DEF FlowOK
<1>7. /\ "session" \in Stages \ {"new", "done"} /\ flow[f].stage \notin {"new", "done"}
      /\ flow[f].stage \in Signed
  BY <1>1, SMT DEF Stages, Signed
<1> QED
  BY <1>1, <1>5, <1>6, <1>7, StageGoes, Zenon

\* new_session keeps it: the session is the flow's own subject's, and its
\* cookie goes to the browser that started the flow.
LEMMA SessionStep ==
  ASSUME LoginInv, NEW f \in Flow, new_session(f)
  PROVE  LoginInv'
<1>1. /\ flow[f].stage = "session" /\ UNCHANGED <<users, networks, epoch, visit, leaving>>
      /\ flow' = [flow EXCEPT ![f] = [flow[f] EXCEPT !.stage = "done"]]
  BY Zenon DEF new_session
<1>2. /\ flow[f] \in {FreshFlow} \cup FlowRec /\ FlowOK(f) /\ jar \in [Browser -> JarRec]
      /\ out \in [Browser -> BOOLEAN] /\ sessions \subseteq [id : Flow, sub : Subject]
      /\ \A c \in Browser : JarOK(c)
  BY Zenon DEF LoginInv, LoginTypes
<1>3. flow[f] \in FlowRec
  BY <1>1, <1>2, FlowFields, Zenon
<1>4. "session" \in Signed /\ "done" \in Stages \ {"new"}
  BY SMT DEF Signed, Stages
<1>5. HasRow(users', flow[f].sub) /\ \E z \in Subject : flow[f].sub = {z}
  BY <1>1, <1>2, <1>4, Zenon DEF FlowOK
<1>6. PICK r \in FlowRec : /\ r = [flow[f] EXCEPT !.stage = "done"] /\ r.stage = "done"
                           /\ r.sub = flow[f].sub /\ r.b = flow[f].b
  BY <1>3, <1>4, NewStage, ZenonT(60)
<1>7. r.b \in Browser
  BY SMT DEF FlowRec
<1>8. PICK s \in Subject : r.sub = {s} /\ sessions' = sessions \cup {[id |-> f, sub |-> s]}
  BY <1>5, <1>6, Zenon DEF new_session
<1>9. PICK n : n = [id |-> f, sub |-> s]
  BY Zenon
<1>a. n \in [id : Flow, sub : Subject] /\ n.id = f /\ n.sub = s
  BY <1>9, SMT
<1>10. /\ sessions' \subseteq [id : Flow, sub : Subject]
       /\ \A z \in sessions' : z \in sessions \/ (z.id = f /\ r.stage = "done" /\ {z.sub} = r.sub)
  BY <1>2, <1>6, <1>8, <1>9, <1>a, Zenon
<1>11. PICK j : j = SignedInJar(r.b, f)
  OBVIOUS
<1>b. j \in JarRec /\ j.session = {f}
  BY <1>11, SMT DEF JarRec, SignedInJar
<1>12. jar' = [jar EXCEPT ![r.b] = j] /\ out' = [out EXCEPT ![r.b] = FALSE]
  BY <1>6, <1>11, Zenon DEF new_session
<1>13. /\ jar' \in [Browser -> JarRec] /\ out' \in [Browser -> BOOLEAN]
       /\ jar'[r.b] = j /\ out'[r.b] = FALSE
       /\ \A c \in Browser \ {r.b} : jar'[c] = jar[c] /\ out'[c] = out[c]
  BY <1>2, <1>7, <1>12, <1>b, Zenon
<1>14. ASSUME NEW c \in Browser
       PROVE  /\ \A g \in jar'[c].session : g \in jar[c].session \/ (g = f /\ r.stage = "done" /\ r.b = c)
              /\ out'[c] => jar'[c].probed
  <2>1. CASE c = r.b
    BY <2>1, <1>6, <1>b, <1>13, Zenon
  <2>2. CASE c # r.b
    BY <2>2, <1>2, <1>13, Zenon DEF JarOK
  <2> QED
    BY <2>1, <2>2, Zenon
<1>15. Beside(f, r)
  BY <1>1, <1>10, <1>13, <1>14, Zenon DEF LoginInv, LoginTypes, RequestsOK, RowsApart, Beside
<1>16. flow' = [flow EXCEPT ![f] = r] /\ flow[f].stage # "done"
  BY <1>1, <1>6, Zenon
<1>17. HasRow(users', r.sub) /\ \E z \in Subject : r.sub = {z}
  BY <1>5, <1>6, Zenon
<1> QED
  BY <1>15, <1>16, <1>17, FlowGoes, Zenon

\* A step that touches no flow and no row keeps it, if it stores no session
\* and sets no session cookie.
LEMMA Around ==
  ASSUME LoginInv, UNCHANGED <<users, flow>>, epoch' \in Nat, networks' \subseteq 1 .. Subnets, RequestsOK',
         sessions' \subseteq sessions, jar' \in [Browser -> JarRec], out' \in [Browser -> BOOLEAN],
         \A b \in Browser : jar'[b].session \subseteq jar[b].session /\ (out'[b] => jar'[b].probed)
  PROVE  LoginInv'
<1>1. LoginTypes' /\ RowsApart' /\ SessionsOK'
  BY Zenon DEF LoginInv, LoginTypes, RowsApart, SessionsOK
<1>2. \A f \in Flow : FlowOK(f)'
  BY Zenon DEF LoginInv, FlowOK
<1>3. \A b \in Browser : JarOK(b)'
  BY Zenon DEF LoginInv, JarOK
<1> QED
  BY <1>1, <1>2, <1>3, Zenon DEF LoginInv

\* A step that replaces one browser's jar by one with no more session cookies
\* keeps it.
LEMMA JarGoes ==
  ASSUME LoginInv, UNCHANGED <<users, networks, flow, epoch>>, sessions' \subseteq sessions, RequestsOK',
         NEW b \in Browser, NEW j \in JarRec, jar' = [jar EXCEPT ![b] = j], j.session \subseteq jar[b].session,
         out' = out \/ \E x \in BOOLEAN : out' = [out EXCEPT ![b] = x],
         out'[b] => j.probed
  PROVE  LoginInv'
<1>1. /\ jar \in [Browser -> JarRec] /\ out \in [Browser -> BOOLEAN] /\ epoch' \in Nat
      /\ networks' \subseteq 1 .. Subnets /\ \A c \in Browser : JarOK(c)
  BY Zenon DEF LoginInv, LoginTypes
<1>2. jar' \in [Browser -> JarRec] /\ jar'[b] = j /\ \A c \in Browser \ {b} : jar'[c] = jar[c]
  BY <1>1, Zenon
<1>3. out' \in [Browser -> BOOLEAN] /\ \A c \in Browser \ {b} : out'[c] = out[c]
  <2>1. CASE out' = out
    BY <1>1, <2>1, Zenon
  <2>2. ASSUME NEW x \in BOOLEAN, out' = [out EXCEPT ![b] = x]
         PROVE  out' \in [Browser -> BOOLEAN] /\ \A c \in Browser \ {b} : out'[c] = out[c]
    BY <1>1, <2>2, Zenon
  <2> QED
    BY <2>1, <2>2, Zenon
<1>4. ASSUME NEW c \in Browser PROVE jar'[c].session \subseteq jar[c].session /\ (out'[c] => jar'[c].probed)
  <2>1. CASE c = b
    BY <1>2, <2>1, Zenon
  <2>2. CASE c # b
    BY <1>1, <1>2, <1>3, <2>2, Zenon DEF JarOK
  <2> QED
    BY <2>1, <2>2, Zenon
<1> QED
  BY <1>1, <1>2, <1>3, <1>4, Around, Zenon

\* The answer to a logout keeps it: it takes the session cookie, and sets the
\* probed cookie too.
LEMMA AnswerStep ==
  ASSUME LoginInv, NEW b \in Browser, LogoutAnswered(b)
  PROVE  LoginInv'
<1>1. PICK j : j = LoggedOutJar(b)
  OBVIOUS
<1>2. jar[b] \in JarRec /\ out \in [Browser -> BOOLEAN] /\ RequestsOK
  BY Zenon DEF LoginInv, LoginTypes
<1>3. j \in JarRec
  BY <1>1, <1>2, JarWith, Zenon DEF LoggedOutJar
<1>4. j.session = {} /\ j.probed = TRUE
  BY <1>1, <1>2, SMT DEF JarRec, LoggedOutJar
<1>5. /\ jar' = [jar EXCEPT ![b] = j] /\ sessions' \subseteq sessions /\ out' = [out EXCEPT ![b] = TRUE]
      /\ UNCHANGED <<users, networks, flow, epoch>>
  BY <1>1, Zenon DEF LogoutAnswered
<1>6. RequestsOK'
  BY <1>2, Zenon DEF LogoutAnswered, RequestsOK
<1> QED
  BY <1>3, <1>4, <1>5, <1>6, JarGoes, Zenon

\* logout_response and OpenPage keep it: a page carries the cookies of the
\* jar, the probed cookie with them.
LEMMA AskStep ==
  ASSUME LoginInv, NEW b \in Browser, OpenPage(b) \/ logout_response(b)
  PROVE  LoginInv'
<1>1. UNCHANGED <<users, networks, flow, jar, out, epoch>> /\ sessions' \subseteq sessions
  BY Zenon DEF OpenPage, logout_response
<1>2. /\ jar \in [Browser -> JarRec] /\ out \in [Browser -> BOOLEAN] /\ networks \subseteq 1 .. Subnets
      /\ epoch \in Nat /\ RequestsOK /\ \A c \in Browser : JarOK(c)
  BY Zenon DEF LoginInv, LoginTypes
<1>3. RequestsOK'
  <2>1. CASE OpenPage(b)
    <3>1. PICK q : q = [session |-> jar[b].session, probed |-> jar[b].probed, out |-> out[b]]
      BY Zenon
    <3>2. jar[b] \in JarRec /\ out[b] \in BOOLEAN /\ (out[b] => jar[b].probed)
      BY <1>2, Zenon DEF JarOK
    <3>3. q \in RequestRec
      BY <3>1, <3>2, SMT DEF JarRec, RequestRec
    <3>4. visit' = [visit EXCEPT ![b] = {q}] /\ leaving' = leaving
      BY <2>1, <3>1, Zenon DEF OpenPage
    <3> QED
      BY <1>2, <3>3, <3>4, Zenon DEF RequestsOK
  <2>2. CASE logout_response(b)
    BY <1>2, <2>2, Zenon DEF logout_response, RequestsOK
  <2> QED
    BY <2>1, <2>2, Zenon
<1>4. \A c \in Browser : jar'[c].session \subseteq jar[c].session /\ (out'[c] => jar'[c].probed)
  BY <1>1, <1>2, Zenon DEF JarOK
<1> QED
  BY <1>1, <1>2, <1>3, <1>4, Around, Zenon

\* The expiry of a browser's cookies keeps it: with the probed cookie goes
\* the promise not to probe.
LEMMA CookieStep ==
  ASSUME LoginInv, NEW b \in Browser, CookiesExpire(b)
  PROVE  LoginInv'
<1>1. /\ jar[b] \in JarRec /\ out \in [Browser -> BOOLEAN] /\ jar \in [Browser -> JarRec] /\ JarOK(b)
      /\ UNCHANGED <<users, networks, sessions, flow, epoch>> /\ RequestsOK'
  BY Zenon DEF LoginInv, LoginTypes, RequestsOK, CookiesExpire
<1>2. CASE jar' = [jar EXCEPT ![b].state = {}, ![b].silent = FALSE] /\ UNCHANGED out
  <2>1. PICK j : j = [jar[b] EXCEPT !.state = {}, !.silent = FALSE]
    OBVIOUS
  <2>2. j \in JarRec
    <3>1. {} \in SUBSET Flow /\ FALSE \in BOOLEAN
      BY Zenon
    <3> QED
      BY <1>1, <2>1, <3>1, JarWith, Zenon
  <2>3. j.session = jar[b].session /\ j.probed = jar[b].probed
    BY <1>1, <2>1, SMT DEF JarRec
  <2>4. jar' = [jar EXCEPT ![b] = j]
    <3>1. jar' = [jar EXCEPT ![b] = jar'[b]] /\ jar'[b] = [jar[b] EXCEPT !.state = {}, !.silent = FALSE]
      BY <1>1, <1>2, Zenon
    <3> QED
      BY <2>1, <3>1, Zenon
  <2>5. j.session \subseteq jar[b].session /\ (out'[b] => j.probed) /\ sessions' \subseteq sessions
    BY <1>1, <1>2, <2>3, Zenon DEF JarOK
  <2> QED
    BY <1>1, <1>2, <2>2, <2>4, <2>5, JarGoes, Zenon
<1>3. CASE jar' = [jar EXCEPT ![b].probed = FALSE] /\ out' = [out EXCEPT ![b] = FALSE]
  <2>1. PICK j : j = [jar[b] EXCEPT !.probed = FALSE]
    BY Zenon
  <2>2. j \in JarRec
    BY <1>1, <2>1, Zenon DEF JarRec
  <2>3. j.session = jar[b].session
    BY <1>1, <2>1, SMT DEF JarRec
  <2>4. jar' = [jar EXCEPT ![b] = j] /\ out'[b] = FALSE
    BY <1>1, <1>3, <2>1, Zenon
  <2>5. j.session \subseteq jar[b].session /\ (out'[b] => j.probed) /\ sessions' \subseteq sessions
    BY <1>1, <2>3, <2>4, Zenon
  <2> QED
    BY <1>1, <1>3, <2>2, <2>4, <2>5, JarGoes, Zenon
<1> QED
  BY <1>2, <1>3, Zenon DEF CookiesExpire

\* Expiring sessions, rotating the key, install_oidc and ensure_user_networks
\* keep it.
LEMMA TickStep ==
  ASSUME LoginInv,
         (\E s \in sessions : session_expires(s)) \/ RotateKey \/ install_oidc \/ ensure_user_networks
  PROVE  LoginInv'
<1>1. UNCHANGED <<users, flow, jar, out>> /\ sessions' \subseteq sessions /\ RequestsOK'
  BY Zenon DEF session_expires, RotateKey, install_oidc, ensure_user_networks, LoginInv, LoginTypes, RequestsOK
<1>2. epoch' \in Nat
  <2>1. epoch \in Nat /\ (epoch' = epoch \/ epoch' = epoch + 1)
    BY Zenon DEF LoginInv, LoginTypes, session_expires, RotateKey, install_oidc, ensure_user_networks
  <2> QED
    BY <2>1, SMT
<1>3. networks' \subseteq 1 .. Subnets
  <2>1. users \subseteq UserRec /\ networks \subseteq 1 .. Subnets
    BY Zenon DEF LoginInv, LoginTypes
  <2>2. \A u \in users : u.net \in 1 .. Subnets
    BY <2>1, SMT DEF UserRec
  <2>3. networks' = networks \/ networks' = {u.net : u \in users}
    BY Zenon DEF session_expires, RotateKey, install_oidc, ensure_user_networks
  <2> QED
    BY <2>1, <2>2, <2>3, Zenon
<1>4. /\ jar' \in [Browser -> JarRec] /\ out' \in [Browser -> BOOLEAN]
      /\ \A b \in Browser : jar'[b].session \subseteq jar[b].session /\ (out'[b] => jar'[b].probed)
  BY <1>1, Zenon DEF LoginInv, LoginTypes, JarOK
<1> QED
  BY <1>1, <1>2, <1>3, <1>4, Around, Zenon

\* A restart of the control plane keeps it: sessions are gone, and callbacks
\* under way are cut off.
LEMMA RestartStep ==
  ASSUME LoginInv, ServeRestarts
  PROVE  LoginInv'
<1>1. /\ sessions' = {} /\ UNCHANGED <<users, networks, jar, out, epoch>>
      /\ flow' = [f \in Flow |-> IF flow[f].stage \in {"new", "asked", "probing", "code", "error", "done"}
                                 THEN flow[f] ELSE [flow[f] EXCEPT !.stage = "failed"]]
  BY Zenon DEF ServeRestarts
<1>2. ASSUME NEW f \in Flow
      PROVE  /\ flow'[f] \in {FreshFlow} \cup FlowRec /\ FlowOK(f)'
             /\ flow[f].stage = "done" => flow'[f] = flow[f]
  <2>1. flow[f] \in {FreshFlow} \cup FlowRec /\ FlowOK(f)
    BY Zenon DEF LoginInv, LoginTypes
  <2>2. CASE flow[f].stage \in {"new", "asked", "probing", "code", "error", "done"}
    <3>1. flow'[f] = flow[f]
      BY <1>1, <2>2, Zenon
    <3> QED
      BY <1>1, <2>1, <3>1, Zenon DEF FlowOK
  <2>3. CASE flow[f].stage \notin {"new", "asked", "probing", "code", "error", "done"}
    <3>1. flow'[f] = [flow[f] EXCEPT !.stage = "failed"]
      BY <1>1, <2>3, Zenon
    <3>2. flow[f] \in FlowRec
      BY <2>1, <2>3, FlowFields, Zenon
    <3>3. "failed" \in Stages \ {"new"} /\ "failed" \notin Signed /\ "failed" \notin {"settle", "session", "done"}
      BY SMTT(60) DEF Stages, Signed
    <3>4. flow'[f] \in FlowRec /\ flow'[f].stage = "failed"
      BY <3>1, <3>2, <3>3, NewStage, ZenonT(60)
    <3>5. FlowOK(f)'
      BY <3>3, <3>4, Zenon DEF FlowOK
    <3> QED
      BY <2>3, <3>4, <3>5, Zenon
  <2> QED
    BY <2>2, <2>3, Zenon
<1>3. flow' \in [Flow -> {FreshFlow} \cup FlowRec]
  BY <1>1, <1>2, Zenon
<1>a. RequestsOK'
  BY Zenon DEF ServeRestarts, RequestsOK
<1>4. LoginTypes' /\ RowsApart' /\ SessionsOK'
  BY <1>1, <1>3, <1>a, Zenon DEF LoginInv, LoginTypes, RowsApart, SessionsOK
<1>5. ASSUME NEW b \in Browser PROVE JarOK(b)'
  <2>1. jar[b] \in JarRec /\ JarOK(b)
    BY Zenon DEF LoginInv, LoginTypes
  <2>2. jar[b].session \subseteq Flow
    BY <2>1, SMT DEF JarRec
  <2>3. ASSUME NEW f \in jar[b].session PROVE flow'[f].stage = "done" /\ flow'[f].b = b
    <3>1. f \in Flow /\ flow[f].stage = "done" /\ flow[f].b = b
      BY <2>1, <2>2, Zenon DEF JarOK
    <3> QED
      BY <1>2, <3>1, Zenon
  <2> QED
    BY <1>1, <2>1, <2>3, Zenon DEF JarOK
<1> QED
  BY <1>2, <1>4, <1>5, Zenon DEF LoginInv

\* The invariant holds before anybody has signed in.
LEMMA LoginStarts ==
  ASSUME LoginInit
  PROVE  LoginInv
<1>1. EmptyJar \in JarRec /\ EmptyJar.session = {}
  BY SMT DEF EmptyJar, JarRec
<1>2. /\ users = {} /\ networks = {} /\ sessions = {} /\ jar = [b \in Browser |-> EmptyJar]
      /\ flow = [f \in Flow |-> FreshFlow] /\ out = [b \in Browser |-> FALSE] /\ epoch = 1
  BY Zenon DEF LoginInit
<1>3. epoch \in Nat
  BY <1>2, SMT
<1>4. FreshFlow.stage \notin Signed /\ FreshFlow.stage \notin {"settle", "session", "done"}
  BY SMT DEF FreshFlow, Signed
<1>a. RequestsOK
  BY Zenon DEF LoginInit, RequestsOK
<1>5. LoginTypes /\ RowsApart /\ SessionsOK
  BY <1>1, <1>2, <1>3, <1>a, Zenon DEF LoginTypes, RowsApart, SessionsOK
<1>6. \A f \in Flow : FlowOK(f)
  BY <1>2, <1>4, Zenon DEF FlowOK
<1>7. \A b \in Browser : JarOK(b)
  BY <1>1, <1>2, Zenon DEF JarOK
<1> QED
  BY <1>5, <1>6, <1>7, Zenon DEF LoginInv

\* Every step of the sign-in keeps the invariant.
LEMMA LoginStep ==
  ASSUME LoginInv, [LoginNext]_(loginVars)
  PROVE  LoginInv'
<1>1. CASE UNCHANGED loginVars
  <2>1. UNCHANGED <<users, networks, sessions, jar, flow, out, epoch, visit, leaving>>
    BY <1>1, Zenon DEF loginVars
  <2> QED
    BY <2>1, ZenonT(60) DEF LoginInv, LoginTypes, RequestsOK, RowsApart, SessionsOK, FlowOK, JarOK
<1>2. ASSUME NEW f \in Flow, callback_response(f) PROVE LoginInv'
  BY <1>2, ErrorStep, StateStep, ExchangeStep, VerifyStep, LookupStep, ProvisionStep, SettleStep, SessionStep,
     Zenon DEF callback_response
<1>3. CASE Environment
  BY <1>3, AskStep, AnswerStep, CookieStep, TickStep, RestartStep, Zenon DEF Environment
<1>4. ASSUME NEW f \in Flow, Start(f) PROVE LoginInv'
  <2>1. CASE UNCHANGED <<flow, jar>>
    BY <1>4, <2>1, StartGoes, Zenon DEF LoginInv, LoginTypes, RowsApart, SessionsOK, FlowOK, JarOK
  <2> QED
    BY <1>4, <2>1, StartGoes, StartStep, Zenon
<1> QED
  BY <1>1, <1>2, <1>3, <1>4, ProviderStep, TickStep, Zenon DEF LoginNext

\* The invariant of the sign-in holds throughout.
LEMMA LoginAlways == LoginSpec => []LoginInv
<1>1. LoginInit => LoginInv
  BY LoginStarts, Zenon
<1>2. LoginInv /\ [LoginNext]_(loginVars) => LoginInv'
  BY LoginStep, Zenon
<1> QED
  BY <1>1, <1>2, PTL DEF LoginSpec

\* However many first logins of a subject run at once, over any number of
\* browsers and restarts, register_user_with_available_name leaves it one row
\* with a name and a /24 of its own, and callback_response stores a session
\* only for the subject that the provider signed in for that flow, in the
\* browser that began it.
THEOREM OneAccount == LoginSpec => []OneAccountPerSubject
<1>1. ASSUME LoginInv PROVE OneAccountPerSubject
  <2>1. \A s \in sessions : /\ {s.sub} = flow[s.id].sub
                            /\ \E u \in users : u.sub = s.sub
    <3>1. SUFFICES ASSUME NEW s \in sessions
                   PROVE  {s.sub} = flow[s.id].sub /\ \E u \in users : u.sub = s.sub
      BY Zenon
    <3>2. s.id \in Flow
      BY <1>1, SMT DEF LoginInv, LoginTypes
    <3>3. FlowOK(s.id) /\ flow[s.id].stage = "done" /\ {s.sub} = flow[s.id].sub
      BY <1>1, <3>2, Zenon DEF LoginInv, SessionsOK
    <3>4. PICK u \in users : {s.sub} = {u.sub}
      BY <3>3, Zenon DEF FlowOK, HasRow
    <3>5. u.sub = s.sub
      BY <3>4, Zenon
    <3> QED
      BY <3>3, <3>5, Zenon
  <2> QED
    BY <1>1, <2>1, Zenon DEF LoginInv, RowsApart, JarOK, OneAccountPerSubject
<1> QED
  BY <1>1, LoginAlways, PTL

\* No step but the start of a flow touches a flow that has not started.
LEMMA NewUntouched ==
  ASSUME LoginInv, LoginNext, NEW g \in Flow, flow[g].stage = "new", ~Start(g)
  PROVE  flow'[g].stage = "new"
<1>1. flow \in [Flow -> {FreshFlow} \cup FlowRec]
  BY Zenon DEF LoginInv, LoginTypes
<1>2. ASSUME NEW f \in Flow, Start(f) PROVE flow'[g] = flow[g]
  <2>1. f # g
    BY <1>2, Zenon
  <2> QED
    BY <1>1, <1>2, <2>1, StartGoes, Zenon DEF StartFlow
<1>3. ASSUME NEW f \in Flow, Provider(f) PROVE flow'[g] = flow[g]
  <2>1. f # g
    BY <1>3, Zenon DEF Provider, ProviderRefuses, ProviderSignsIn
  <2> QED
    BY <1>1, <1>3, <2>1, Zenon DEF Provider, ProviderRefuses, ProviderSignsIn
<1>4. ASSUME NEW f \in Flow, callback_response(f) PROVE flow'[g] = flow[g]
  <2>1. f # g
    BY <1>4, Zenon DEF callback_response, callback_error, callback_state, exchange, verify,
         verify_fresh, lookup, provision, settle, new_session
  <2>2. CASE callback_error(f) \/ callback_state(f) \/ exchange(f) \/ verify(f)
    BY <1>1, <2>1, <2>2, Zenon DEF callback_error, callback_state, exchange, verify, Fails
  <2>3. CASE verify_fresh(f) \/ \E signups \in BOOLEAN : lookup(f, signups)
    BY <1>1, <2>1, <2>3, Zenon DEF verify_fresh, lookup, Fails
  <2>4. CASE provision(f) \/ settle(f) \/ new_session(f)
    BY <1>1, <2>1, <2>4, Zenon DEF provision, settle, new_session, Fails
  <2> QED
    BY <1>4, <2>2, <2>3, <2>4, Zenon DEF callback_response
<1>5. CASE Environment \/ install_oidc \/ ensure_user_networks
  BY <1>5, Zenon DEF Environment, OpenPage, logout_response, LogoutAnswered, CookiesExpire, session_expires, RotateKey,
       ServeRestarts, install_oidc, ensure_user_networks
<1> QED
  BY <1>2, <1>3, <1>4, <1>5, Zenon DEF LoginNext

\* Between the answer to a logout, or to a probe that found nobody, and the
\* next sign-in or the expiry of the probed cookie, a browser gets a session
\* only from a login that was asked for or that an earlier page began,
\* whatever its other tabs, expiries and restarts do (dashboard_gate,
\* probe_failed_response, suppress_next_probe).
THEOREM NoProbe == LoginSpec => NoProbeAfterLogout
<1>1. ASSUME LoginInv, LoginNext PROVE SignsBackIn
  <2>1. SUFFICES ASSUME NEW f \in Flow, flow[f].stage # "done", flow'[f].stage = "done"
                 PROVE  ~flow[f].unasked
    BY Zenon DEF SignsBackIn
  <2>2. flow \in [Flow -> {FreshFlow} \cup FlowRec]
    BY <1>1, Zenon DEF LoginInv, LoginTypes
  <2>3. ASSUME flow[f].stage = "new", Start(f) PROVE FALSE
    <3>1. PICK b \in Browser, stage \in {"asked", "probing"} : StartFlow(b, f, stage, FALSE)
      BY <1>1, <2>1, <2>3, StartGoes, Zenon
    <3>2. flow'[f] = [stage |-> stage, b |-> b, sub |-> {}, sent |-> {}, key |-> 0, unasked |-> FALSE]
      BY <2>2, <3>1, Zenon DEF StartFlow
    <3>3. flow'[f].stage = stage
      BY <3>2, SMT
    <3> QED
      BY <2>1, <3>3, Zenon
  <2>4. flow[f].stage # "new"
    BY <1>1, <2>1, <2>3, NewUntouched, Zenon
  <2>5. flow[f] \in FlowRec
    BY <2>2, <2>4, FlowFields, Zenon
  <2>6. flow[f].unasked \in NeverUnasked
    BY <2>5, SMT DEF FlowRec
  <2> QED
    BY <2>6, Zenon DEF NeverUnasked
<1>2. LoginInv /\ [LoginNext]_(loginVars) => [SignsBackIn]_(loginVars)
  BY <1>1, Zenon
<1>3. LoginSpec => [][LoginNext]_(loginVars)
  BY PTL DEF LoginSpec
<1> QED
  BY <1>2, <1>3, LoginAlways, PTL DEF NoProbeAfterLogout

\* The signing keys: none is newer than the provider's own, neither in a token
\* nor in the cached key set, and the provider rotates a bounded number of
\* times.
KeysInv ==
  /\ epoch \in 1 .. MaxRotations + 1 /\ jwks \subseteq 1 .. epoch
  /\ \A f \in Flow : flow[f].stage # "new" => flow[f].key <= epoch

\* A callback, or the provider's answer before it, changes its own flow only,
\* and the key it notes is the provider's current one (exchange).
LEMMA KeyOfCallback ==
  ASSUME LoginInv, NEW f \in Flow, Provider(f) \/ callback_response(f)
  PROVE  /\ flow[f].stage # "new" /\ flow'[f].key \in {flow[f].key, epoch}
         /\ \A g \in Flow \ {f} : flow'[g] = flow[g]
<1>1. flow \in [Flow -> {FreshFlow} \cup FlowRec]
  BY Zenon DEF LoginInv, LoginTypes
<1>2. flow[f].stage # "new"
  BY Zenon DEF Provider, ProviderRefuses, ProviderSignsIn, callback_response, callback_error, callback_state,
     exchange, verify, verify_fresh, lookup, provision, settle, new_session
<1>3. flow[f] \in FlowRec
  BY <1>1, <1>2, FlowFields, Zenon
<1>4. \/ \E s : flow' = [flow EXCEPT ![f].stage = s]
      \/ \E s, z : flow' = [flow EXCEPT ![f].stage = s, ![f].sub = z]
      \/ \E s, z : flow' = [flow EXCEPT ![f].stage = s, ![f].sent = z]
      \/ \E s : flow' = [flow EXCEPT ![f].stage = s, ![f].key = epoch]
  <2>1. CASE Provider(f)
    BY <2>1, Zenon DEF Provider, ProviderRefuses, ProviderSignsIn
  <2>2. CASE callback_error(f) \/ callback_state(f) \/ exchange(f) \/ verify(f)
    BY <2>2, Zenon DEF callback_error, callback_state, exchange, verify, Fails
  <2>3. CASE verify_fresh(f) \/ \E signups \in BOOLEAN : lookup(f, signups)
    BY <2>3, Zenon DEF verify_fresh, lookup, Fails
  <2>4. CASE provision(f) \/ settle(f) \/ new_session(f)
    BY <2>4, Zenon DEF provision, settle, new_session, Fails
  <2> QED
    BY <2>1, <2>2, <2>3, <2>4, Zenon DEF callback_response
<1>5. ASSUME NEW s, flow' = [flow EXCEPT ![f].stage = s]
      PROVE  flow'[f].key = flow[f].key /\ \A g \in Flow \ {f} : flow'[g] = flow[g]
  <2>1. flow'[f] = [flow[f] EXCEPT !.stage = s] /\ \A g \in Flow \ {f} : flow'[g] = flow[g]
    BY <1>1, <1>5, Zenon
  <2> QED
    BY <1>3, <2>1, SMT DEF FlowRec
<1>6. ASSUME NEW s, NEW z, flow' = [flow EXCEPT ![f].stage = s, ![f].sub = z]
      PROVE  flow'[f].key = flow[f].key /\ \A g \in Flow \ {f} : flow'[g] = flow[g]
  <2>1. flow'[f] = [flow[f] EXCEPT !.stage = s, !.sub = z] /\ \A g \in Flow \ {f} : flow'[g] = flow[g]
    BY <1>1, <1>6, Zenon
  <2> QED
    BY <1>3, <2>1, SMTT(60) DEF FlowRec
<1>7. ASSUME NEW s, NEW z, flow' = [flow EXCEPT ![f].stage = s, ![f].sent = z]
      PROVE  flow'[f].key = flow[f].key /\ \A g \in Flow \ {f} : flow'[g] = flow[g]
  <2>1. flow'[f] = [flow[f] EXCEPT !.stage = s, !.sent = z] /\ \A g \in Flow \ {f} : flow'[g] = flow[g]
    BY <1>1, <1>7, Zenon
  <2> QED
    BY <1>3, <2>1, SMT DEF FlowRec
<1>8. ASSUME NEW s, flow' = [flow EXCEPT ![f].stage = s, ![f].key = epoch]
      PROVE  flow'[f].key = epoch /\ \A g \in Flow \ {f} : flow'[g] = flow[g]
  <2>1. flow'[f] = [flow[f] EXCEPT !.stage = s, !.key = epoch] /\ \A g \in Flow \ {f} : flow'[g] = flow[g]
    BY <1>1, <1>8, Zenon
  <2> QED
    BY <1>3, <2>1, SMT DEF FlowRec
<1> QED
  BY <1>2, <1>4, <1>5, <1>6, <1>7, <1>8, Zenon

\* Every step of the sign-in keeps the bounds on the signing keys.
LEMMA KeysStep ==
  ASSUME LoginInv, KeysInv, [LoginNext]_(loginVars)
  PROVE  KeysInv'
<1>1. flow \in [Flow -> {FreshFlow} \cup FlowRec] /\ epoch \in 1 .. MaxRotations + 1 /\ jwks \subseteq 1 .. epoch
  BY Zenon DEF LoginInv, LoginTypes, KeysInv
<1>2. PublishedKeys \subseteq 1 .. epoch
  BY <1>1, LoginSizes, SMT DEF PublishedKeys
<1>3. epoch' \in 1 .. MaxRotations + 1 /\ (epoch' = epoch \/ epoch' = epoch + 1)
  <2>1. epoch' = epoch \/ RotateKey
    BY ZenonT(60) DEF LoginNext, Start, Provider, callback_response, Environment, login_response, dashboard_gate,
       ProviderRefuses, ProviderSignsIn, callback_error, callback_state, exchange, verify, verify_fresh, lookup,
       provision, settle, new_session, OpenPage, logout_response, LogoutAnswered, CookiesExpire, session_expires, ServeRestarts,
       install_oidc, ensure_user_networks, loginVars
  <2>2. ASSUME RotateKey PROVE epoch <= MaxRotations /\ epoch' = epoch + 1
    BY <2>2, Zenon DEF RotateKey
  <2> QED
    BY <1>1, <2>1, <2>2, LoginSizes, SMTT(60)
<1>4. jwks' \in {jwks, {}, PublishedKeys}
  BY ZenonT(60) DEF LoginNext, Start, Provider, callback_response, Environment, login_response, dashboard_gate,
     ProviderRefuses, ProviderSignsIn, callback_error, callback_state, exchange, verify, verify_fresh, lookup,
     provision, settle, new_session, OpenPage, logout_response, LogoutAnswered, CookiesExpire, session_expires, ServeRestarts, RotateKey,
     install_oidc, ensure_user_networks, loginVars, fetch_jwks
<1>5. jwks' \subseteq 1 .. epoch'
  BY <1>1, <1>2, <1>3, <1>4, SMT
<1>6. ASSUME NEW g \in Flow, flow'[g].stage # "new"
      PROVE  \/ flow'[g].key = 0 \/ flow'[g].key = epoch
             \/ flow[g].stage # "new" /\ flow'[g].key = flow[g].key
  <2>1. ASSUME NEW f \in Flow, Start(f)
        PROVE  flow'[g] = flow[g] \/ flow'[g].key = 0
    <3>0. CASE UNCHANGED <<flow, jar>>
      BY <3>0, Zenon
    <3>a. SUFFICES ASSUME ~UNCHANGED <<flow, jar>> PROVE flow'[g] = flow[g] \/ flow'[g].key = 0
      BY <3>0, Zenon
    <3>1. PICK stage, b : flow' = [flow EXCEPT ![f] = [stage |-> stage, b |-> b, sub |-> {}, sent |-> {},
                                                       key |-> 0, unasked |-> FALSE]]
      BY <2>1, <3>a, StartGoes, Zenon DEF StartFlow
    <3>2. CASE f = g
      <4>1. flow'[g] = [stage |-> stage, b |-> b, sub |-> {}, sent |-> {}, key |-> 0, unasked |-> FALSE]
        BY <1>1, <3>1, <3>2, Zenon
      <4> QED
        BY <4>1, SMT
    <3>3. CASE f # g
      BY <1>1, <3>1, <3>3, Zenon
    <3> QED
      BY <3>2, <3>3, Zenon
  <2>2. ASSUME NEW f \in Flow, Provider(f) \/ callback_response(f)
        PROVE  flow'[g] = flow[g] \/ flow'[g].key = epoch \/ (flow[g].stage # "new" /\ flow'[g].key = flow[g].key)
    BY <2>2, KeyOfCallback, Zenon
  <2>3. ASSUME ServeRestarts
        PROVE  flow'[g] = flow[g] \/ (flow[g].stage # "new" /\ flow'[g].key = flow[g].key)
    <3>1. flow'[g] = flow[g] \/ (flow[g].stage # "new" /\ flow'[g] = [flow[g] EXCEPT !.stage = "failed"])
      BY <2>3, Zenon DEF ServeRestarts
    <3>2. flow[g].stage # "new" => flow[g] \in FlowRec
      BY <1>1, FlowFields, Zenon
    <3> QED
      BY <3>1, <3>2, SMT DEF FlowRec
  <2>4. CASE UNCHANGED flow
    BY <1>6, <2>4, Zenon
  <2>5. \/ \E f \in Flow : Start(f) \/ Provider(f) \/ callback_response(f)
        \/ ServeRestarts \/ UNCHANGED flow
    BY Zenon DEF LoginNext, Environment, OpenPage, logout_response, LogoutAnswered, CookiesExpire, session_expires, RotateKey,
       install_oidc, ensure_user_networks, loginVars
  <2> QED
    BY <1>6, <2>1, <2>2, <2>3, <2>4, <2>5, Zenon
<1>7. ASSUME NEW g \in Flow, flow'[g].stage # "new" PROVE flow'[g].key <= epoch'
  <2>1. flow[g].stage # "new" => flow[g].key \in Nat /\ flow[g].key <= epoch
    <3>1. flow[g].stage # "new" => flow[g] \in FlowRec
      BY <1>1, FlowFields, Zenon
    <3>2. \A r \in FlowRec : r.key \in Nat
      BY SMTT(60) DEF FlowRec
    <3> QED
      BY <3>1, <3>2, Zenon DEF KeysInv
  <2> QED
    BY <1>1, <1>3, <1>6, <1>7, <2>1, LoginSizes, SMT
<1> QED
  BY <1>3, <1>5, <1>7, Zenon DEF KeysInv

\* The rows, sessions, cookies, callbacks and keys of the sign-in have their
\* types throughout (auth/src, store/src/users.rs).
THEOREM LoginTyped == LoginSpec => []LoginTypeOK
<1>1. LoginInit => KeysInv
  <2>1. ASSUME LoginInit PROVE KeysInv
    <3>1. epoch = 1 /\ jwks = {} /\ \A f \in Flow : flow[f] = FreshFlow
      BY <2>1, Zenon DEF LoginInit
    <3>2. FreshFlow.stage = "new"
      BY SMT DEF FreshFlow
    <3>3. epoch \in 1 .. MaxRotations + 1 /\ jwks \subseteq 1 .. epoch
      BY <3>1, LoginSizes, SMT
    <3> QED
      BY <3>1, <3>2, <3>3, Zenon DEF KeysInv
  <2> QED
    BY <2>1, Zenon
<1>2. LoginInv /\ KeysInv /\ [LoginNext]_(loginVars) => KeysInv'
  BY KeysStep, Zenon
<1>3. LoginInv /\ KeysInv => LoginTypeOK
  <2>1. SUFFICES ASSUME LoginInv, KeysInv PROVE LoginTypeOK
    BY Zenon
  <2>2. ASSUME NEW f \in Flow
        PROVE  \/ flow[f] = FreshFlow
               \/ flow[f] \in [stage : Stages \ {"new"}, b : Browser, sub : SUBSET Subject,
                               sent : SUBSET Flow, key : 0 .. epoch, unasked : BOOLEAN]
    <3>1. flow[f] \in {FreshFlow} \cup FlowRec /\ epoch \in 1 .. MaxRotations + 1
      BY <2>1, Zenon DEF LoginInv, LoginTypes, KeysInv
    <3>2. CASE flow[f] # FreshFlow
      <4>1. flow[f] \in FlowRec /\ flow[f].key <= epoch
        BY <2>1, <3>1, <3>2, FlowFields, Zenon DEF KeysInv
      <4>2. flow[f].key \in 0 .. epoch
        BY <3>1, <4>1, LoginSizes, SMT DEF FlowRec
      <4>3. NeverUnasked \subseteq BOOLEAN
        BY Zenon DEF NeverUnasked
      <4> QED
        BY <4>1, <4>2, <4>3, SMTT(60) DEF FlowRec
    <3> QED
      BY <3>2, Zenon
  <2>3. /\ leaving \subseteq Browser
        /\ \A b \in Browser : visit[b] \subseteq [session : SUBSET Flow, probed : BOOLEAN, out : BOOLEAN]
    BY <2>1, Zenon DEF LoginInv, LoginTypes, RequestsOK, RequestRec
  <2> QED
    BY <2>1, <2>2, <2>3, Zenon DEF LoginInv, LoginTypes, KeysInv, LoginTypeOK, UserRec, JarRec
<1> QED
  BY <1>1, <1>2, <1>3, LoginAlways, PTL DEF LoginSpec

-----------------------------------------------------------------------------
(* Numbers with a bound. *)

\* A set of numbers with a bound has a largest one.
LEMMA Largest ==
  ASSUME NEW S, S \subseteq Nat, S # {}, NEW n \in Nat, \A x \in S : x <= n
  PROVE  \E x \in S : \A y \in S : y <= x
<1>1. PICK D : D = {n - x : x \in S}
  BY Zenon
<1>2. D \subseteq Nat
  <2>1. \A x \in S : n - x \in Nat
    BY SMT
  <2> QED
    BY <1>1, <2>1, Zenon
<1>3. D # {}
  BY <1>1, Zenon
<1>4. PICK d \in D : \A e \in D : d <= e
  BY <1>2, <1>3, Smallest, Zenon
<1>5. PICK x \in S : d = n - x
  BY <1>1, <1>4, Zenon
<1>6. ASSUME NEW y \in S PROVE x >= y
  <2>1. n - y \in D
    BY <1>1, Zenon
  <2>2. n - x <= n - y
    BY <1>4, <1>5, <2>1, Zenon
  <2>3. x \in Nat /\ y \in Nat
    BY Zenon
  <2> QED
    BY <2>2, <2>3, SMT
<1> QED
  BY <1>6, Zenon

-----------------------------------------------------------------------------
(* Linking keys. *)

\* The records of a pairing row, of a connection and of a page.
PairRec == [id : Nat \ {0}, made : Nat \ {0}, key : Key, by : SUBSET Account, expired : BOOLEAN]
ConnRec == [stage : {"offer", "user", "wait", "linked", "expired", "cancelled", "failed"},
            key : Key, id : Nat, made : Nat, told : SUBSET Account, late : BOOLEAN]
PageRec == [stage : {"shown", "linking", "dead", "linked", "refused"},
            user : Account, saw : SUBSET PairRec, got : SUBSET Key]

\* The state of the pairing, without the bound on the ids.
PairTypes ==
  /\ pairings \subseteq PairRec /\ keys \subseteq [key : Key, user : Account] /\ made \in Nat
  /\ conn \in [Conn -> {IdleConn} \cup ConnRec]
  /\ page \in [Page -> {IdlePage} \cup PageRec]

\* The rows: one per id and one per storing, numbered no higher than rows
\* were stored, each claimed by at most one user.
PairsOK ==
  /\ made <= MaxPairings /\ \A r \in pairings : r.id <= made /\ r.made <= made
  /\ \A r \in pairings : r.by = {} \/ \E u \in Account : r.by = {u}
  /\ \A r, s \in pairings : r.id = s.id \/ r.made = s.made => r = s

\* The UNIQUE fingerprint: a key belongs to one user.
KeysOK == \A s, t \in keys : s.key = t.key => s.user = t.user

\* The row that s was read from is still there under the same id and with the
\* same key, or it had expired and was swept.
Kept(s) == s.made \in swept \/ \E r \in pairings : r.made = s.made /\ r.id = s.id /\ r.key = s.key

\* A page was drawn from one row, which is kept; once it says linked it
\* linked the key of that row, or the row had been swept.
PageOK(p) ==
  page[p].stage # "new" =>
    \E s \in PairRec : /\ page[p].saw = {s} /\ Kept(s)
                       /\ page[p].stage = "linked" => page[p].got = {s.key} \/ s.made \in swept

\* The inductive invariant of the pairing.
PairInv == PairTypes /\ PairsOK /\ KeysOK /\ \A p \in Page : PageOK(p)

\* A step of a connection that stores nothing keeps the invariant.
LEMMA ConnGoes ==
  ASSUME PairInv, UNCHANGED <<pairings, keys, page, made, swept>>,
         NEW c \in Conn, NEW r \in ConnRec, conn' = [conn EXCEPT ![c] = r]
  PROVE  PairInv'
<1>1. conn' \in [Conn -> {IdleConn} \cup ConnRec]
  BY Zenon DEF PairInv, PairTypes
<1>2. PairTypes'
  BY <1>1, Zenon DEF PairInv, PairTypes
<1>3. PairsOK' /\ KeysOK'
  BY Zenon DEF PairInv, PairsOK, KeysOK
<1>4. \A p \in Page : PageOK(p)'
  BY Zenon DEF PairInv, PageOK, Kept
<1> QED
  BY <1>2, <1>3, <1>4, Zenon DEF PairInv

\* A connection past authenticate_key is a record.
LEMMA ConnFields ==
  ASSUME PairInv, NEW c \in Conn, conn[c].stage # "new"
  PROVE  conn[c] \in ConnRec
<1>1. conn[c] \in {IdleConn} \cup ConnRec
  BY Zenon DEF PairInv, PairTypes
<1>2. IdleConn.stage = "new"
  BY SMTT(60) DEF IdleConn
<1> QED
  BY <1>1, <1>2, Zenon

\* A page that was opened is a record.
LEMMA PageFields ==
  ASSUME PairInv, NEW p \in Page, page[p].stage # "new"
  PROVE  page[p] \in PageRec
<1>1. page[p] \in {IdlePage} \cup PageRec
  BY Zenon DEF PairInv, PairTypes
<1>2. IdlePage.stage = "new"
  BY SMT DEF IdlePage
<1> QED
  BY <1>1, <1>2, Zenon

\* linked_user returns users.
LEMMA LinkedUsers ==
  ASSUME PairInv
  PROVE  \A i : linked_user(i) \in SUBSET Account
<1>1. \A r \in pairings : r.by \subseteq Account
  BY SMT DEF PairInv, PairTypes, PairRec
<1> QED
  BY <1>1, Zenon DEF linked_user, RowsAt

\* authenticate_key, begin_fails, wait_for_link, wait_input and the session's
\* deadline keep the invariant.
LEMMA ConnStep ==
  ASSUME PairInv, NEW c \in Conn,
         \/ \E k \in Key : authenticate_key(c, k)
         \/ begin_fails(c) \/ wait_for_link(c) \/ wait_input(c) \/ DeadlinePasses(c)
  PROVE  PairInv'
<1>1. UNCHANGED <<pairings, keys, page, made, swept>>
  BY Zenon DEF authenticate_key, begin_fails, wait_for_link, wait_input, DeadlinePasses
<1>2. conn \in [Conn -> {IdleConn} \cup ConnRec]
  BY Zenon DEF PairInv, PairTypes
<1>3. ASSUME NEW k \in Key, authenticate_key(c, k) PROVE PairInv'
  <2>1. PICK s \in {"user", "offer"} : conn' = [conn EXCEPT ![c] =
          [stage |-> s, key |-> k, id |-> 0, made |-> 0, told |-> {}, late |-> FALSE]]
    BY <1>3, Zenon DEF authenticate_key
  <2>2. PICK r : r = [stage |-> s, key |-> k, id |-> 0, made |-> 0, told |-> {}, late |-> FALSE]
    BY Zenon
  <2>3. r \in ConnRec
    BY <2>2, SMT DEF ConnRec
  <2> QED
    BY <1>1, <2>1, <2>2, <2>3, ConnGoes, Zenon
<1>4. CASE begin_fails(c) \/ wait_for_link(c) \/ wait_input(c) \/ DeadlinePasses(c)
  <2>1. conn[c] \in ConnRec
    <3>1. conn[c].stage # "new"
      BY <1>4, Zenon DEF begin_fails, wait_for_link, wait_input, DeadlinePasses
    <3> QED
      BY <3>1, ConnFields, Zenon
  <2>2. CASE \E s \in {"failed", "cancelled", "expired"} : conn' = [conn EXCEPT ![c].stage = s]
    <3>1. PICK s \in {"failed", "cancelled", "expired"} : conn' = [conn EXCEPT ![c] = [conn[c] EXCEPT !.stage = s]]
      BY <2>2, Zenon
    <3>2. [conn[c] EXCEPT !.stage = s] \in ConnRec
      BY <2>1, SMT DEF ConnRec
    <3> QED
      BY <1>1, <3>1, <3>2, ConnGoes, Zenon
  <2>3. CASE conn' = [conn EXCEPT ![c].late = TRUE]
    <3>1. conn' = [conn EXCEPT ![c] = [conn[c] EXCEPT !.late = TRUE]]
      BY <2>3, Zenon
    <3>2. [conn[c] EXCEPT !.late = TRUE] \in ConnRec
      BY <2>1, Zenon DEF ConnRec
    <3> QED
      BY <1>1, <3>1, <3>2, ConnGoes, Zenon
  <2>4. CASE conn' = [conn EXCEPT ![c].stage = "linked", ![c].told = linked_user(conn[c].id)]
    <3>1. PICK U \in SUBSET Account : U = linked_user(conn[c].id)
      BY LinkedUsers, Zenon
    <3>2. conn' = [conn EXCEPT ![c] = conn'[c]] /\ conn'[c] = [conn[c] EXCEPT !.stage = "linked", !.told = U]
      BY <1>2, <2>4, <3>1, Zenon
    <3>4. [conn[c] EXCEPT !.stage = "linked", !.told = U] \in ConnRec
      BY <2>1, Zenon DEF ConnRec
    <3> QED
      BY <1>1, <3>2, <3>4, ConnGoes, Zenon
  <2> QED
    BY <1>4, <2>2, <2>3, <2>4, Zenon DEF begin_fails, wait_for_link, wait_input, DeadlinePasses
<1> QED
  BY <1>3, <1>4, Zenon

\* The id SQLite gives a new row is above those in use, and no higher than
\* the number of rows ever stored.
LEMMA FreshId ==
  ASSUME PairInv, NEW L \in SUBSET pairings
  PROVE  /\ NextId(L) \in Nat \ {0} /\ NextId(L) <= made + 1
         /\ \A r \in L : r.id < NextId(L)
<1>1. made \in Nat /\ \A r \in L : r.id \in Nat /\ r.id <= made
  <2>1. \A r \in PairRec : r.id \in Nat
    BY SMTT(60) DEF PairRec
  <2> QED
    BY <2>1, Zenon DEF PairInv, PairTypes, PairsOK
<1>2. CASE L = {}
  <2>1. NextId(L) = 1 + 0
    BY <1>2, Zenon DEF NextId
  <2> QED
    BY <1>1, <1>2, <2>1, SMT
<1>3. CASE L # {}
  <2>1. PICK I : I = {r.id : r \in L}
    BY Zenon
  <2>2. I \subseteq Nat /\ I # {} /\ \A i \in I : i <= made
    BY <1>1, <1>3, <2>1, Zenon
  <2>3. \E x \in I : \A y \in I : y <= x
    BY <1>1, <2>2, Largest, Zenon
  <2>4. PICK m : m = LargestId(L)
    OBVIOUS
  <2>5. m \in I /\ \A y \in I : y <= m
    <3>1. \E n \in {r.id : r \in L} : \A r \in L : r.id <= n
      BY <2>1, <2>3, Zenon
    <3>2. m \in {r.id : r \in L} /\ \A r \in L : r.id <= m
      BY <2>4, <3>1, Zenon DEF LargestId
    <3> QED
      BY <2>1, <3>2, Zenon
  <2>6. NextId(L) = 1 + m
    BY <1>3, <2>4, Zenon DEF NextId
  <2>7. m \in Nat /\ m <= made /\ \A r \in L : r.id \in Nat /\ r.id <= m
    BY <1>1, <2>1, <2>2, <2>5, Zenon
  <2> QED
    BY <1>1, <2>6, <2>7, SMT
<1> QED
  BY <1>2, <1>3, Zenon

\* create_pairing keeps the invariant: the sweep notes what had expired, and
\* the new row has an id of its own even when the id of a swept row comes
\* back.
LEMMA BeginStep ==
  ASSUME PairInv, NEW c \in Conn, begin(c)
  PROVE  PairInv'
<1>1. PICK L \in SUBSET pairings :
        /\ L = pairings \ Sweepable(pairings)
        /\ made' = made + 1
        /\ pairings' = L \cup {[id |-> NextId(L), made |-> made', key |-> conn[c].key, by |-> {}, expired |-> FALSE]}
        /\ swept' = swept \cup {r.made : r \in {s \in Sweepable(pairings) : s.expired}}
        /\ conn' = [conn EXCEPT ![c].stage = "wait", ![c].id = NextId(L), ![c].made = made']
  BY Zenon DEF begin
<1>2. UNCHANGED <<keys, page>> /\ conn[c].stage = "offer" /\ made < MaxPairings
  BY Zenon DEF begin
<1>3. /\ pairings \subseteq PairRec /\ keys \subseteq [key : Key, user : Account] /\ made \in Nat /\ PairsOK /\ KeysOK
      /\ conn \in [Conn -> {IdleConn} \cup ConnRec] /\ page \in [Page -> {IdlePage} \cup PageRec]
  BY Zenon DEF PairInv, PairTypes
<1>4. conn[c] \in ConnRec
  BY <1>2, ConnFields, Zenon
<1>5. PICK i \in Nat \ {0} : i = NextId(L) /\ i <= made + 1 /\ \A r \in L : r.id < i
  BY FreshId, Zenon
<1>6. PICK w : w = [id |-> i, made |-> made', key |-> conn[c].key, by |-> {}, expired |-> FALSE]
  BY Zenon
<1>7. made' \in Nat /\ made' = made + 1 /\ made <= made'
  BY <1>1, <1>3, SMT
<1>8. w.id = i /\ w.made = made' /\ w.by = {} /\ w \in PairRec
  <2>1. conn[c].key \in Key
    BY <1>4, SMT DEF ConnRec
  <2>2. made' \in Nat \ {0}
    BY <1>3, <1>7, SMTT(60)
  <2> QED
    BY <1>6, <2>1, <2>2, SMT DEF PairRec
<1>9. pairings' = L \cup {w}
  BY <1>1, <1>5, <1>6, Zenon
<1>10. conn' \in [Conn -> {IdleConn} \cup ConnRec]
  <2>1. /\ conn' = [conn EXCEPT ![c] = conn'[c]]
        /\ conn'[c] = [conn[c] EXCEPT !.stage = "wait", !.id = i, !.made = made']
    BY <1>1, <1>3, <1>5, Zenon
  <2>2. [conn[c] EXCEPT !.stage = "wait", !.id = i, !.made = made'] \in ConnRec
    BY <1>4, <1>7, Zenon DEF ConnRec
  <2> QED
    BY <1>3, <2>1, <2>2, Zenon
<1>11. PairTypes'
  BY <1>2, <1>3, <1>7, <1>8, <1>9, <1>10, Zenon DEF PairTypes
<1>12. \A r \in L : r.id \in Nat /\ r.made \in Nat /\ r.id <= made /\ r.made <= made /\ r.id < i
  <2>1. \A r \in PairRec : r.id \in Nat /\ r.made \in Nat
    BY SMTT(60) DEF PairRec
  <2> QED
    BY <1>3, <1>5, <2>1, Zenon DEF PairsOK
<1>13. \A r \in L : r.id <= made' /\ r.made <= made' /\ r.id # w.id /\ r.made # w.made
  BY <1>3, <1>7, <1>8, <1>12, SMT
<1>14. w.id <= made' /\ w.made <= made'
  BY <1>5, <1>7, <1>8, SMTT(60)
<1>15. PairsOK'
  <2>1. \A r \in pairings' : r.id <= made' /\ r.made <= made'
    BY <1>9, <1>13, <1>14, Zenon
  <2>2. \A r \in pairings' : r.by = {} \/ \E u \in Account : r.by = {u}
    BY <1>3, <1>8, <1>9, Zenon DEF PairsOK
  <2>3. \A r, s \in pairings' : r.id = s.id \/ r.made = s.made => r = s
    BY <1>3, <1>9, <1>13, ZenonT(60) DEF PairsOK
  <2>4. made' <= MaxPairings
    BY <1>2, <1>3, <1>7, PairingSizes, SMTT(60)
  <2> QED
    BY <2>1, <2>2, <2>3, <2>4, Zenon DEF PairsOK
<1>16. ASSUME NEW s, Kept(s) PROVE Kept(s)'
  BY <1>1, <1>9, <1>16, Zenon DEF Kept, Sweepable
<1>17. swept \subseteq swept'
  BY <1>1, Zenon
<1>18. \A p \in Page : PageOK(p)'
  BY <1>2, <1>16, <1>17, Zenon DEF PairInv, PageOK
<1>19. KeysOK'
  BY <1>2, <1>3, Zenon DEF KeysOK
<1> QED
  BY <1>11, <1>15, <1>18, <1>19, Zenon DEF PairInv

\* A row that is rewritten under its id, number and key leaves the rows apart
\* and every page's row kept.
LEMMA RowGoes ==
  ASSUME PairInv, NEW r \in pairings, NEW w \in PairRec,
         pairings' = (pairings \ {r}) \cup {w}, made' = made, swept' = swept,
         w.id = r.id, w.made = r.made, w.key = r.key, w.by = {} \/ \E u \in Account : w.by = {u}
  PROVE  /\ pairings' \subseteq PairRec /\ made' \in Nat /\ PairsOK'
         /\ \A s : Kept(s) => Kept(s)'
<1>1. pairings \subseteq PairRec /\ made \in Nat /\ PairsOK
  BY Zenon DEF PairInv, PairTypes
<1>2. pairings' \subseteq PairRec /\ made' \in Nat
  BY <1>1, Zenon
<1>3. PairsOK'
  <2>1. \A q \in pairings' : q.id <= made' /\ q.made <= made'
    BY <1>1, Zenon DEF PairsOK
  <2>2. \A q \in pairings' : q.by = {} \/ \E u \in Account : q.by = {u}
    BY <1>1, Zenon DEF PairsOK
  <2>3. \A q \in pairings \ {r} : q.id # w.id /\ q.made # w.made
    BY <1>1, Zenon DEF PairsOK
  <2>4. \A q, s \in pairings' : q.id = s.id \/ q.made = s.made => q = s
    BY <1>1, <2>3, Zenon DEF PairsOK
  <2> QED
    BY <1>1, <2>1, <2>2, <2>4, Zenon DEF PairsOK
<1>4. \A s : Kept(s) => Kept(s)'
  BY Zenon DEF Kept
<1> QED
  BY <1>2, <1>3, <1>4, Zenon

\* The expiry of a row keeps the invariant.
LEMMA ExpireStep ==
  ASSUME PairInv, NEW r \in pairings, RowExpires(r)
  PROVE  PairInv'
<1>1. /\ pairings' = (pairings \ {r}) \cup {[r EXCEPT !.expired = TRUE]} /\ r.by = {}
      /\ UNCHANGED <<keys, conn, page, made, swept>>
  BY Zenon DEF RowExpires
<1>2. r \in PairRec
  BY Zenon DEF PairInv, PairTypes
<1>3. PICK w : w = [r EXCEPT !.expired = TRUE]
  BY Zenon
<1>4. w \in PairRec
  BY <1>2, <1>3, Zenon DEF PairRec
<1>5. w.id = r.id /\ w.made = r.made /\ w.key = r.key /\ w.by = r.by
  BY <1>2, <1>3, SMT DEF PairRec
<1>6. pairings' = (pairings \ {r}) \cup {w} /\ made' = made /\ swept' = swept
  BY <1>1, <1>3, Zenon
<1>7. /\ pairings' \subseteq PairRec /\ made' \in Nat /\ PairsOK'
      /\ \A s : Kept(s) => Kept(s)'
  BY <1>1, <1>4, <1>5, <1>6, RowGoes, Zenon
<1>8. PairTypes' /\ KeysOK'
  BY <1>1, <1>7, Zenon DEF PairInv, PairTypes, KeysOK
<1>9. \A p \in Page : PageOK(p)'
  BY <1>1, <1>7, Zenon DEF PairInv, PageOK
<1> QED
  BY <1>7, <1>8, <1>9, Zenon DEF PairInv

\* A step of one page keeps it, provided the rows stay kept and the page is
\* in order afterwards.
LEMMA PageGoes ==
  ASSUME PairInv, NEW p \in Page, NEW q \in PageRec, page' = [page EXCEPT ![p] = q],
         conn' = conn, swept' = swept, \A s : Kept(s) => Kept(s)',
         pairings' \subseteq PairRec, made' \in Nat, PairsOK',
         keys' \subseteq [key : Key, user : Account], KeysOK',
         NEW s \in PairRec, q.saw = {s}, Kept(s),
         q.stage = "linked" => q.got = {s.key} \/ s.made \in swept
  PROVE  PairInv'
<1>1. page' \in [Page -> {IdlePage} \cup PageRec] /\ page'[p] = q /\ \A g \in Page \ {p} : page'[g] = page[g]
  BY Zenon DEF PairInv, PairTypes
<1>2. PairTypes'
  BY <1>1, Zenon DEF PairInv, PairTypes
<1>3. ASSUME NEW g \in Page PROVE PageOK(g)'
  <2>1. CASE g = p
    <3>1. Kept(s)'
      BY Zenon
    <3> QED
      BY <1>1, <2>1, <3>1, Zenon DEF PageOK
  <2>2. CASE g # p
    <3>1. page'[g] = page[g] /\ PageOK(g)
      BY <1>1, <2>2, Zenon DEF PairInv
    <3> QED
      BY <3>1, Zenon DEF PageOK
  <2> QED
    BY <2>1, <2>2, Zenon
<1> QED
  BY <1>2, <1>3, Zenon DEF PairInv

\* Rows and keys that stay as they are stay in order.
LEMMA SameRows ==
  ASSUME PairInv, UNCHANGED <<pairings, keys, made, swept>>
  PROVE  /\ \A s : Kept(s) => Kept(s)' /\ pairings' \subseteq PairRec /\ made' \in Nat
         /\ PairsOK' /\ keys' \subseteq [key : Key, user : Account] /\ KeysOK'
  BY Zenon DEF PairInv, PairTypes, PairsOK, KeysOK, Kept

\* link_page_response keeps it: the page is drawn from a live row.
LEMMA ShowStep ==
  ASSUME PairInv, NEW p \in Page, NEW u \in Account, NEW r \in pairings, link_page_response(p, u, r)
  PROVE  PairInv'
<1>1. /\ page' = [page EXCEPT ![p] = [stage |-> "shown", user |-> u, saw |-> {r}, got |-> {}]]
      /\ UNCHANGED <<pairings, keys, conn, made, swept>>
  BY ZenonT(60) DEF link_page_response
<1>2. r \in PairRec /\ Kept(r)
  BY ZenonT(60) DEF PairInv, PairTypes, Kept
<1>3. PICK q : q = [stage |-> "shown", user |-> u, saw |-> {r}, got |-> {}]
  BY Zenon
<1>4. q \in PageRec /\ q.saw = {r} /\ q.stage # "linked"
  BY <1>2, <1>3, SMT DEF PageRec
<1>5. page' = [page EXCEPT ![p] = q] /\ conn' = conn /\ swept' = swept
  BY <1>1, <1>3, Zenon
<1> QED
  BY <1>1, <1>2, <1>4, <1>5, SameRows, PageGoes, Zenon

\* link_confirm_response keeps it: the row is looked up once more.
LEMMA ConfirmStep ==
  ASSUME PairInv, NEW p \in Page, link_confirm_response(p)
  PROVE  PairInv'
<1>1. PICK t \in {"linking", "dead"} : page' = [page EXCEPT ![p] = [page[p] EXCEPT !.stage = t]]
  BY Zenon DEF link_confirm_response
<1>2. page[p].stage = "shown" /\ UNCHANGED <<pairings, keys, conn, made, swept>>
  BY Zenon DEF link_confirm_response
<1>3. page[p] \in PageRec
  BY <1>2, PageFields, Zenon
<1>4. PICK s \in PairRec : page[p].saw = {s} /\ Kept(s)
  BY <1>2, Zenon DEF PairInv, PageOK
<1>5. PICK q : q = [page[p] EXCEPT !.stage = t]
  BY Zenon
<1>6. q \in PageRec /\ q.saw = page[p].saw /\ q.stage # "linked"
  BY <1>3, <1>5, SMT DEF PageRec
<1>7. page' = [page EXCEPT ![p] = q] /\ conn' = conn /\ swept' = swept /\ q.saw = {s}
  BY <1>1, <1>2, <1>4, <1>5, <1>6, Zenon
<1> QED
  BY <1>2, <1>4, <1>6, <1>7, SameRows, PageGoes, Zenon

\* link_pairing keeps it: the row with the id the page showed is the row it
\* was drawn from, unless that one was swept, and a key some account holds
\* rolls the claim back.
LEMMA LinkStep ==
  ASSUME PairInv, NEW p \in Page, link_pairing(p)
  PROVE  PairInv'
<1>1. PICK H, T : /\ H = {r \in pairings : (\E s \in page[p].saw : r.id = s.id) /\ Claimable(r)}
                  /\ T = {r \in H : ssh_key_by_fingerprint(r.key) = {}}
  BY Zenon
<1>2. /\ page[p].stage = "linking"
      /\ page' = [page EXCEPT ![p].stage = IF T # {} THEN "linked" ELSE "refused", ![p].got = {r.key : r \in T}]
      /\ pairings' = (pairings \ T) \cup {[r EXCEPT !.by = r.by \cup {page[p].user}] : r \in T}
      /\ keys' = keys \cup {[key |-> r.key, user |-> page[p].user] : r \in T}
      /\ UNCHANGED <<conn, made, swept>>
  BY <1>1, Zenon DEF link_pairing
<1>3. page[p] \in PageRec /\ page \in [Page -> {IdlePage} \cup PageRec] /\ pairings \subseteq PairRec /\ PairsOK
  BY <1>2, PageFields, Zenon DEF PairInv, PairTypes
<1>4. PICK s \in PairRec : page[p].saw = {s} /\ Kept(s)
  BY <1>2, Zenon DEF PairInv, PageOK
<1>5. page[p].user \in Account
  BY <1>3, SMTT(60) DEF PageRec
<1>6. \A r \in T : r \in pairings /\ r.id = s.id /\ r.by = {} /\ ssh_key_by_fingerprint(r.key) = {}
  BY <1>1, <1>4, Zenon DEF Claimable
<1>7. CASE T = {}
  <2>1. UNCHANGED <<pairings, keys, made, swept>>
    BY <1>2, <1>7, Zenon
  <2>2. {r.key : r \in T} = {}
    BY <1>7, Zenon
  <2>3. /\ page' = [page EXCEPT ![p] = page'[p]]
        /\ page'[p] = [page[p] EXCEPT !.stage = "refused", !.got = {}]
    BY <1>2, <1>3, <1>7, <2>2, Zenon
  <2>4. PICK q : q = [page[p] EXCEPT !.stage = "refused", !.got = {}]
    BY SMTT(60)
  <2>5. q \in PageRec
    <3>1. {} \in SUBSET Key
      BY Zenon
    <3> QED
      BY <1>3, <2>4, <3>1, Zenon DEF PageRec
  <2>6. q.saw = page[p].saw /\ q.stage # "linked"
    BY <1>3, <2>4, SMT DEF PageRec
  <2>7. page' = [page EXCEPT ![p] = q] /\ conn' = conn /\ swept' = swept /\ q.saw = {s}
    BY <1>2, <1>4, <2>3, <2>4, <2>6, Zenon
  <2> QED
    BY <1>4, <2>1, <2>5, <2>6, <2>7, SameRows, PageGoes, Zenon
<1>8. CASE T # {}
  <2>1. PICK r \in T : T = {r}
    <3>1. PICK r \in T : TRUE
      BY <1>8, Zenon
    <3>2. ASSUME NEW q \in T PROVE q = r
      <4>1. q \in pairings /\ r \in pairings /\ q.id = r.id
        BY <1>6, Zenon
      <4> QED
        BY <1>3, <4>1, Zenon DEF PairsOK
    <3> QED
      BY <3>2, Zenon
  <2>2. r \in PairRec /\ r \in pairings /\ r.id = s.id /\ r.by = {} /\ ssh_key_by_fingerprint(r.key) = {}
    BY <1>3, <1>6, <2>1, Zenon
  <2>3. r.key \in Key
    BY <2>2, SMTT(60) DEF PairRec
  <2>4. PICK w : w = [r EXCEPT !.by = {page[p].user}]
    BY Zenon
  <2>5. w \in PairRec
    <3>1. {page[p].user} \in SUBSET Account
      BY <1>5, Zenon
    <3> QED
      BY <2>2, <2>4, <3>1, Zenon DEF PairRec
  <2>6. w.id = r.id /\ w.made = r.made /\ w.key = r.key /\ w.by = {page[p].user}
    BY <2>2, <2>4, SMTT(60) DEF PairRec
  <2>7. pairings' = (pairings \ {r}) \cup {w} /\ made' = made /\ swept' = swept
    <3>1. r.by \cup {page[p].user} = {page[p].user}
      BY <2>2, Zenon
    <3>2. pairings' = (pairings \ {r}) \cup {[r EXCEPT !.by = r.by \cup {page[p].user}]}
      BY <1>2, <2>1, Zenon
    <3> QED
      BY <1>2, <2>4, <3>1, <3>2, Zenon
  <2>8. /\ pairings' \subseteq PairRec /\ made' \in Nat /\ PairsOK'
        /\ \A z : Kept(z) => Kept(z)'
    BY <1>5, <2>2, <2>5, <2>6, <2>7, RowGoes, Zenon
  <2>9. PICK k : k = [key |-> r.key, user |-> page[p].user]
    BY Zenon
  <2>10. k \in [key : Key, user : Account] /\ k.key = r.key
    BY <1>5, <2>3, <2>9, SMT
  <2>11. keys' = keys \cup {k}
    BY <1>2, <2>1, <2>9, Zenon
  <2>12. \A z \in keys : z.key # r.key
    BY <2>2, ZenonT(60) DEF ssh_key_by_fingerprint
  <2>13. keys' \subseteq [key : Key, user : Account] /\ KeysOK'
    <3>1. keys \subseteq [key : Key, user : Account] /\ KeysOK
      BY Zenon DEF PairInv, PairTypes
    <3>2. KeysOK'
      <4>1. ASSUME NEW x \in keys', NEW y \in keys', x.key = y.key PROVE x.user = y.user
        <5>1. x = k \/ x \in keys
          BY <2>11, Zenon
        <5>2. y = k \/ y \in keys
          BY <2>11, Zenon
        <5> QED
          BY <2>10, <2>12, <3>1, <4>1, <5>1, <5>2, Zenon DEF KeysOK
      <4> QED
        BY <4>1, Zenon DEF KeysOK
    <3> QED
      BY <2>10, <2>11, <3>1, <3>2, Zenon
  <2>14. {z.key : z \in T} = {r.key}
    BY <2>1, Zenon
  <2>15. /\ page' = [page EXCEPT ![p] = page'[p]]
         /\ page'[p] = [page[p] EXCEPT !.stage = "linked", !.got = {r.key}]
    BY <1>2, <1>3, <1>8, <2>14, Zenon
  <2>16. PICK q : q = [page[p] EXCEPT !.stage = "linked", !.got = {r.key}]
    BY SMTT(60)
  <2>17. q \in PageRec
    <3>1. {r.key} \in SUBSET Key
      BY <2>3, Zenon
    <3> QED
      BY <1>3, <2>16, <3>1, Zenon DEF PageRec
  <2>18. q.saw = page[p].saw /\ q.got = {r.key}
    BY <1>3, <2>16, SMTT(60) DEF PageRec
  <2>19. q.got = {s.key} \/ s.made \in swept
    BY <1>3, <1>4, <2>2, <2>18, ZenonT(60) DEF Kept, PairsOK
  <2>20. page' = [page EXCEPT ![p] = q] /\ conn' = conn /\ swept' = swept /\ q.saw = {s}
    BY <1>2, <1>4, <2>15, <2>16, <2>18, Zenon
  <2> QED
    BY <1>4, <2>8, <2>13, <2>17, <2>19, <2>20, PageGoes, Zenon
<1> QED
  BY <1>7, <1>8, Zenon

\* add_ssh_key and delete_ssh_key keep it.
LEMMA EditStep ==
  ASSUME PairInv,
         (\E u \in Account, k \in Key : add_ssh_key(u, k)) \/ (\E s \in keys : delete_ssh_key(s))
  PROVE  PairInv'
<1>1. UNCHANGED <<pairings, conn, page, made, swept>>
  BY Zenon DEF add_ssh_key, delete_ssh_key
<1>2. keys \subseteq [key : Key, user : Account] /\ KeysOK
  BY Zenon DEF PairInv, PairTypes
<1>3. keys' \subseteq [key : Key, user : Account] /\ KeysOK'
  <2>1. ASSUME NEW u \in Account, NEW k \in Key, add_ssh_key(u, k)
        PROVE  keys' \subseteq [key : Key, user : Account] /\ KeysOK'
    <3>1. PICK z : z = [key |-> k, user |-> u]
      BY Zenon
    <3>2. z \in [key : Key, user : Account] /\ z.key = k
      BY <3>1, SMT
    <3>3. keys' = keys \cup {z} /\ \A s \in keys : s.key # k
      BY <2>1, <3>1, Zenon DEF add_ssh_key, ssh_key_by_fingerprint
    <3> QED
      BY <1>2, <3>2, <3>3, ZenonT(60) DEF KeysOK
  <2>2. ASSUME NEW s \in keys, delete_ssh_key(s)
        PROVE  keys' \subseteq [key : Key, user : Account] /\ KeysOK'
    BY <1>2, <2>2, ZenonT(60) DEF delete_ssh_key, KeysOK
  <2> QED
    BY <2>1, <2>2, Zenon
<1>4. PairTypes' /\ PairsOK'
  BY <1>1, <1>3, Zenon DEF PairInv, PairTypes, PairsOK
<1>5. \A p \in Page : PageOK(p)'
  BY <1>1, Zenon DEF PairInv, PageOK, Kept
<1> QED
  BY <1>3, <1>4, <1>5, Zenon DEF PairInv

\* The invariant holds before anybody has connected.
LEMMA PairInit ==
  ASSUME PairingInit
  PROVE  PairInv
<1>1. /\ pairings = {} /\ keys = {} /\ made = 0
      /\ conn = [c \in Conn |-> IdleConn] /\ page = [p \in Page |-> IdlePage]
  BY Zenon DEF PairingInit
<1>2. made \in Nat /\ made <= MaxPairings /\ IdlePage.stage = "new"
  BY <1>1, PairingSizes, SMTT(60) DEF IdlePage
<1>3. PairTypes /\ PairsOK /\ KeysOK
  BY <1>1, <1>2, Zenon DEF PairTypes, PairsOK, KeysOK
<1>4. \A p \in Page : PageOK(p)
  BY <1>1, <1>2, Zenon DEF PageOK
<1> QED
  BY <1>3, <1>4, Zenon DEF PairInv

\* Every step of the pairing keeps the invariant.
LEMMA PairStep ==
  ASSUME PairInv, [PairingNext]_(pairingVars)
  PROVE  PairInv'
<1>1. CASE UNCHANGED pairingVars
  <2>1. UNCHANGED <<pairings, keys, conn, page, made, swept>>
    BY <1>1, Zenon DEF pairingVars
  <2> QED
    BY <2>1, Zenon DEF PairInv, PairTypes, PairsOK, KeysOK, PageOK, Kept
<1>2. ASSUME NEW c \in Conn, Connection(c) PROVE PairInv'
  BY <1>2, ConnStep, BeginStep, Zenon DEF Connection
<1>3. ASSUME NEW p \in Page, Confirmation(p) PROVE PairInv'
  BY <1>3, ShowStep, ConfirmStep, LinkStep, ZenonT(60) DEF Confirmation
<1> QED
  BY <1>1, <1>2, <1>3, ExpireStep, EditStep, Zenon DEF PairingNext

INSTANCE FiniteSetTheorems

\* A set whose members are all equal has at most one.
LEMMA AtMostOne ==
  ASSUME NEW S, \A x, y \in S : x = y
  PROVE  Cardinality(S) <= 1
<1>1. CASE S = {}
  BY <1>1, FS_EmptySet, SMTT(60)
<1>2. ASSUME NEW x \in S PROVE Cardinality(S) <= 1
  <2>1. S = {x}
    BY <1>2, SMTT(60)
  <2> QED
    BY <2>1, FS_Singleton, SMTT(60)
<1> QED
  BY <1>1, <1>2, SMTT(60)

\* The invariant gives what a confirmation promises.
LEMMA PairingSound ==
  ASSUME PairInv
  PROVE  LinkAttachesConfirmed
<1>1. \A r \in pairings : Cardinality(r.by) <= 1
  <2>1. ASSUME NEW r \in pairings PROVE \A x, y \in r.by : x = y
    BY Zenon DEF PairInv, PairsOK
  <2> QED
    BY <2>1, AtMostOne, Zenon
<1>2. \A k \in Key : Cardinality(ssh_key_by_fingerprint(k)) <= 1
  <2>1. ASSUME NEW k \in Key PROVE \A x, y \in ssh_key_by_fingerprint(k) : x = y
    BY ZenonT(60) DEF PairInv, KeysOK, ssh_key_by_fingerprint
  <2> QED
    BY <2>1, AtMostOne, ZenonT(60)
<1>3. ASSUME NEW p \in Page, page[p].stage = "linked"
      PROVE  \A s \in page[p].saw : page[p].got = {s.key} \/ s.made \in swept
  BY <1>3, Zenon DEF PairInv, PageOK
<1> QED
  BY <1>1, <1>2, <1>3, Zenon DEF LinkAttachesConfirmed

\* For any number of connections, pages, expiries and sweeps: link_pairing
\* claims a row at most once, a fingerprint belongs to at most one account,
\* and a page that says linked linked the key that it displayed, unless the
\* pairing expired and was swept between resolve_link's last look and the
\* claim.
THEOREM LinksWhatWasShown == PairingSpec => []LinkAttachesConfirmed
<1>1. PairingInit => PairInv
  BY PairInit, Zenon
<1>2. PairInv /\ [PairingNext]_(pairingVars) => PairInv'
  BY PairStep, Zenon
<1>3. PairInv => LinkAttachesConfirmed
  BY PairingSound, Zenon
<1> QED
  BY <1>1, <1>2, <1>3, PTL DEF PairingSpec

\* The pairing rows, keys, connections and confirmations have their types
\* throughout, and no two live rows share an id (store/src/pairings.rs).
THEOREM PairingTyped == PairingSpec => []PairingTypeOK
<1>1. PairingInit => PairInv
  BY PairInit, Zenon
<1>2. PairInv /\ [PairingNext]_(pairingVars) => PairInv'
  BY PairStep, Zenon
<1>3. PairInv => PairingTypeOK
  <2>1. SUFFICES ASSUME PairInv PROVE PairingTypeOK
    BY Zenon
  <2>2. pairings \subseteq PairingRow
    <3>1. ASSUME NEW r \in pairings PROVE r \in PairingRow
      <4>1. r \in PairRec /\ made \in Nat /\ made <= MaxPairings /\ r.id <= made /\ r.made <= made
        BY <2>1, ZenonT(60) DEF PairInv, PairTypes, PairsOK
      <4> QED
        BY <4>1, PairingSizes, SMTT(60) DEF PairRec, PairingRow
    <3> QED
      BY <3>1, Zenon
  <2>3. \A r, s \in pairings : r # s => r.id # s.id
    BY <2>1, ZenonT(60) DEF PairInv, PairsOK
  <2>4. \A c \in Conn : conn[c].stage \in {"new", "offer", "user", "wait", "linked", "expired",
                                            "cancelled", "failed"}
    <3>1. \A c \in Conn : conn[c] \in {IdleConn} \cup ConnRec
      BY <2>1, Zenon DEF PairInv, PairTypes
    <3> QED
      BY <3>1, SMTT(60) DEF IdleConn, ConnRec
  <2>5. \A p \in Page : page[p].stage \in {"new", "shown", "linking", "dead", "linked", "refused"}
    <3>1. \A p \in Page : page[p] \in {IdlePage} \cup PageRec
      BY <2>1, Zenon DEF PairInv, PairTypes
    <3> QED
      BY <3>1, SMTT(60) DEF IdlePage, PageRec
  <2> QED
    BY <2>1, <2>2, <2>3, <2>4, <2>5, Zenon DEF PairInv, PairTypes, PairingTypeOK
<1> QED
  BY <1>1, <1>2, <1>3, PTL DEF PairingSpec
=============================================================================
