--------------------------- MODULE RequestsProofs ---------------------------
(***************************************************************************)
(* What the three surfaces of the control plane promise for any users,     *)
(* instances, ports and requests in flight: one policy, shares only of     *)
(* live instances, and a packet filter that is the one the rows call for.  *)
(* And what that filter lets through, for any users, slots and machines.   *)
(*                                                                         *)
(* A handler decides on its plan from one reading of the rows, so by the   *)
(* time a call of the plan runs the rows may have changed under it.        *)
(* ReqInv is the inductive invariant that bridges the two: the uuid a      *)
(* request has drawn is nobody else's, a row never changes its owner while *)
(* it lives, and so whoever a plan was decided for is still entitled to    *)
(* it.  FwInv says what each process's Firewall holds between its reloads. *)
(***************************************************************************)
EXTENDS Requests, FirewallPolicy, TLAPS

\* The calls of a plan, as a set.
ToSet(s) == {s[i] : i \in DOMAIN s}

\* The calls a plan may contain, the records of a request in flight, and the
\* tables.
Eff ==
  [op : {"create", "remove", "start", "stop", "restart", "rename", "resize"}, val : {NoValue}]
    \cup [op : {"copy"}, val : Uuid] \cup [op : {"port"}, val : Port]
    \cup [op : {"visibility"}, val : Visibility] \cup [op : {"share", "unshare"}, val : User]

ReqRec == [stage : {"run", "reload", "applying"}, user : User, surface : {"cli", "api", "page"},
           uuid : Uuid, plan : Seq(Eff)]

ReqTypes ==
  /\ rows \in [Uuid -> Row] /\ shares \subseteq Uuid \X User
  /\ req \in [Slot -> {IdleReq} \cup ReqRec]

\* The uuid that a request has drawn and not yet used, and the ones it is about.
Makes(q, u) ==
  /\ q.stage # "idle"
  /\ \E i \in DOMAIN q.plan : \/ q.plan[i].op = "create" /\ q.uuid = u
                              \/ q.plan[i].op = "copy" /\ q.plan[i].val = u

\* A request touches the uuid it is about and the ones it draws.
Touches(q, u) == q.stage # "idle" /\ (q.uuid = u \/ Makes(q, u))

\* A request in flight: what it creates or copies it makes first, nobody
\* shares with themselves, and a call that only the owner has is made for the
\* owner of the row, if the row is still there.
Allowed(q) ==
  q.stage # "idle" =>
    \A i \in DOMAIN q.plan :
      /\ q.plan[i].op \in {"create", "copy"} => i = 1
      /\ q.plan[i].op = "share" => q.plan[i].val # q.user
      /\ (q.plan[i].op \in OwnerOps \/ q.surface # "cli") /\ rows[q.uuid].live => rows[q.uuid].owner = {q.user}

\* Whoever a request on a live instance is for owns it, has a share of it, or
\* lost the share while the request was under way.
Held(r) ==
  LET q == req[r] IN
  q.stage # "idle" /\ rows[q.uuid].live =>
    rows[q.uuid].owner = {q.user} \/ <<q.uuid, q.user>> \in shares \/ r \in revoked

\* Uuids: a live row's was drawn, and so were those of every request; one
\* that is drawn and not yet used has no row, and no other request knows it.
DrawnOK ==
  /\ \A u \in Uuid : rows[u].live => rows[u].used
  /\ \A r \in Slot, u \in Uuid : Touches(req[r], u) => rows[u].used
  /\ \A r \in Slot, u \in Uuid : Makes(req[r], u) => ~rows[u].live
  /\ \A r, s \in Slot, u \in Uuid : r # s /\ Makes(req[r], u) => ~Touches(req[s], u)

\* The inductive invariant of the requests.
ReqInv ==
  /\ ReqTypes /\ DrawnOK /\ SharesOfLiveInstances
  /\ \A r \in Slot : Allowed(req[r]) /\ Held(r)

-----------------------------------------------------------------------------
(* Plans. *)

\* The plan of one call.
LEMMA OneCall ==
  ASSUME NEW S, NEW e \in S
  PROVE  <<e>> \in Seq(S) /\ DOMAIN <<e>> = {1} /\ <<e>>[1] = e /\ ToSet(<<e>>) = {e}
  BY SMT DEF ToSet

\* The empty plan.
LEMMA NoCall ==
  \A S : <<>> \in Seq(S) /\ DOMAIN <<>> = {} /\ ToSet(<<>>) = {}
  BY SMT DEF ToSet

\* A plan followed by another has the calls of both.
LEMMA BothPlans ==
  ASSUME NEW S, NEW s \in Seq(S), NEW t \in Seq(S)
  PROVE  s \o t \in Seq(S) /\ ToSet(s \o t) = ToSet(s) \cup ToSet(t)
<1>1. s \o t \in Seq(S)
  BY SMT
<1>2. ASSUME NEW e \in ToSet(s \o t) PROVE e \in ToSet(s) \cup ToSet(t)
  BY SMT DEF ToSet
<1>3. ASSUME NEW i \in DOMAIN s PROVE s[i] \in ToSet(s \o t)
  BY SMT DEF ToSet
<1>4. ASSUME NEW i \in DOMAIN t PROVE t[i] \in ToSet(s \o t)
  <2>1. Len(s) + i \in DOMAIN (s \o t) /\ (s \o t)[Len(s) + i] = t[i]
    BY SMT
  <2> QED
    BY <2>1, SMT DEF ToSet
<1> QED
  BY <1>1, <1>2, <1>3, <1>4, Zenon DEF ToSet

\* What a user may do to an instance, by the rows as the handler read them:
\* anything with access, and the owner's operations, and everything outside
\* the command line, as the owner.
Entitled(surface, a, u, e) ==
  has_access(a, u) /\ (e.op \in OwnerOps \/ surface # "cli" => rows[u].owner = {a})

\* A plan that the handler of this surface may decide on.
Fine(surface, a, u, plan) ==
  /\ plan \in Seq(Eff)
  /\ \A i \in DOMAIN plan : plan[i].op \in {"create", "copy"} => i = 1
  /\ has_access(a, u) \/ (u \in Unused /\ \E i \in DOMAIN plan : plan[i].op = "create")
  /\ \A e \in ToSet(plan) : /\ e.op = "create" => u \in Unused
                            /\ e.op = "copy" => e.val \in Unused
                            /\ e.op = "share" => e.val # a
                            /\ u \in Unused \/ Entitled(surface, a, u, e)

\* The calls of the handlers: the owner's, and the others.
OwnerCall(a, op, val) ==
  \/ op \in {"remove", "rename", "resize"} /\ val = NoValue
  \/ op = "port" /\ val \in Port
  \/ op = "visibility" /\ val \in Visibility
  \/ op = "share" /\ val \in User \ {a}
  \/ op = "unshare" /\ val \in User

\* The calls of the handlers, with what each handler has checked by then.
Call(surface, a, u, op, val) ==
  \/ op = "create" /\ val = NoValue /\ u \in Unused
  \/ OwnerCall(a, op, val) /\ IsOwner(a, u)
  \/ op \in {"start", "stop", "restart"} /\ val = NoValue /\ IsOwner(a, u)
  \/ op \in {"start", "stop", "restart"} /\ val = NoValue /\ has_access(a, u) /\ surface = "cli"
  \/ op = "copy" /\ val \in Unused /\ has_access(a, u) /\ surface = "cli"

\* The owner's calls are calls of a plan,
LEMMA OwnerCallEff ==
  ASSUME NEW a, NEW op, NEW val, OwnerCall(a, op, val)
  PROVE  E(op, val) \in Eff /\ op \notin {"create", "copy"} /\ (op = "share" => val # a)
<1>1. op \notin {"create", "copy"} /\ (op = "share" => val # a)
  BY Zenon DEF OwnerCall
<1>2. E(op, val) \in Eff
  BY SMT DEF OwnerCall, E, Eff
<1> QED
  BY <1>1, <1>2, Zenon

\* and so are the others.
LEMMA PlainCallEff ==
  /\ \A op \in {"create", "start", "stop", "restart"} : E(op, NoValue) \in Eff
  /\ \A val \in Unused : E("copy", val) \in Eff
  /\ \A op \in {"create", "copy", "start", "stop", "restart"} : op \notin OwnerOps
<1>1. \A op \in {"create", "start", "stop", "restart"} : E(op, NoValue) \in Eff
  BY SMT DEF E, Eff
<1>2. \A val \in Unused : E("copy", val) \in Eff
  BY SMT DEF E, Eff, Unused
<1>3. \A op \in {"create", "copy", "start", "stop", "restart"} : op \notin OwnerOps
  BY Zenon DEF OwnerOps
<1> QED
  BY <1>1, <1>2, <1>3, Zenon

\* A handler that makes one call makes one it may.
LEMMA CallFine ==
  ASSUME NEW surface, NEW a, NEW u, NEW op, NEW val, Call(surface, a, u, op, val)
  PROVE  Fine(surface, a, u, <<E(op, val)>>)
<1>1. PICK e : e = E(op, val)
  OBVIOUS
<1>a. e.op = op /\ e.val = val
  BY <1>1, SMT DEF E
<1>2. IsOwner(a, u) => has_access(a, u) /\ rows[u].owner = {a}
  BY Zenon DEF IsOwner, has_access
<1>3. CASE OwnerCall(a, op, val) /\ IsOwner(a, u)
  <2>1. e \in Eff /\ op \notin {"create", "copy"} /\ (op = "share" => val # a)
    BY <1>1, <1>3, OwnerCallEff, Zenon
  <2>2. Entitled(surface, a, u, e)
    BY <1>2, <1>3, Zenon DEF Entitled
  <2>3. <<e>> \in Seq(Eff) /\ DOMAIN <<e>> = {1} /\ <<e>>[1] = e /\ ToSet(<<e>>) = {e}
    BY <2>1, OneCall, Zenon
  <2> QED
    BY <1>1, <1>a, <1>2, <1>3, <2>1, <2>2, <2>3, Zenon DEF Fine
<1>4. CASE ~(OwnerCall(a, op, val) /\ IsOwner(a, u))
  <2>1. e \in Eff /\ op \notin OwnerOps
    BY <1>1, <1>4, PlainCallEff, Zenon DEF Call
  <2>2. u \in Unused \/ Entitled(surface, a, u, e)
    BY <1>a, <1>2, <1>4, <2>1, Zenon DEF Entitled, Call
  <2>3. <<e>> \in Seq(Eff) /\ DOMAIN <<e>> = {1} /\ <<e>>[1] = e /\ ToSet(<<e>>) = {e}
    BY <2>1, OneCall, Zenon
  <2>4. op # "share" /\ (op = "create" => u \in Unused) /\ (op = "copy" => val \in Unused)
    BY <1>4, Zenon DEF Call
  <2>5. has_access(a, u) \/ (u \in Unused /\ op = "create")
    BY <1>2, <1>4, Zenon DEF Call
  <2> QED
    BY <1>1, <1>a, <2>1, <2>2, <2>3, <2>4, <2>5, Zenon DEF Fine
<1> QED
  BY <1>3, <1>4, Zenon

\* A handler that refuses does nothing it may not.
LEMMA NothingFine ==
  \A surface, a, u : has_access(a, u) => Fine(surface, a, u, <<>>)
  BY NoCall, Zenon DEF Fine

\* Every command of the command line is one call, or none
\* (cli/src/instance.rs).
LEMMA CliShape ==
  ASSUME NEW a \in User, NEW u \in Uuid, NEW plan \in CliPlans(a, u)
  PROVE  \/ has_access(a, u) /\ plan = <<>>
         \/ \E op, val : Call("cli", a, u, op, val) /\ plan = <<E(op, val)>>
<1>1. resolve_owned(a, u) => IsOwner(a, u)
  BY Zenon DEF resolve_owned, resolve, has_access, IsOwner
<1>2. CASE plan \in new_command(a, u)
  <2>1. u \in Unused /\ plan = <<E("create", NoValue)>>
    BY <1>2, Zenon DEF new_command, Given
  <2> QED
    BY <2>1, Zenon DEF Call
<1>3. CASE plan \in rm(a, u) \cup rename(a, u) \cup resize(a, u)
  <2>1. IsOwner(a, u) /\ \E op \in {"remove", "rename", "resize"} : plan = <<E(op, NoValue)>>
    BY <1>1, <1>3, Zenon DEF rm, rename, resize, Given
  <2> QED
    BY <2>1, Zenon DEF Call, OwnerCall
<1>4. CASE plan \in start(a, u) \cup stop(a, u) \cup restart(a, u)
  <2>1. /\ has_access(a, u)
        /\ plan = <<>> \/ \E op \in {"start", "stop", "restart"} : plan = <<E(op, NoValue)>>
    BY <1>4, Zenon DEF start, stop, restart, Given, resolve
  <2> QED
    BY <2>1, Zenon DEF Call
<1>5. CASE plan \in copy(a, u)
  <2>1. has_access(a, u) /\ \E v \in Unused : plan = <<E("copy", v)>>
    BY <1>5, Zenon DEF copy, Given, resolve
  <2> QED
    BY <2>1, Zenon DEF Call
<1>6. CASE plan \in port(a, u) \cup visibility(a, u)
  <2>1. /\ IsOwner(a, u)
        /\ \/ \E p \in Port : plan = <<E("port", p)>>
           \/ \E v \in Visibility : plan = <<E("visibility", v)>>
    BY <1>1, <1>6, Zenon DEF port, visibility, Given
  <2> QED
    BY <2>1, Zenon DEF Call, OwnerCall
<1>7. CASE plan \in share(a, u)
  <2>1. /\ IsOwner(a, u)
        /\ \/ \E b \in User \ {a} : plan = <<E("share", b)>>
           \/ \E b \in User : plan = <<E("unshare", b)>>
    BY <1>1, <1>7, Zenon DEF share, Given
  <2> QED
    BY <2>1, Zenon DEF Call, OwnerCall
<1> QED
  BY <1>2, <1>3, <1>4, <1>5, <1>6, <1>7, Zenon DEF CliPlans

\* So is every request of the API (api/src/instances.rs).
LEMMA ApiShape ==
  ASSUME NEW a \in User, NEW u \in Uuid, NEW plan \in ApiPlans(a, u)
  PROVE  \E op, val : Call("api", a, u, op, val) /\ plan = <<E(op, val)>>
<1>1. owned_instance(a, u) => IsOwner(a, u)
  BY Zenon DEF owned_instance, IsOwner
<1>2. CASE plan \in create_instance(a, u)
  <2>1. u \in Unused /\ plan = <<E("create", NoValue)>>
    BY <1>2, Zenon DEF create_instance, Given
  <2> QED
    BY <2>1, Zenon DEF Call
<1>3. CASE plan \in delete_instance(a, u) \cup rename_instance(a, u) \cup resize_instance(a, u)
  <2>1. IsOwner(a, u) /\ \E op \in {"remove", "rename", "resize"} : plan = <<E(op, NoValue)>>
    BY <1>1, <1>3, Zenon DEF delete_instance, rename_instance, resize_instance, Given
  <2> QED
    BY <2>1, Zenon DEF Call, OwnerCall
<1>4. CASE plan \in lifecycle_action(a, u)
  <2>1. IsOwner(a, u) /\ \E op \in {"start", "stop", "restart"} : plan = <<E(op, NoValue)>>
    BY <1>1, <1>4, Zenon DEF lifecycle_action, Given
  <2> QED
    BY <2>1, Zenon DEF Call
<1>5. CASE plan \in set_port(a, u) \cup set_visibility(a, u)
  <2>1. /\ IsOwner(a, u)
        /\ \/ \E p \in Port : plan = <<E("port", p)>>
           \/ \E v \in Visibility : plan = <<E("visibility", v)>>
    BY <1>1, <1>5, Zenon DEF set_port, set_visibility, Given
  <2> QED
    BY <2>1, Zenon DEF Call, OwnerCall
<1>6. CASE plan \in api_add_share(a, u) \cup api_remove_share(a, u)
  <2>1. /\ IsOwner(a, u)
        /\ \/ \E b \in User \ {a} : plan = <<E("share", b)>>
           \/ \E b \in User : plan = <<E("unshare", b)>>
    BY <1>1, <1>6, Zenon DEF api_add_share, api_remove_share, Given
  <2> QED
    BY <2>1, Zenon DEF Call, OwnerCall
<1> QED
  BY <1>2, <1>3, <1>4, <1>5, <1>6, Zenon DEF ApiPlans

\* What the settings form may plan.
SettingCalls ==
  {E("resize", NoValue), E("rename", NoValue)} \cup {E("port", p) : p \in Port}
    \cup {E("visibility", v) : v \in Visibility}

\* A part of save_settings: the call, if the form asks for it.
LEMMA SettingPart ==
  ASSUME NEW c \in BOOLEAN, NEW e \in SettingCalls
  PROVE  /\ (IF c THEN <<e>> ELSE <<>>) \in Seq(SettingCalls)
         /\ ToSet(IF c THEN <<e>> ELSE <<>>) = IF c THEN {e} ELSE {}
<1>1. CASE c
  BY <1>1, OneCall, Zenon
<1>2. CASE ~c
  BY <1>2, NoCall, Zenon
<1> QED
  BY <1>1, <1>2, Zenon

\* What save_settings may call: port, visibility, shares, resize and rename.
LEMMA SettingShape ==
  ASSUME NEW u \in Uuid, rows[u] \in Row, NEW form \in SettingsForm
  PROVE  /\ SettingsPlan(u, form) \in Seq(SettingCalls)
         /\ ToSet(SettingsPlan(u, form)) =
              (IF form.resized THEN {E("resize", NoValue)} ELSE {})
                \cup (IF form.port # rows[u].port THEN {E("port", form.port)} ELSE {})
                \cup (IF SwitchedTo(rows[u].visibility, form.public) # rows[u].visibility
                      THEN {E("visibility", SwitchedTo(rows[u].visibility, form.public))} ELSE {})
                \cup (IF form.named THEN {E("rename", NoValue)} ELSE {})
<1>0. PICK p \in Port, public \in BOOLEAN, resized \in BOOLEAN, named \in BOOLEAN :
        p = form.port /\ public = form.public /\ resized = form.resized /\ named = form.named
  <2>1. form.port \in Port /\ form.public \in BOOLEAN /\ form.resized \in BOOLEAN /\ form.named \in BOOLEAN
    BY Zenon DEF SettingsForm
  <2> QED
    BY <2>1, Zenon
<1>1. PICK v \in Visibility : v = SwitchedTo(rows[u].visibility, public)
  BY SMT DEF SwitchedTo, Row, Visibility
<1>2. PICK moved \in BOOLEAN : moved <=> p # rows[u].port
  BY Zenon
<1>3. PICK flipped \in BOOLEAN : flipped <=> v # rows[u].visibility
  BY Zenon
<1>a. PICK e1 : e1 = E("resize", NoValue)
  OBVIOUS
<1>b. PICK e2 : e2 = E("port", p)
  OBVIOUS
<1>c. PICK e3 : e3 = E("visibility", v)
  OBVIOUS
<1>d. PICK e4 : e4 = E("rename", NoValue)
  OBVIOUS
<1>4. /\ e1 = E("resize", NoValue) /\ e2 = E("port", p)
      /\ e3 = E("visibility", v) /\ e4 = E("rename", NoValue)
  BY <1>a, <1>b, <1>c, <1>d
<1>5. e1 \in SettingCalls /\ e2 \in SettingCalls /\ e3 \in SettingCalls /\ e4 \in SettingCalls
  BY <1>4, Zenon DEF SettingCalls
<1>6. PICK s1, s2, s3, s4 :
        /\ s1 = (IF resized THEN <<e1>> ELSE <<>>) /\ s2 = (IF moved THEN <<e2>> ELSE <<>>)
        /\ s3 = (IF flipped THEN <<e3>> ELSE <<>>) /\ s4 = (IF named THEN <<e4>> ELSE <<>>)
  BY Zenon
<1>7. /\ s1 \in Seq(SettingCalls) /\ ToSet(s1) = IF resized THEN {e1} ELSE {}
      /\ s2 \in Seq(SettingCalls) /\ ToSet(s2) = IF moved THEN {e2} ELSE {}
      /\ s3 \in Seq(SettingCalls) /\ ToSet(s3) = IF flipped THEN {e3} ELSE {}
      /\ s4 \in Seq(SettingCalls) /\ ToSet(s4) = IF named THEN {e4} ELSE {}
  BY <1>5, <1>6, SettingPart, Zenon
<1>e. s1 \in Seq(SettingCalls) /\ s2 \in Seq(SettingCalls) /\ s3 \in Seq(SettingCalls) /\ s4 \in Seq(SettingCalls)
  BY <1>7
<1>8. PICK t2 : t2 = s1 \o s2
  BY Zenon
<1>9. t2 \in Seq(SettingCalls) /\ ToSet(t2) = ToSet(s1) \cup ToSet(s2)
  BY <1>e, <1>8, BothPlans
<1>f. PICK t3 : t3 = t2 \o s3
  BY Zenon
<1>g. t3 \in Seq(SettingCalls) /\ ToSet(t3) = ToSet(t2) \cup ToSet(s3)
  BY <1>e, <1>9, <1>f, BothPlans
<1>h. PICK t4 : t4 = t3 \o s4
  BY Zenon
<1>10. t4 \in Seq(SettingCalls) /\ ToSet(t4) = ToSet(t3) \cup ToSet(s4)
  BY <1>e, <1>g, <1>h, BothPlans
<1>11. SettingsPlan(u, form) = t4
  BY <1>0, <1>1, <1>2, <1>3, <1>4, <1>6, <1>8, <1>f, <1>h, Zenon DEF SettingsPlan
<1>12. ToSet(SettingsPlan(u, form)) =
         (IF resized THEN {e1} ELSE {}) \cup (IF moved THEN {e2} ELSE {})
           \cup (IF flipped THEN {e3} ELSE {}) \cup (IF named THEN {e4} ELSE {})
  BY <1>7, <1>9, <1>g, <1>10, <1>11, Zenon
<1> QED
  BY <1>0, <1>1, <1>2, <1>3, <1>4, <1>10, <1>11, <1>12, Zenon

\* The settings form is the owner's.
LEMMA SettingFine ==
  ASSUME NEW a \in User, NEW u \in Uuid, IsOwner(a, u), NEW plan \in Seq(SettingCalls)
  PROVE  Fine("page", a, u, plan)
<1>1. \A e \in SettingCalls : e \in Eff /\ e.op \notin {"create", "copy", "share"}
  BY SMT DEF SettingCalls, Eff, E
<1>2. plan \in Seq(Eff)
  BY <1>1, SMT
<1>3. \A i \in DOMAIN plan : plan[i] \in SettingCalls
  BY SMT
<1>4. \A e \in ToSet(plan) : e \in SettingCalls
  BY <1>3, Zenon DEF ToSet
<1>5. has_access(a, u) /\ \A e : Entitled("page", a, u, e)
  BY Zenon DEF Entitled, IsOwner, has_access
<1> QED
  BY <1>1, <1>2, <1>3, <1>4, <1>5, Zenon DEF Fine

\* The page that creates an instance and publishes it makes the instance
\* first.
LEMMA PublishFine ==
  ASSUME NEW a \in User, NEW u \in Unused
  PROVE  Fine("page", a, u, <<E("create", NoValue), E("visibility", "public")>>)
<1>1. PICK c : c = E("create", NoValue)
  OBVIOUS
<1>2. PICK v : v = E("visibility", "public")
  OBVIOUS
<1>3. c \in Eff /\ c.op = "create" /\ v \in Eff /\ v.op = "visibility"
  BY <1>1, <1>2, SMT DEF Eff, E, Visibility
<1>4. PICK plan : plan = <<c, v>>
  BY Zenon
<1>5. plan \in Seq(Eff) /\ DOMAIN plan = {1, 2} /\ plan[1] = c /\ plan[2] = v
  BY <1>3, <1>4, SMT
<1>6. ToSet(plan) = {c, v}
  BY <1>5, Zenon DEF ToSet
<1>7. Fine("page", a, u, plan)
  BY <1>3, <1>5, <1>6, Zenon DEF Fine
<1> QED
  BY <1>1, <1>2, <1>4, <1>7, Zenon

\* Whatever a handler of any surface decides on, the user behind it may do.
LEMMA PlansFine ==
  ASSUME ReqTypes, NEW a \in User, NEW u \in Uuid, NEW surface \in {"cli", "api", "page"},
         NEW plan \in Plans(surface, a, u)
  PROVE  Fine(surface, a, u, plan)
<1>1. CASE surface = "cli"
  <2>1. plan \in CliPlans(a, u)
    BY <1>1, Zenon DEF Plans
  <2>2. CASE has_access(a, u) /\ plan = <<>>
    BY <2>2, NothingFine, Zenon
  <2>3. ASSUME NEW op, NEW val, Call("cli", a, u, op, val), plan = <<E(op, val)>>
        PROVE  Fine(surface, a, u, plan)
    BY <1>1, <2>3, CallFine, Zenon
  <2>4. \/ has_access(a, u) /\ plan = <<>>
        \/ \E op, val : Call("cli", a, u, op, val) /\ plan = <<E(op, val)>>
    BY <2>1, CliShape, Zenon
  <2> QED
    BY <2>2, <2>3, <2>4, Zenon
<1>2. CASE surface = "api"
  <2>1. plan \in ApiPlans(a, u)
    BY <1>2, Zenon DEF Plans
  <2>2. PICK op, val : Call("api", a, u, op, val) /\ plan = <<E(op, val)>>
    BY <2>1, ApiShape, Zenon
  <2> QED
    BY <1>2, <2>2, CallFine, Zenon
<1>3. CASE surface = "page"
  <2>1. plan \in PagePlans(a, u)
    BY <1>3, Zenon DEF Plans
  <2>2. owned(a, u) => IsOwner(a, u)
    BY Zenon DEF owned, can_read_instance, IsOwner
  <2>3. CASE plan \in page_create(a, u)
    <3>1. u \in Unused
      BY <2>3, Zenon DEF page_create, Given
    <3>2. CASE plan = <<E("create", NoValue)>>
      <4>1. Call("page", a, u, "create", NoValue)
        BY <3>1, Zenon DEF Call
      <4> QED
        BY <1>3, <3>2, <4>1, CallFine, Zenon
    <3>3. CASE plan = <<E("create", NoValue), E("visibility", "public")>>
      BY <1>3, <3>1, <3>3, PublishFine, Zenon
    <3> QED
      BY <2>3, <3>1, <3>2, <3>3, Zenon DEF page_create, Given
  <2>4. CASE plan \in save_settings(a, u)
    <3>1. IsOwner(a, u)
      BY <2>2, <2>4, Zenon DEF save_settings, Given
    <3>4. PICK form \in SettingsForm : plan = SettingsPlan(u, form)
      BY <2>4, Zenon DEF save_settings, Given
    <3>2. rows[u] \in Row
      BY Zenon DEF ReqTypes
    <3>3. plan \in Seq(SettingCalls)
      BY <3>2, <3>4, SettingShape, Zenon
    <3> QED
      BY <1>3, <3>1, <3>3, SettingFine, Zenon
  <2>5. CASE plan \in page_add_share(a, u) \cup page_remove_share(a, u)
    <3>1. /\ IsOwner(a, u)
          /\ \/ \E b \in User \ {a} : plan = <<E("share", b)>>
             \/ \E b \in User : plan = <<E("unshare", b)>>
      BY <2>2, <2>5, Zenon DEF page_add_share, page_remove_share, Given
    <3>2. \E op, val : Call("page", a, u, op, val) /\ plan = <<E(op, val)>>
      BY <3>1, Zenon DEF Call, OwnerCall
    <3> QED
      BY <1>3, <3>2, CallFine, Zenon
  <2>6. CASE plan \in action(a, u) \cup delete(a, u)
    <3>1. IsOwner(a, u) /\ \E op \in {"start", "stop", "restart", "remove"} : plan = <<E(op, NoValue)>>
      BY <2>2, <2>6, Zenon DEF action, delete, Given
    <3>2. \E op, val : Call("page", a, u, op, val) /\ plan = <<E(op, val)>>
      BY <3>1, Zenon DEF Call, OwnerCall
    <3> QED
      BY <1>3, <3>2, CallFine, Zenon
  <2> QED
    BY <2>1, <2>3, <2>4, <2>5, <2>6, Zenon DEF PagePlans
<1> QED
  BY <1>1, <1>2, <1>3, Zenon

-----------------------------------------------------------------------------
(* A new request. *)

\* Marking a uuid as drawn leaves the rest of its row alone.
LEMMA DrawnRow ==
  ASSUME NEW w \in Row, NEW b \in BOOLEAN
  PROVE  /\ [w EXCEPT !.used = b] \in Row
         /\ [w EXCEPT !.used = b].live = w.live /\ [w EXCEPT !.used = b].owner = w.owner
         /\ [w EXCEPT !.used = b].used = b
         /\ [w EXCEPT !.used = b].visibility = w.visibility /\ [w EXCEPT !.used = b].port = w.port
<1>1. [w EXCEPT !.used = b] \in Row
  BY Zenon DEF Row
<1> QED
  BY <1>1, SMT DEF Row

\* The uuids that a plan draws.
Fresh(u, plan) ==
  {u : i \in {j \in DOMAIN plan : plan[j].op = "create"}}
    \cup {plan[i].val : i \in {j \in DOMAIN plan : plan[j].op = "copy"}}

\* A new request marks the uuids it draws as used, and leaves every row
\* otherwise as it was.
LEMMA AskRows ==
  ASSUME ReqTypes, NEW F,
         rows' = [x \in Uuid |-> [rows[x] EXCEPT !.used = @ \/ x \in F]]
  PROVE  /\ rows' \in [Uuid -> Row]
         /\ \A x \in Uuid : /\ rows'[x].live = rows[x].live /\ rows'[x].owner = rows[x].owner
                            /\ rows'[x].visibility = rows[x].visibility /\ rows'[x].port = rows[x].port
                            /\ rows[x].used \/ x \in F => rows'[x].used
<1>1. ASSUME NEW x \in Uuid
      PROVE  /\ rows'[x] \in Row
             /\ rows'[x].live = rows[x].live /\ rows'[x].owner = rows[x].owner
             /\ rows'[x].visibility = rows[x].visibility /\ rows'[x].port = rows[x].port
             /\ rows[x].used \/ x \in F => rows'[x].used
  <2>1. rows[x] \in Row
    BY Zenon DEF ReqTypes
  <2>2. PICK b \in BOOLEAN : b = (rows[x].used \/ x \in F)
    BY Zenon
  <2>3. rows'[x] = [rows[x] EXCEPT !.used = b]
    BY <2>2, Zenon
  <2> QED
    BY <2>1, <2>2, <2>3, DrawnRow, ZenonT(60)
<1>2. rows' \in [Uuid -> Row]
  BY <1>1, Zenon
<1> QED
  BY <1>1, <1>2, Zenon

\* A request in flight names a user, a surface, a uuid and a plan.
LEMMA ReqFields ==
  ASSUME ReqTypes, NEW r \in Slot
  PROVE  /\ req[r].stage # "idle" => req[r] \in ReqRec
         /\ req[r].plan \in Seq(Eff)
         /\ req[r].stage = "idle" => req[r].plan = <<>>
<1>1. req[r] = IdleReq \/ req[r] \in ReqRec
  BY Zenon DEF ReqTypes
<1>2. CASE req[r] = IdleReq
  BY <1>2, SMT DEF IdleReq
<1>3. CASE req[r] \in ReqRec
  BY <1>3, SMT DEF ReqRec
<1> QED
  BY <1>1, <1>2, <1>3, Zenon

\* A new request keeps the invariant: what it is about is either live and its
\* user entitled, or drawn by it and by nobody else.
LEMMA AskStep ==
  ASSUME ReqInv, NEW r \in Slot, NEW surface \in {"cli", "api", "page"}, NEW a \in User, NEW u \in Uuid,
         Ask(r, surface, a, u)
  PROVE  ReqInv'
<1>1. PICK plan \in Plans(surface, a, u) :
        /\ req' = [req EXCEPT ![r] = [stage |-> "run", user |-> a, surface |-> surface,
                                      uuid |-> u, plan |-> plan]]
        /\ rows' = [x \in Uuid |-> [rows[x] EXCEPT !.used = @ \/ x \in Fresh(u, plan)]]
  BY Zenon DEF Ask, Fresh
<1>2. ReqTypes /\ DrawnOK /\ SharesOfLiveInstances /\ \A s \in Slot : Allowed(req[s])
  BY Zenon DEF ReqInv
<1>3. Fine(surface, a, u, plan)
  BY <1>1, <1>2, PlansFine, Zenon
<1>4. /\ rows' \in [Uuid -> Row]
      /\ \A x \in Uuid : /\ rows'[x].live = rows[x].live /\ rows'[x].owner = rows[x].owner
                         /\ rows[x].used \/ x \in Fresh(u, plan) => rows'[x].used
  BY <1>1, <1>2, AskRows, Zenon
<1>5. PICK q : q = [stage |-> "run", user |-> a, surface |-> surface, uuid |-> u, plan |-> plan]
  BY Zenon
<1>6. q \in ReqRec
  BY <1>3, <1>5, Zenon DEF ReqRec, Fine
<1>7. q.stage = "run" /\ q.user = a /\ q.surface = surface /\ q.uuid = u /\ q.plan = plan
  BY <1>5, SMT
<1>8. /\ req' \in [Slot -> {IdleReq} \cup ReqRec]
      /\ req'[r] = q /\ \A s \in Slot : s # r => req'[s] = req[s]
  <2>1. req' = [req EXCEPT ![r] = q]
    BY <1>1, <1>5, Zenon
  <2> QED
    BY <1>2, <1>6, <2>1, Zenon DEF ReqTypes
<1>9. shares' = shares
  BY Zenon DEF Ask
<1>10. ReqTypes'
  BY <1>2, <1>4, <1>8, <1>9, Zenon DEF ReqTypes
<1>11. SharesOfLiveInstances'
  <2>1. ASSUME NEW s \in shares PROVE rows'[s[1]].live /\ rows'[s[1]].owner # {s[2]}
    <3>1. s[1] \in Uuid
      BY <1>2, SMT DEF ReqTypes
    <3> QED
      BY <1>2, <1>4, <3>1, Zenon DEF SharesOfLiveInstances, SharesOfLiveInstances
  <2> QED
    BY <1>9, <2>1, Zenon DEF SharesOfLiveInstances, SharesOfLiveInstances
<1>12. \A x \in Uuid : x \in Unused => ~rows[x].live /\ \A s \in Slot : ~Touches(req[s], x)
  BY <1>2, Zenon DEF Unused, DrawnOK
<1>13. \A e \in Eff : e.op = "copy" => e.val \in Uuid
  BY SMT DEF Eff
<1>14. \A i \in DOMAIN plan : plan[i] \in Eff /\ plan[i] \in ToSet(plan)
  <2>1. plan \in Seq(Eff)
    BY <1>3, Zenon DEF Fine
  <2> QED
    BY <2>1, SMT DEF ToSet
<1>20. ASSUME NEW i \in DOMAIN plan
       PROVE  /\ plan[i].op = "create" => u \in Unused
              /\ plan[i].op = "copy" => plan[i].val \in Unused
              /\ plan[i].op = "share" => plan[i].val # a
              /\ u \in Unused \/ Entitled(surface, a, u, plan[i])
  <2>1. \A e \in ToSet(plan) : /\ e.op = "create" => u \in Unused
                               /\ e.op = "copy" => e.val \in Unused
                               /\ e.op = "share" => e.val # a
                               /\ u \in Unused \/ Entitled(surface, a, u, e)
    BY <1>3, Zenon DEF Fine
  <2> QED
    BY <1>14, <2>1, Zenon
<1>15. ASSUME NEW x \in Uuid, Makes(q, x) PROVE x \in Unused /\ x \in Fresh(u, plan)
  <2>1. PICK i \in DOMAIN plan : (plan[i].op = "create" /\ u = x) \/ (plan[i].op = "copy" /\ plan[i].val = x)
    BY <1>7, <1>15, Zenon DEF Makes
  <2>2. (plan[i].op = "create" => u \in Unused) /\ (plan[i].op = "copy" => plan[i].val \in Unused)
    BY <1>20, Zenon
  <2>3. CASE plan[i].op = "create" /\ u = x
    BY <2>2, <2>3, Zenon DEF Fresh
  <2>4. CASE plan[i].op = "copy" /\ plan[i].val = x
    BY <2>2, <2>4, Zenon DEF Fresh
  <2> QED
    BY <2>1, <2>3, <2>4
<1>16. ASSUME NEW x \in Uuid, Touches(q, x)
       PROVE  rows'[x].used /\ \A s \in Slot : ~Makes(req[s], x)
  <2>1. CASE Makes(q, x)
    <3>1. x \in Unused /\ x \in Fresh(u, plan)
      BY <1>15, <2>1
    <3>2. \A s \in Slot : Makes(req[s], x) => Touches(req[s], x)
      BY Zenon DEF Makes, Touches
    <3> QED
      BY <1>4, <1>12, <3>1, <3>2, Zenon
  <2>2. CASE x = u /\ has_access(a, u)
    BY <1>2, <1>4, <2>2, Zenon DEF has_access, DrawnOK
  <2>3. CASE x = u /\ u \in Unused /\ \E i \in DOMAIN plan : plan[i].op = "create"
    <3>1. Makes(q, x)
      BY <1>7, <2>3, Zenon DEF Makes
    <3> QED
      BY <2>1, <3>1
  <2> QED
    BY <1>3, <1>7, <1>16, <2>1, <2>2, <2>3, Zenon DEF Touches, Fine
<1>17. DrawnOK'
  <2>1. \A x \in Uuid : rows'[x].live => rows'[x].used
    BY <1>2, <1>4, Zenon DEF DrawnOK
  <2>2. ASSUME NEW s \in Slot, NEW x \in Uuid PROVE Touches(req'[s], x) => rows'[x].used
    BY <1>2, <1>4, <1>8, <1>16, Zenon DEF DrawnOK
  <2>3. ASSUME NEW s \in Slot, NEW x \in Uuid PROVE Makes(req'[s], x) => ~rows'[x].live
    BY <1>2, <1>4, <1>8, <1>12, <1>15, Zenon DEF DrawnOK
  <2>4. ASSUME NEW s \in Slot, NEW t \in Slot, NEW x \in Uuid, s # t, Makes(req'[s], x)
        PROVE  ~Touches(req'[t], x)
    BY <1>2, <1>8, <1>12, <1>15, <1>16, <2>4, Zenon DEF DrawnOK
  <2> QED
    BY <2>1, <2>2, <2>3, <2>4, Zenon DEF DrawnOK
<1>18. ASSUME NEW s \in Slot, s # r PROVE Allowed(req[s])'
  <2>1. Allowed(req[s]) /\ req'[s] = req[s] /\ (req[s].stage # "idle" => req[s].uuid \in Uuid)
    BY <1>2, <1>8, <1>18, ReqFields, Zenon DEF ReqRec
  <2> QED
    BY <1>4, <2>1, Zenon DEF Allowed
<1>19. Allowed(req[r])'
  <2>1. ASSUME NEW i \in DOMAIN plan
        PROVE  /\ plan[i].op \in {"create", "copy"} => i = 1
               /\ plan[i].op = "share" => plan[i].val # a
               /\ (plan[i].op \in OwnerOps \/ surface # "cli") /\ rows'[u].live => rows'[u].owner = {a}
    <3>1. plan[i].op \in {"create", "copy"} => i = 1
      BY <1>3, Zenon DEF Fine
    <3>2. rows'[u].live => Entitled(surface, a, u, plan[i])
      BY <1>4, <1>12, <1>20, Zenon
    <3> QED
      BY <1>4, <1>20, <3>1, <3>2, Zenon DEF Entitled
  <2> QED
    BY <1>7, <1>8, <2>1, Zenon DEF Allowed
<1>21. ASSUME NEW s \in Slot PROVE Held(s)'
  <2>1. shares' = shares /\ revoked' = revoked \ {r}
    BY Zenon DEF Ask
  <2>2. CASE s # r
    <3>1. Held(s) /\ req'[s] = req[s] /\ (req[s].stage # "idle" => req[s].uuid \in Uuid)
      BY <1>2, <1>8, <2>2, ReqFields, Zenon DEF ReqRec, ReqInv
    <3>2. s \in revoked => s \in revoked'
      BY <2>1, <2>2, Zenon
    <3> QED
      BY <1>4, <2>1, <3>1, <3>2, Zenon DEF Held
  <2>3. CASE s = r
    <3>1. rows'[u].live => u \notin Unused
      BY <1>2, <1>4, Zenon DEF DrawnOK, Unused
    <3>2. rows'[u].live => has_access(a, u)
      BY <1>3, <3>1, Zenon DEF Fine
    <3>3. rows'[u].live => rows'[u].owner = {a} \/ <<u, a>> \in shares'
      BY <1>4, <2>1, <3>2, Zenon DEF has_access
    <3> QED
      BY <1>7, <1>8, <2>3, <3>3, Zenon DEF Held
  <2> QED
    BY <2>2, <2>3
<1> QED
  BY <1>10, <1>11, <1>17, <1>18, <1>19, <1>21, Zenon DEF ReqInv

-----------------------------------------------------------------------------
(* A call of a plan. *)

\* A row after a call on it: the same owner, and only a removal ends its
\* life.
RowKept(w, n, op) ==
  /\ n \in Row /\ n.owner = w.owner /\ n.used = w.used
  /\ n.live => w.live
  /\ op # "remove" => n.live = w.live

\* set_port, set_visibility and the other calls write single columns of the
\* row.
LEMMA ColumnSet ==
  ASSUME NEW w \in Row, NEW op
  PROVE  /\ RowKept(w, [w EXCEPT !.live = FALSE], "remove")
         /\ \A b \in BOOLEAN : RowKept(w, [w EXCEPT !.running = b], op)
         /\ \A p \in Port : RowKept(w, [w EXCEPT !.port = p], op)
         /\ \A v \in Visibility : RowKept(w, [w EXCEPT !.visibility = v], op)
<1>1. RowKept(w, [w EXCEPT !.live = FALSE], "remove")
  <2>1. [w EXCEPT !.live = FALSE] \in Row
    BY Zenon DEF Row
  <2>2. /\ ~[w EXCEPT !.live = FALSE].live
        /\ [w EXCEPT !.live = FALSE].owner = w.owner /\ [w EXCEPT !.live = FALSE].used = w.used
    BY SMT DEF Row
  <2> QED
    BY <2>1, <2>2, Zenon DEF RowKept
<1>2. ASSUME NEW b \in BOOLEAN PROVE RowKept(w, [w EXCEPT !.running = b], op)
  <2>1. [w EXCEPT !.running = b] \in Row
    BY Zenon DEF Row
  <2>2. /\ [w EXCEPT !.running = b].live = w.live
        /\ [w EXCEPT !.running = b].owner = w.owner /\ [w EXCEPT !.running = b].used = w.used
    BY SMT DEF Row
  <2> QED
    BY <2>1, <2>2, Zenon DEF RowKept
<1>3. ASSUME NEW p \in Port PROVE RowKept(w, [w EXCEPT !.port = p], op)
  <2>1. [w EXCEPT !.port = p] \in Row
    BY Zenon DEF Row
  <2>2. /\ [w EXCEPT !.port = p].live = w.live
        /\ [w EXCEPT !.port = p].owner = w.owner /\ [w EXCEPT !.port = p].used = w.used
    BY SMT DEF Row
  <2> QED
    BY <2>1, <2>2, Zenon DEF RowKept
<1>4. ASSUME NEW v \in Visibility PROVE RowKept(w, [w EXCEPT !.visibility = v], op)
  <2>1. [w EXCEPT !.visibility = v] \in Row
    BY Zenon DEF Row
  <2>2. /\ [w EXCEPT !.visibility = v].live = w.live
        /\ [w EXCEPT !.visibility = v].owner = w.owner /\ [w EXCEPT !.visibility = v].used = w.used
    BY SMT DEF Row
  <2> QED
    BY <2>1, <2>2, Zenon DEF RowKept
<1> QED
  BY <1>1, <1>2, <1>3, <1>4, Zenon

\* What a call that makes nothing does to the rows and the shares: no owner
\* changes, and a removal takes the shares with it (ON DELETE CASCADE).
LEMMA CallRows ==
  ASSUME rows \in [Uuid -> Row], NEW a, NEW u \in Uuid, NEW e \in Eff, e.op \notin {"create", "copy"}
  PROVE  /\ RowsAfter(a, u, e) \in [Uuid -> Row]
         /\ \A x \in Uuid : RowKept(rows[x], RowsAfter(a, u, e)[x], e.op)
         /\ \A x \in Uuid : x # u => RowsAfter(a, u, e)[x] = rows[x]
<1>1. rows[u] \in Row
  BY Zenon
<1>2. ASSUME NEW n, RowKept(rows[u], n, e.op), RowsAfter(a, u, e) = [rows EXCEPT ![u] = n]
      PROVE  /\ RowsAfter(a, u, e) \in [Uuid -> Row]
             /\ \A x \in Uuid : RowKept(rows[x], RowsAfter(a, u, e)[x], e.op)
             /\ \A x \in Uuid : x # u => RowsAfter(a, u, e)[x] = rows[x]
  <2>1. \A x \in Uuid : x # u => RowsAfter(a, u, e)[x] = rows[x]
    BY <1>2, Zenon
  <2>2. RowsAfter(a, u, e)[u] = n
    BY <1>2, Zenon
  <2>3. \A x \in Uuid : RowKept(rows[x], rows[x], e.op)
    BY Zenon DEF RowKept
  <2>4. RowsAfter(a, u, e) \in [Uuid -> Row]
    BY <1>2, Zenon DEF RowKept
  <2> QED
    BY <1>2, <2>1, <2>2, <2>3, <2>4, Zenon
<1>3. (e.op = "port" => e.val \in Port) /\ (e.op = "visibility" => e.val \in Visibility)
  BY <1>1, SMT DEF Eff, Row
<1>5. CASE e.op = "remove"
  <2>1. RowsAfter(a, u, e) = [rows EXCEPT ![u] = [rows[u] EXCEPT !.live = FALSE]]
    BY <1>5, Zenon DEF RowsAfter
  <2>2. RowKept(rows[u], [rows[u] EXCEPT !.live = FALSE], e.op)
    BY <1>1, <1>5, ColumnSet, Zenon
  <2> QED
    BY <1>2, <2>1, <2>2, Zenon
<1>6. CASE e.op \in {"start", "restart", "stop"}
  <2>1. PICK b \in BOOLEAN : RowsAfter(a, u, e) = [rows EXCEPT ![u] = [rows[u] EXCEPT !.running = b]]
    <3>1. CASE e.op = "stop"
      <4>1. RowsAfter(a, u, e) = [rows EXCEPT ![u] = [rows[u] EXCEPT !.running = FALSE]]
        BY <3>1, Zenon DEF RowsAfter
      <4> QED
        BY <4>1, Zenon
    <3>2. CASE e.op # "stop"
      <4>1. RowsAfter(a, u, e) = [rows EXCEPT ![u] = [rows[u] EXCEPT !.running = TRUE]]
        BY <1>6, <3>2, Zenon DEF RowsAfter
      <4> QED
        BY <4>1, Zenon
    <3> QED
      BY <3>1, <3>2
  <2>2. RowKept(rows[u], [rows[u] EXCEPT !.running = b], e.op)
    BY <1>1, ColumnSet, Zenon
  <2> QED
    BY <1>2, <2>1, <2>2, Zenon
<1>7. CASE e.op = "port"
  <2>1. RowsAfter(a, u, e) = [rows EXCEPT ![u] = [rows[u] EXCEPT !.port = e.val]]
    BY <1>7, Zenon DEF RowsAfter
  <2>2. RowKept(rows[u], [rows[u] EXCEPT !.port = e.val], e.op)
    BY <1>1, <1>3, <1>7, ColumnSet, Zenon
  <2> QED
    BY <1>2, <2>1, <2>2, Zenon
<1>8. CASE e.op = "visibility"
  <2>1. RowsAfter(a, u, e) = [rows EXCEPT ![u] = [rows[u] EXCEPT !.visibility = e.val]]
    BY <1>8, Zenon DEF RowsAfter
  <2>2. RowKept(rows[u], [rows[u] EXCEPT !.visibility = e.val], e.op)
    BY <1>1, <1>3, <1>8, ColumnSet, Zenon
  <2> QED
    BY <1>2, <2>1, <2>2, Zenon
<1>9. CASE e.op \notin {"remove", "start", "restart", "stop", "port", "visibility"}
  <2>1. RowsAfter(a, u, e) = rows
    BY <1>9, Zenon DEF RowsAfter
  <2>2. RowKept(rows[u], rows[u], e.op) /\ rows = [rows EXCEPT ![u] = rows[u]]
    BY <1>1, Zenon DEF RowKept
  <2> QED
    BY <1>2, <2>1, <2>2, Zenon
<1> QED
  BY <1>5, <1>6, <1>7, <1>8, <1>9, Zenon

\* The calls that are left after the first.
LEMMA TailPlan ==
  ASSUME NEW S, NEW s \in Seq(S), s # <<>>
  PROVE  /\ Tail(s) \in Seq(S) /\ 1 \in DOMAIN s /\ Head(s) = s[1] /\ Head(s) \in S
         /\ \A i \in DOMAIN Tail(s) : i + 1 \in DOMAIN s /\ i + 1 # 1 /\ Tail(s)[i] = s[i + 1]
  BY SMT

\* A request that has made the first call of its plan waits for the reload,
\* goes on, or is answered.
LEMMA EffectReq ==
  ASSUME ReqTypes, NEW r \in Slot, Effect(r)
  PROVE  /\ req' \in [Slot -> {IdleReq} \cup ReqRec]
         /\ \A s \in Slot : s # r => req'[s] = req[s]
         /\ req[r] \in ReqRec /\ req'[r] \in ReqRec
         /\ req'[r].user = req[r].user /\ req'[r].surface = req[r].surface
         /\ req'[r].uuid = req[r].uuid /\ req'[r].plan = Tail(req[r].plan)
<1>1. req[r].stage = "run" /\ req[r].plan # <<>>
  BY Zenon DEF Effect
<1>2. req[r] \in ReqRec /\ req[r].plan \in Seq(Eff)
  BY <1>1, ReqFields, Zenon
<1>3. PICK st : st = IF Head(req[r].plan).op \in ReloadOps THEN "reload" ELSE "run"
  OBVIOUS
<1>4. req' = [req EXCEPT ![r].plan = Tail(@), ![r].stage = st]
  BY <1>3, Zenon DEF Effect
<1>5. PICK n : n = [req[r] EXCEPT !.plan = Tail(req[r].plan), !.stage = st]
  OBVIOUS
<1>6. Tail(req[r].plan) \in Seq(Eff) /\ st \in {"run", "reload", "applying"}
  BY <1>1, <1>2, <1>3, TailPlan, Zenon
<1>7. n \in ReqRec
  BY <1>2, <1>5, <1>6, Zenon DEF ReqRec
<1>8. n.user = req[r].user /\ n.surface = req[r].surface /\ n.uuid = req[r].uuid /\ n.plan = Tail(req[r].plan)
  BY <1>2, <1>5, SMT DEF ReqRec
<1>9. req \in [Slot -> {IdleReq} \cup ReqRec]
  BY Zenon DEF ReqTypes
<1>11. req' = [req EXCEPT ![r] = n]
  BY <1>4, <1>5, <1>9, Zenon
<1>10. req'[r] = n /\ \A s \in Slot : s # r => req'[s] = req[s]
  BY <1>9, <1>11, Zenon
<1>12. req' \in [Slot -> {IdleReq} \cup ReqRec]
  BY <1>7, <1>9, <1>11, Zenon
<1> QED
  BY <1>2, <1>7, <1>8, <1>10, <1>12, Zenon

\* After its first call a plan makes nothing any more.
LEMMA NoMoreMaking ==
  ASSUME ReqTypes, NEW r \in Slot, Allowed(req[r]), Effect(r)
  PROVE  /\ \A x : ~Makes(req'[r], x)
         /\ \A x : Touches(req'[r], x) => Touches(req[r], x)
<1>1. req[r].stage = "run" /\ req[r].plan # <<>> /\ req[r].plan \in Seq(Eff)
  BY ReqFields, Zenon DEF Effect
<1>2. \A i \in DOMAIN Tail(req[r].plan) : Tail(req[r].plan)[i].op \notin {"create", "copy"}
  <2>1. ASSUME NEW i \in DOMAIN Tail(req[r].plan)
        PROVE  /\ i + 1 \in DOMAIN req[r].plan /\ i + 1 # 1
               /\ Tail(req[r].plan)[i] = req[r].plan[i + 1]
    BY <1>1, TailPlan, Zenon
  <2>2. \A i \in DOMAIN req[r].plan : req[r].plan[i].op \in {"create", "copy"} => i = 1
    BY <1>1, Zenon DEF Allowed
  <2> QED
    BY <2>1, <2>2, Zenon
<1>3. req'[r].uuid = req[r].uuid /\ req'[r].plan = Tail(req[r].plan)
  BY EffectReq, Zenon
<1>4. \A x : ~Makes(req'[r], x)
  BY <1>2, <1>3, Zenon DEF Makes
<1> QED
  BY <1>1, <1>3, <1>4, Zenon DEF Touches

\* create and copy keep the invariant: the row is new, and no other request
\* knows its uuid.
LEMMA MakingStep ==
  ASSUME ReqInv, NEW r \in Slot, Effect(r), NEW x \in Uuid, Makes(req[r], x),
         rows' = [rows EXCEPT ![x] = NewRow(req[r].user)],
         shares' = shares, req[r].uuid # x => rows[req[r].uuid].live
  PROVE  ReqInv'
<1>1. ReqTypes /\ DrawnOK /\ SharesOfLiveInstances /\ \A s \in Slot : Allowed(req[s])
  BY Zenon DEF ReqInv
<1>2. /\ req' \in [Slot -> {IdleReq} \cup ReqRec]
      /\ \A s \in Slot : s # r => req'[s] = req[s]
      /\ req[r] \in ReqRec
      /\ req'[r].user = req[r].user /\ req'[r].surface = req[r].surface
      /\ req'[r].uuid = req[r].uuid /\ req'[r].plan = Tail(req[r].plan)
  BY <1>1, EffectReq, Zenon
<1>3. (\A y : ~Makes(req'[r], y)) /\ \A y : Touches(req'[r], y) => Touches(req[r], y)
  BY <1>1, NoMoreMaking, Zenon
<1>4. ~rows[x].live /\ rows[x].used /\ \A s \in Slot : s # r => ~Touches(req[s], x)
  <2>1. Touches(req[r], x)
    BY Zenon DEF Touches, Makes
  <2> QED
    BY <1>1, <2>1, Zenon DEF DrawnOK
<1>5. req[r].user \in User /\ req[r].uuid \in Uuid
  BY <1>2, Zenon DEF ReqRec
<1>6. PICK n : n = NewRow(req[r].user)
  OBVIOUS
<1>7. n.live /\ n.used /\ n.owner = {req[r].user}
  BY <1>6, SMT DEF NewRow
<1>8. n \in Row
  <2>1. rows[x] \in Row
    BY <1>1, Zenon DEF ReqTypes
  <2>2. (CHOOSE p \in Port : TRUE) \in Port
    BY <2>1, Zenon DEF Row
  <2> QED
    BY <1>5, <1>6, <2>2, Zenon DEF NewRow, Row, Visibility
<1>9. rows' \in [Uuid -> Row] /\ rows'[x] = n /\ \A y \in Uuid : y # x => rows'[y] = rows[y]
  BY <1>1, <1>6, <1>8, Zenon DEF ReqTypes
<1>10. ReqTypes'
  BY <1>1, <1>2, <1>9, Zenon DEF ReqTypes
<1>11. SharesOfLiveInstances'
  <2>1. ASSUME NEW s \in shares PROVE rows'[s[1]].live /\ rows'[s[1]].owner # {s[2]}
    <3>1. s[1] \in Uuid
      BY <1>1, SMT DEF ReqTypes
    <3>2. rows[s[1]].live /\ rows[s[1]].owner # {s[2]}
      BY <1>1, Zenon DEF SharesOfLiveInstances, SharesOfLiveInstances
    <3> QED
      BY <1>4, <1>9, <3>1, <3>2, Zenon
  <2> QED
    BY <2>1, Zenon DEF SharesOfLiveInstances, SharesOfLiveInstances
<1>12. DrawnOK'
  <2>1. \A y \in Uuid : (rows'[y].live => rows'[y].used) /\ (rows[y].used => rows'[y].used)
    BY <1>1, <1>7, <1>9, Zenon DEF DrawnOK
  <2>2. ASSUME NEW s \in Slot, NEW y \in Uuid, Touches(req'[s], y) PROVE rows'[y].used
    BY <1>1, <1>2, <1>3, <2>1, <2>2, Zenon DEF DrawnOK
  <2>3. ASSUME NEW s \in Slot, NEW y \in Uuid, Makes(req'[s], y) PROVE ~rows'[y].live
    <3>1. s # r /\ Makes(req[s], y)
      BY <1>2, <1>3, <2>3, Zenon
    <3>2. y # x
      BY <1>4, <3>1, Zenon DEF Touches, Makes
    <3> QED
      BY <1>1, <1>9, <3>1, <3>2, Zenon DEF DrawnOK
  <2>4. ASSUME NEW s \in Slot, NEW t \in Slot, NEW y \in Uuid, s # t, Makes(req'[s], y)
        PROVE  ~Touches(req'[t], y)
    BY <1>1, <1>2, <1>3, <2>4, Zenon DEF DrawnOK
  <2> QED
    BY <2>1, <2>2, <2>3, <2>4, Zenon DEF DrawnOK
<1>13. ASSUME NEW s \in Slot, s # r PROVE Allowed(req[s])'
  <2>1. Allowed(req[s]) /\ req'[s] = req[s] /\ (req[s].stage # "idle" => req[s].uuid \in Uuid)
    BY <1>1, <1>2, <1>13, ReqFields, Zenon DEF ReqRec
  <2>2. req[s].stage # "idle" => req[s].uuid # x
    BY <1>4, <1>13, Zenon DEF Touches
  <2> QED
    BY <1>9, <2>1, <2>2, ZenonT(60) DEF Allowed
<1>14. Allowed(req[r])'
  <2>1. req[r].plan \in Seq(Eff) /\ req[r].plan # <<>> /\ req[r].stage # "idle"
    BY <1>1, ReqFields, Zenon DEF Effect
  <2>2. ASSUME NEW i \in DOMAIN Tail(req[r].plan)
        PROVE  /\ Tail(req[r].plan)[i].op \notin {"create", "copy"}
               /\ Tail(req[r].plan)[i].op = "share" => Tail(req[r].plan)[i].val # req[r].user
               /\ (Tail(req[r].plan)[i].op \in OwnerOps \/ req[r].surface # "cli") /\ rows[req[r].uuid].live
                    => rows[req[r].uuid].owner = {req[r].user}
    <3>1. /\ i + 1 \in DOMAIN req[r].plan /\ i + 1 # 1
          /\ Tail(req[r].plan)[i] = req[r].plan[i + 1]
      BY <2>1, TailPlan, Zenon
    <3> QED
      BY <1>1, <2>1, <3>1, Zenon DEF Allowed
  <2>3. rows'[req[r].uuid] = rows[req[r].uuid] \/ rows'[req[r].uuid].owner = {req[r].user}
    BY <1>5, <1>7, <1>9, Zenon
  <2> QED
    BY <1>2, <2>2, <2>3, ZenonT(60) DEF Allowed
<1>15. ASSUME NEW s \in Slot PROVE Held(s)'
  <2>1. Held(s) /\ (s \in revoked => s \in revoked')
    BY Zenon DEF ReqInv, Effect
  <2>2. CASE s # r
    <3>1. req'[s] = req[s] /\ (req[s].stage # "idle" => req[s].uuid \in Uuid /\ req[s].uuid # x)
      BY <1>1, <1>2, <1>4, <2>2, ReqFields, Zenon DEF Touches, ReqRec
    <3>2. req[s].stage # "idle" => rows'[req[s].uuid] = rows[req[s].uuid]
      BY <1>9, <3>1, Zenon
    <3> QED
      BY <2>1, <3>1, <3>2, Zenon DEF Held
  <2>3. CASE s = r
    <3>1. req[r].stage # "idle" /\ req'[r].uuid = req[r].uuid /\ req'[r].user = req[r].user
      BY <1>2, Zenon DEF Makes
    <3>2. rows'[req[r].uuid] = rows[req[r].uuid] \/ rows'[req[r].uuid].owner = {req[r].user}
      BY <1>5, <1>7, <1>9, Zenon
    <3> QED
      BY <2>1, <2>3, <3>1, <3>2, Zenon DEF Held
  <2> QED
    BY <2>2, <2>3
<1> QED
  BY <1>10, <1>11, <1>12, <1>13, <1>14, <1>15, Zenon DEF ReqInv

\* A call on an instance that is there keeps it: the owner stays, and with
\* the owner what every request in flight may do.
LEMMA ChangingStep ==
  ASSUME ReqInv, NEW r \in Slot, Effect(r), Head(req[r].plan).op \notin {"create", "copy"}
  PROVE  ReqInv'
<1>1. ReqTypes /\ DrawnOK /\ SharesOfLiveInstances /\ \A s \in Slot : Allowed(req[s])
  BY Zenon DEF ReqInv
<1>2. /\ req' \in [Slot -> {IdleReq} \cup ReqRec]
      /\ \A s \in Slot : s # r => req'[s] = req[s]
      /\ req[r] \in ReqRec
      /\ req'[r].user = req[r].user /\ req'[r].surface = req[r].surface
      /\ req'[r].uuid = req[r].uuid /\ req'[r].plan = Tail(req[r].plan)
  BY <1>1, EffectReq, Zenon
<1>3. (\A y : ~Makes(req'[r], y)) /\ \A y : Touches(req'[r], y) => Touches(req[r], y)
  BY <1>1, NoMoreMaking, Zenon
<1>4. PICK u, e : u = req[r].uuid /\ e = Head(req[r].plan)
  BY Zenon
<1>5. req[r].plan \in Seq(Eff) /\ req[r].plan # <<>> /\ req[r].stage # "idle"
  BY <1>1, ReqFields, Zenon DEF Effect
<1>6. u \in Uuid /\ e \in Eff /\ 1 \in DOMAIN req[r].plan /\ e = req[r].plan[1] /\ e.op \notin {"create", "copy"}
  <2>1. u \in Uuid
    BY <1>2, <1>4, Zenon DEF ReqRec
  <2>2. /\ Head(req[r].plan) \in Eff /\ 1 \in DOMAIN req[r].plan
        /\ Head(req[r].plan) = req[r].plan[1]
    BY <1>5, TailPlan, Zenon
  <2> QED
    BY <1>4, <2>1, <2>2, Zenon
<1>7. /\ rows' \in [Uuid -> Row]
      /\ \A x \in Uuid : RowKept(rows[x], rows'[x], e.op)
      /\ \A x \in Uuid : x # u => rows'[x] = rows[x]
  <2>1. rows' = RowsAfter(req[r].user, u, e)
    BY <1>4, Zenon DEF Effect
  <2>2. rows \in [Uuid -> Row]
    BY <1>1, Zenon DEF ReqTypes
  <2> QED
    <3>1. PICK a : a = req[r].user
      OBVIOUS
    <3>2. /\ RowsAfter(a, u, e) \in [Uuid -> Row]
          /\ \A x \in Uuid : RowKept(rows[x], RowsAfter(a, u, e)[x], e.op)
          /\ \A x \in Uuid : x # u => RowsAfter(a, u, e)[x] = rows[x]
      <4>1. u \in Uuid /\ e \in Eff /\ e.op \notin {"create", "copy"}
        BY <1>6, Zenon
      <4> QED
        BY <2>2, <4>1, CallRows, Zenon
    <3> QED
      BY <2>1, <3>1, <3>2, Zenon
<1>8. \A x \in Uuid : /\ rows'[x].owner = rows[x].owner /\ rows'[x].used = rows[x].used
                      /\ rows'[x].live => rows[x].live
                      /\ e.op # "remove" => rows'[x].live = rows[x].live
  BY <1>7, Zenon DEF RowKept
<1>9. shares' = SharesAfter(u, e) /\ rows[u].live
  BY <1>4, <1>6, Zenon DEF Effect, Possible
<1>10. shares' \subseteq Uuid \X User /\ SharesOfLiveInstances'
  <2>1. \A s \in shares : s[1] \in Uuid /\ rows[s[1]].live /\ rows[s[1]].owner # {s[2]}
    <3>1. \A s \in shares : s[1] \in Uuid
      BY <1>1, SMT DEF ReqTypes
    <3> QED
      BY <1>1, <3>1, Zenon DEF SharesOfLiveInstances, SharesOfLiveInstances
  <2>2. CASE e.op = "share"
    <3>1. PICK b : b = e.val
      OBVIOUS
    <3>2. b \in User
      BY <1>6, <2>2, <3>1, SMT DEF Eff
    <3>3. b # req[r].user /\ rows[u].owner = {req[r].user}
      <4>1. e.op \in OwnerOps
        BY <2>2, Zenon DEF OwnerOps
      <4> QED
        BY <1>1, <1>4, <1>5, <1>6, <1>9, <2>2, <3>1, <4>1, Zenon DEF Allowed
    <3>4. shares' = shares \cup {<<u, b>>}
      BY <1>9, <2>2, <3>1, Zenon DEF SharesAfter
    <3>5. <<u, b>>[1] = u /\ <<u, b>>[2] = b
      BY SMT
    <3>6. rows'[u].live /\ rows'[u].owner # {b}
      BY <1>6, <1>8, <1>9, <2>2, <3>3, Zenon
    <3>7. \A s \in shares : rows'[s[1]].live /\ rows'[s[1]].owner # {s[2]}
      BY <1>8, <2>1, <2>2, Zenon
    <3>8. SharesOfLiveInstances'
      BY <3>4, <3>5, <3>6, <3>7, Zenon DEF SharesOfLiveInstances, SharesOfLiveInstances
    <3>9. shares' \subseteq Uuid \X User
      BY <1>1, <1>6, <3>2, <3>4, SMT DEF ReqTypes
    <3> QED
      BY <3>8, <3>9
  <2>3. CASE e.op = "remove"
    <3>1. shares' = {s \in shares : s[1] # u}
      BY <1>9, <2>3, Zenon DEF SharesAfter
    <3>2. \A s \in shares' : rows'[s[1]].live /\ rows'[s[1]].owner # {s[2]}
      BY <1>7, <2>1, <3>1, Zenon
    <3> QED
      BY <1>1, <3>1, <3>2, Zenon DEF ReqTypes, SharesOfLiveInstances, SharesOfLiveInstances
  <2>4. CASE e.op \notin {"share", "remove"}
    <3>1. shares' \subseteq shares
      <4>1. CASE e.op = "unshare"
        <5>1. shares' = shares \ {<<u, e.val>>}
          BY <1>9, <4>1, Zenon DEF SharesAfter
        <5> QED
          BY <5>1, Zenon
      <4>2. CASE e.op # "unshare"
        <5>1. shares' = shares
          BY <1>9, <2>4, <4>2, Zenon DEF SharesAfter
        <5> QED
          BY <5>1, Zenon
      <4> QED
        BY <4>1, <4>2
    <3>2. \A s \in shares' : rows'[s[1]].live /\ rows'[s[1]].owner # {s[2]}
      BY <1>8, <2>1, <2>4, <3>1, Zenon
    <3> QED
      BY <1>1, <3>1, <3>2, Zenon DEF ReqTypes, SharesOfLiveInstances, SharesOfLiveInstances
  <2> QED
    BY <2>2, <2>3, <2>4, Zenon
<1>11. ReqTypes'
  BY <1>2, <1>7, <1>10, Zenon DEF ReqTypes
<1>12. DrawnOK'
  <2>1. \A y \in Uuid : (rows'[y].live => rows'[y].used) /\ (rows[y].used => rows'[y].used)
    BY <1>1, <1>8, Zenon DEF DrawnOK
  <2>2. ASSUME NEW s \in Slot, NEW y \in Uuid, Touches(req'[s], y) PROVE rows'[y].used
    BY <1>1, <1>2, <1>3, <2>1, <2>2, Zenon DEF DrawnOK
  <2>3. ASSUME NEW s \in Slot, NEW y \in Uuid, Makes(req'[s], y) PROVE ~rows'[y].live
    BY <1>1, <1>2, <1>3, <1>8, <2>3, Zenon DEF DrawnOK
  <2>4. ASSUME NEW s \in Slot, NEW t \in Slot, NEW y \in Uuid, s # t, Makes(req'[s], y)
        PROVE  ~Touches(req'[t], y)
    BY <1>1, <1>2, <1>3, <2>4, Zenon DEF DrawnOK
  <2> QED
    BY <2>1, <2>2, <2>3, <2>4, Zenon DEF DrawnOK
<1>13. ASSUME NEW s \in Slot, s # r PROVE Allowed(req[s])'
  <2>1. Allowed(req[s]) /\ req'[s] = req[s] /\ (req[s].stage # "idle" => req[s].uuid \in Uuid)
    BY <1>1, <1>2, <1>13, ReqFields, Zenon DEF ReqRec
  <2> QED
    BY <1>8, <2>1, Zenon DEF Allowed
<1>14. Allowed(req[r])'
  <2>2. ASSUME NEW i \in DOMAIN Tail(req[r].plan)
        PROVE  /\ Tail(req[r].plan)[i].op \notin {"create", "copy"}
               /\ Tail(req[r].plan)[i].op = "share" => Tail(req[r].plan)[i].val # req[r].user
               /\ (Tail(req[r].plan)[i].op \in OwnerOps \/ req[r].surface # "cli") /\ rows[req[r].uuid].live
                    => rows[req[r].uuid].owner = {req[r].user}
    <3>1. /\ i + 1 \in DOMAIN req[r].plan /\ i + 1 # 1
          /\ Tail(req[r].plan)[i] = req[r].plan[i + 1]
      BY <1>5, TailPlan, Zenon
    <3> QED
      BY <1>1, <1>5, <3>1, Zenon DEF Allowed
  <2> QED
    BY <1>2, <1>4, <1>6, <1>8, <2>2, ZenonT(60) DEF Allowed
<1>15. ASSUME NEW s \in Slot PROVE Held(s)'
  <2>1. Held(s) /\ (s \in revoked => s \in revoked') /\ (LosesShare(req[s], u, e) => s \in revoked')
    BY <1>4, Zenon DEF ReqInv, Effect
  <2>2. /\ req'[s].user = req[s].user /\ req'[s].uuid = req[s].uuid
        /\ req'[s].stage # "idle" => req[s].stage # "idle" /\ req[s].uuid \in Uuid
    BY <1>1, <1>2, <1>4, <1>5, <1>6, ReqFields, Zenon DEF ReqRec
  <2>3. SUFFICES ASSUME req[s].stage # "idle", req[s].uuid \in Uuid, rows'[req[s].uuid].live
                 PROVE  \/ rows'[req[s].uuid].owner = {req[s].user}
                        \/ <<req[s].uuid, req[s].user>> \in shares' \/ s \in revoked'
    BY <2>2, Zenon DEF Held
  <2>4. \/ rows[req[s].uuid].owner = {req[s].user}
        \/ <<req[s].uuid, req[s].user>> \in shares \/ s \in revoked
    BY <1>8, <2>1, <2>3, Zenon DEF Held
  <2>5. CASE rows[req[s].uuid].owner = {req[s].user} \/ s \in revoked
    BY <1>8, <2>1, <2>3, <2>5, Zenon
  <2>6. CASE <<req[s].uuid, req[s].user>> \in shares
    <3>1. CASE e.op = "share"
      BY <1>9, <2>6, <3>1, Zenon DEF SharesAfter
    <3>2. CASE e.op = "unshare"
      <4>1. shares' = shares \ {<<u, e.val>>}
        BY <1>9, <3>2, Zenon DEF SharesAfter
      <4>2. CASE <<req[s].uuid, req[s].user>> = <<u, e.val>>
        <5>1. req[s].uuid = u /\ req[s].user = e.val
          BY <4>2, SMT
        <5> QED
          BY <2>1, <2>3, <3>2, <5>1, Zenon DEF LosesShare
      <4> QED
        BY <2>6, <4>1, <4>2, Zenon
    <3>3. CASE e.op = "remove"
      <4>1. rows' = [rows EXCEPT ![u].live = FALSE]
        BY <1>4, <3>3, Zenon DEF Effect, RowsAfter
      <4>2. ~rows'[u].live
        BY <1>1, <1>6, <4>1, SMT DEF ReqTypes, Row
      <4>3. shares' = {x \in shares : x[1] # u}
        BY <1>9, <3>3, Zenon DEF SharesAfter
      <4>4. <<req[s].uuid, req[s].user>>[1] = req[s].uuid
        BY SMT
      <4> QED
        BY <2>3, <2>6, <4>2, <4>3, <4>4, Zenon
    <3>4. CASE e.op \notin {"share", "unshare", "remove"}
      <4>1. shares' = shares
        BY <1>9, <3>4, Zenon DEF SharesAfter
      <4> QED
        BY <2>6, <4>1
    <3> QED
      BY <3>1, <3>2, <3>3, <3>4, Zenon
  <2> QED
    BY <2>4, <2>5, <2>6
<1> QED
  BY <1>10, <1>11, <1>12, <1>13, <1>14, <1>15, Zenon DEF ReqInv

\* A call of a plan keeps the invariant, whatever happened to the rows since
\* the plan was made.
LEMMA EffectStep ==
  ASSUME ReqInv, NEW r \in Slot, Effect(r)
  PROVE  ReqInv'
<1>1. ReqTypes /\ DrawnOK
  BY Zenon DEF ReqInv
<1>2. req[r].plan \in Seq(Eff) /\ req[r].plan # <<>> /\ req[r].stage = "run" /\ req[r] \in ReqRec
  BY <1>1, ReqFields, Zenon DEF Effect
<1>3. PICK e : e = Head(req[r].plan)
  OBVIOUS
<1>4. e \in Eff /\ 1 \in DOMAIN req[r].plan /\ e = req[r].plan[1] /\ req[r].uuid \in Uuid
  BY <1>2, <1>3, TailPlan, Zenon DEF ReqRec
<1>5. rows' = RowsAfter(req[r].user, req[r].uuid, e) /\ shares' = SharesAfter(req[r].uuid, e)
  BY <1>3, Zenon DEF Effect
<1>6. CASE e.op = "create"
  <2>1. rows' = [rows EXCEPT ![req[r].uuid] = NewRow(req[r].user)]
    BY <1>5, <1>6, Zenon DEF RowsAfter
  <2>2. shares' = shares
    BY <1>5, <1>6, Zenon DEF SharesAfter
  <2>3. Makes(req[r], req[r].uuid)
    BY <1>2, <1>4, <1>6, Zenon DEF Makes
  <2> QED
    BY <1>4, <2>1, <2>2, <2>3, MakingStep, Zenon
<1>7. CASE e.op = "copy"
  <2>1. rows' = [rows EXCEPT ![e.val] = NewRow(req[r].user)]
    BY <1>5, <1>7, Zenon DEF RowsAfter
  <2>2. shares' = shares
    BY <1>5, <1>7, Zenon DEF SharesAfter
  <2>3. Makes(req[r], e.val)
    BY <1>2, <1>4, <1>7, Zenon DEF Makes
  <2>4. e.val \in Uuid
    BY <1>4, <1>7, SMT DEF Eff
  <2>5. rows[req[r].uuid].live
    BY <1>3, <1>7, Zenon DEF Effect, Possible
  <2> QED
    BY <2>1, <2>2, <2>3, <2>4, <2>5, MakingStep, Zenon
<1>8. CASE e.op \notin {"create", "copy"}
  BY <1>3, <1>8, ChangingStep, Zenon
<1> QED
  BY <1>6, <1>7, <1>8, Zenon

-----------------------------------------------------------------------------
(* Answers, reloads, restarts. *)

\* The request waits elsewhere, with what is left of its plan, for the same
\* user.
SameOrder(q, n) ==
  /\ q \in ReqRec /\ n \in ReqRec
  /\ n.user = q.user /\ n.surface = q.surface /\ n.uuid = q.uuid /\ n.plan = q.plan

\* A step that leaves both tables alone and only ends requests or moves them
\* on keeps the invariant.
LEMMA WaitingStep ==
  ASSUME ReqInv, rows' = rows, shares' = shares, req' \in [Slot -> {IdleReq} \cup ReqRec],
         \A s \in Slot : req'[s] = req[s] \/ req'[s] = IdleReq \/ SameOrder(req[s], req'[s]),
         \A s \in Slot : s \in revoked => s \in revoked' \/ req'[s] = IdleReq
  PROVE  ReqInv'
<1>1. ReqTypes /\ DrawnOK /\ SharesOfLiveInstances /\ \A s \in Slot : Allowed(req[s])
  BY Zenon DEF ReqInv
<1>2. \A q \in ReqRec : q.stage # "idle"
  BY SMT DEF ReqRec
<1>3. IdleReq.stage = "idle"
  BY SMT DEF IdleReq
<1>4. ASSUME NEW s \in Slot, NEW x
      PROVE  /\ Makes(req'[s], x) => Makes(req[s], x)
             /\ Touches(req'[s], x) => Touches(req[s], x)
  <2>1. CASE SameOrder(req[s], req'[s])
    BY <1>2, <2>1, Zenon DEF SameOrder, Makes, Touches
  <2>2. CASE req'[s] = IdleReq
    BY <1>3, <2>2, Zenon DEF Makes, Touches
  <2> QED
    BY <2>1, <2>2, Zenon
<1>5. ReqTypes'
  BY <1>1, Zenon DEF ReqTypes
<1>6. SharesOfLiveInstances'
  BY <1>1, Zenon DEF SharesOfLiveInstances, SharesOfLiveInstances
<1>7. DrawnOK'
  <2>1. \A u \in Uuid : rows'[u].live => rows'[u].used
    BY <1>1, Zenon DEF DrawnOK
  <2>2. \A s \in Slot, u \in Uuid : Touches(req'[s], u) => rows'[u].used
    BY <1>1, <1>4, Zenon DEF DrawnOK
  <2>3. \A s \in Slot, u \in Uuid : Makes(req'[s], u) => ~rows'[u].live
    BY <1>1, <1>4, Zenon DEF DrawnOK
  <2>4. \A s, t \in Slot, u \in Uuid : s # t /\ Makes(req'[s], u) => ~Touches(req'[t], u)
    BY <1>1, <1>4, Zenon DEF DrawnOK
  <2> QED
    BY <2>1, <2>2, <2>3, <2>4, Zenon DEF DrawnOK
<1>8. ASSUME NEW s \in Slot PROVE Allowed(req[s])'
  <2>1. CASE SameOrder(req[s], req'[s])
    BY <1>1, <1>2, <2>1, ZenonT(60) DEF SameOrder, Allowed
  <2>2. CASE req'[s] = IdleReq
    BY <1>3, <2>2, Zenon DEF Allowed
  <2>3. CASE req'[s] = req[s]
    BY <1>1, <2>3, Zenon DEF Allowed
  <2> QED
    BY <2>1, <2>2, <2>3, Zenon
<1>9. ASSUME NEW s \in Slot PROVE Held(s)'
  <2>1. Held(s) /\ (s \in revoked => s \in revoked' \/ req'[s] = IdleReq)
    BY Zenon DEF ReqInv
  <2>2. CASE SameOrder(req[s], req'[s])
    <3>1. req[s].stage # "idle" /\ (req'[s] = IdleReq => req'[s].stage = "idle")
      BY <1>2, <1>3, <2>2, Zenon DEF SameOrder
    <3> QED
      BY <2>1, <2>2, <3>1, Zenon DEF Held, SameOrder
  <2>3. CASE req'[s] = IdleReq
    BY <1>3, <2>3, Zenon DEF Held
  <2>4. CASE req'[s] = req[s]
    BY <1>3, <2>1, <2>4, Zenon DEF Held
  <2> QED
    BY <2>2, <2>3, <2>4, Zenon
<1> QED
  BY <1>5, <1>6, <1>7, <1>8, <1>9, Zenon DEF ReqInv

\* A request that waits for its process's reload changes its stage only.
LEMMA NewWait ==
  ASSUME NEW q \in ReqRec, NEW st \in {"run", "reload", "applying"}
  PROVE  SameOrder(q, [q EXCEPT !.stage = st])
<1>1. [q EXCEPT !.stage = st] \in ReqRec
  BY Zenon DEF ReqRec
<1>2. /\ [q EXCEPT !.stage = st].user = q.user /\ [q EXCEPT !.stage = st].surface = q.surface
      /\ [q EXCEPT !.stage = st].uuid = q.uuid /\ [q EXCEPT !.stage = st].plan = q.plan
  BY SMT DEF ReqRec
<1> QED
  BY <1>1, <1>2, Zenon DEF SameOrder

\* A request that goes on after the reload keeps the invariant.
LEMMA ResumeStep ==
  ASSUME ReqInv, NEW who \in SUBSET Slot, NEW st \in {"run", "reload", "applying"}, Resume(who, st),
         \A s \in who : req[s].stage # "idle", rows' = rows, shares' = shares, revoked' = revoked
  PROVE  ReqInv'
<1>1. ReqTypes
  BY Zenon DEF ReqInv
<1>2. req' = [s \in Slot |-> IF s \in who THEN [req[s] EXCEPT !.stage = st] ELSE req[s]]
  BY Zenon DEF Resume
<1>3. ASSUME NEW s \in Slot
      PROVE  req'[s] \in {IdleReq} \cup ReqRec /\ (req'[s] = req[s] \/ SameOrder(req[s], req'[s]))
  <2>1. CASE s \in who
    <3>1. req[s] \in ReqRec
      BY <1>1, <2>1, ReqFields, Zenon
    <3>2. req'[s] = [req[s] EXCEPT !.stage = st]
      BY <1>2, <2>1, Zenon
    <3>3. SameOrder(req[s], req'[s])
      BY <3>1, <3>2, NewWait, Zenon
    <3> QED
      BY <3>3, Zenon DEF SameOrder
  <2>2. CASE s \notin who
    <3>1. req'[s] = req[s]
      BY <1>2, <2>2, Zenon
    <3> QED
      BY <1>1, <3>1, Zenon DEF ReqTypes
  <2> QED
    BY <2>1, <2>2
<1>4. req' \in [Slot -> {IdleReq} \cup ReqRec]
  BY <1>2, <1>3, Zenon
<1> QED
  BY <1>3, <1>4, WaitingStep, Zenon

\* Requests that end keep it: an answer, a failed apply, a restart of their
\* process.
LEMMA EndingStep ==
  ASSUME ReqInv, rows' = rows, shares' = shares, NEW gone,
         \A s \in Slot : s \in revoked => s \in revoked' \/ s \in gone,
         req' = [s \in Slot |-> IF s \in gone THEN IdleReq ELSE req[s]]
  PROVE  ReqInv'
<1>1. ReqTypes
  BY Zenon DEF ReqInv
<1>2. \A s \in Slot : /\ req'[s] = req[s] \/ req'[s] = IdleReq
                     /\ s \in revoked => s \in revoked' \/ req'[s] = IdleReq
  BY Zenon
<1>3. req' \in [Slot -> {IdleReq} \cup ReqRec]
  BY <1>1, Zenon DEF ReqTypes
<1> QED
  BY <1>2, <1>3, WaitingStep, Zenon

\* Firewall.reload keeps it, for a request or for the convergence loop.
LEMMA ReloadStep ==
  ASSUME ReqInv, NEW p, NEW who \in SUBSET Slot, \A s \in who : req[s].stage = "reload", reload(p, who)
  PROVE  ReqInv'
<1>1. /\ rows' = rows /\ shares' = shares /\ revoked' = revoked
      /\ Resume(who, "run") \/ Resume(who, "applying")
  BY Zenon DEF reload
<1>2. \A s \in who : req[s].stage # "idle"
  BY Zenon
<1>3. CASE Resume(who, "run")
  BY <1>1, <1>2, <1>3, ResumeStep, Zenon
<1>4. CASE Resume(who, "applying")
  BY <1>1, <1>2, <1>4, ResumeStep, Zenon
<1> QED
  BY <1>1, <1>3, <1>4, Zenon

\* The invariant holds at first: at most one row, and no request.
LEMMA ReqInit ==
  ASSUME RequestsInit
  PROVE  ReqInv
<1>1. NoRow \in Row /\ ~NoRow.live
  <2>1. (CHOOSE p \in Port : TRUE) \in Port
    BY PortsDiffer, Zenon
  <2>2. NoRow \in Row
    BY <2>1, Zenon DEF NoRow, Row, Visibility
  <2>3. ~NoRow.live
    BY SMT DEF NoRow
  <2> QED
    BY <2>2, <2>3
<1>2. ASSUME NEW a \in User PROVE NewRow(a) \in Row /\ NewRow(a).used
  <2>1. (CHOOSE p \in Port : TRUE) \in Port
    BY PortsDiffer, Zenon
  <2>2. NewRow(a) \in Row
    BY <2>1, Zenon DEF NewRow, Row, Visibility
  <2>3. NewRow(a).used
    BY SMT DEF NewRow
  <2> QED
    BY <2>2, <2>3
<1>3. /\ rows \in [Uuid -> Row] /\ \A u \in Uuid : rows[u].live => rows[u].used
      /\ shares \subseteq Uuid \X User /\ SharesOfLiveInstances
  <2>1. CASE rows = [u \in Uuid |-> NoRow] /\ shares = {}
    <3>1. rows \in [Uuid -> Row] /\ \A u \in Uuid : rows[u].live => rows[u].used
      BY <1>1, <2>1, Zenon
    <3> QED
      BY <2>1, <3>1, Zenon DEF SharesOfLiveInstances
  <2>2. ASSUME NEW a \in User, NEW v \in Uuid, rows = [[u \in Uuid |-> NoRow] EXCEPT ![v] = NewRow(a)],
               shares \in SUBSET ({v} \X (User \ {a}))
        PROVE  /\ rows \in [Uuid -> Row] /\ \A u \in Uuid : rows[u].live => rows[u].used
               /\ shares \subseteq Uuid \X User /\ SharesOfLiveInstances
    <3>1. PICK none : none = [u \in Uuid |-> NoRow]
      BY Zenon
    <3>2. none \in [Uuid -> Row] /\ \A u \in Uuid : none[u] = NoRow
      BY <1>1, <3>1, Zenon
    <3>3. rows \in [Uuid -> Row] /\ rows[v] = NewRow(a) /\ \A u \in Uuid : u # v => rows[u] = none[u]
      BY <1>2, <2>2, <3>1, <3>2, Zenon
    <3>4. NewRow(a).live /\ NewRow(a).owner = {a}
      BY SMT DEF NewRow
    <3>5. ASSUME NEW s \in shares PROVE s \in Uuid \X User /\ s[1] = v /\ s[2] # a
      BY <2>2, SMT
    <3>6. SharesOfLiveInstances
      BY <3>3, <3>4, <3>5, Zenon DEF SharesOfLiveInstances
    <3>7. \A u \in Uuid : rows[u].live => rows[u].used
      BY <1>1, <1>2, <3>2, <3>3, Zenon
    <3>8. shares \subseteq Uuid \X User
      BY <3>5, SMT
    <3> QED
      BY <3>3, <3>6, <3>7, <3>8
  <2> QED
    BY <2>1, <2>2, Zenon DEF RequestsInit
<1>4. req \in [Slot -> {IdleReq}] /\ \A r \in Slot : req[r] = IdleReq
  BY Zenon DEF RequestsInit
<1>5. IdleReq.stage = "idle"
  BY SMT DEF IdleReq
<1>6. ReqTypes
  BY <1>3, <1>4, Zenon DEF ReqTypes
<1>7. DrawnOK
  BY <1>3, <1>4, <1>5, Zenon DEF DrawnOK, Touches, Makes
<1>8. \A r \in Slot : Allowed(req[r]) /\ Held(r)
  BY <1>4, <1>5, Zenon DEF Allowed, Held
<1> QED
  BY <1>3, <1>6, <1>7, <1>8, Zenon DEF ReqInv

\* Every step keeps the invariant of the requests.
LEMMA ReqStep ==
  ASSUME ReqInv, [RequestsNext]_(requestsVars)
  PROVE  ReqInv'
<1>1. ASSUME NEW r \in Slot, NEW a \in User, NEW u \in Uuid, NEW surface \in {"cli", "api", "page"},
             Ask(r, surface, a, u)
      PROVE  ReqInv'
  BY <1>1, AskStep, Zenon
<1>2. ASSUME NEW r \in Slot, Effect(r) PROVE ReqInv'
  BY <1>2, EffectStep, Zenon
<1>3. ASSUME NEW r \in Slot, Answer(r) PROVE ReqInv'
  <2>1. /\ rows' = rows /\ shares' = shares /\ req' = [req EXCEPT ![r] = IdleReq]
        /\ \A s \in Slot : s \in revoked => s \in revoked' \/ s \in {r}
    BY <1>3, Zenon DEF Answer
  <2>2. req \in [Slot -> {IdleReq} \cup ReqRec]
    BY Zenon DEF ReqInv, ReqTypes
  <2>3. req' = [s \in Slot |-> IF s \in {r} THEN IdleReq ELSE req[s]]
    BY <2>1, <2>2, Zenon
  <2> QED
    BY <2>1, <2>3, EndingStep, Zenon
<1>4. ASSUME NEW r \in Slot, reload_firewall(r) PROVE ReqInv'
  <2>1. req[r].stage = "reload" /\ reload(ProcessOf(req[r].surface), {r})
    BY <1>4, Zenon DEF reload_firewall
  <2>2. {r} \in SUBSET Slot /\ \A s \in {r} : req[s].stage = "reload"
    BY <2>1, Zenon
  <2> QED
    BY <2>1, <2>2, ReloadStep, Zenon
<1>5. CASE converge
  <2>1. reload("serve", {}) /\ {} \in SUBSET Slot /\ \A s \in {} : req[s].stage = "reload"
    BY <1>5, Zenon DEF converge
  <2> QED
    BY <2>1, ReloadStep, Zenon
<1>6. ASSUME NEW p \in Process, apply_ruleset(p) PROVE ReqInv'
  <2>1. PICK who \in SUBSET Slot : who = {r \in Slot : req[r].stage = "applying" /\ ProcessOf(req[r].surface) = p}
    BY Zenon
  <2>2. Resume(who, "run") /\ rows' = rows /\ shares' = shares /\ revoked' = revoked
    BY <1>6, <2>1, Zenon DEF apply_ruleset
  <2>3. \A s \in who : req[s].stage # "idle"
    BY <2>1, Zenon
  <2> QED
    BY <2>2, <2>3, ResumeStep, Zenon
<1>7. ASSUME NEW p \in Process, apply_fails(p) PROVE ReqInv'
  <2>1. PICK gone : gone = {r \in Slot : req[r].stage = "applying" /\ ProcessOf(req[r].surface) = p}
    BY Zenon
  <2>2. req' = [s \in Slot |-> IF s \in gone THEN IdleReq ELSE req[s]]
    BY <1>7, <2>1, Zenon DEF apply_fails
  <2>3. rows' = rows /\ shares' = shares /\ revoked' = revoked
    BY <1>7, Zenon DEF apply_fails
  <2> QED
    BY <2>2, <2>3, EndingStep, Zenon
<1>8. ASSUME NEW p \in Process, Restart(p) PROVE ReqInv'
  <2>1. PICK gone : gone = {r \in Slot : ProcessOf(req[r].surface) = p}
    BY Zenon
  <2>2. req' = [s \in Slot |-> IF s \in gone THEN IdleReq ELSE req[s]]
    BY <1>8, <2>1, Zenon DEF Restart
  <2>3. rows' = rows /\ shares' = shares /\ revoked' = revoked
    BY <1>8, Zenon DEF Restart
  <2> QED
    BY <2>2, <2>3, EndingStep, Zenon
<1>9. CASE UNCHANGED requestsVars
  <2>1. rows' = rows /\ shares' = shares /\ req' = req /\ revoked' = revoked
    BY <1>9, Zenon DEF requestsVars
  <2>2. req \in [Slot -> {IdleReq} \cup ReqRec]
    BY Zenon DEF ReqInv, ReqTypes
  <2> QED
    BY <2>1, <2>2, WaitingStep, Zenon
<1> QED
  BY <1>1, <1>2, <1>3, <1>4, <1>5, <1>6, <1>7, <1>8, <1>9, Zenon DEF RequestsNext

-----------------------------------------------------------------------------
(* The packet filter. *)

\* The text of a table, and the record of a process's Firewall.
Text == SUBSET (Uuid \X SUBSET Port)
FwRec == [stage : {"idle", "apply"}, last : SUBSET Text, text : Text]

\* What a process holds: while it applies, the text of the rows it has seen;
\* at rest, the text it loaded last, which is the table as long as nobody
\* else has loaded another.
FwOK(p) ==
  /\ fw[p].stage = "apply" /\ clean[p] => fw[p].text = Rules(rows)
  /\ fw[p].stage = "idle" /\ clean[p] => fw[p].last = {Rules(rows)}
  /\ applier = {p} => fw[p].last \subseteq {table}

\* The inductive invariant of the packet filter.
FwInv ==
  /\ fw \in [Process -> FwRec] /\ clean \in [Process -> BOOLEAN]
  /\ \A p \in Process : FwOK(p)

\* The rules name known instances and ports.
LEMMA RulesText ==
  ASSUME rows \in [Uuid -> Row]
  PROVE  Rules(rows) \in Text
<1>1. ASSUME NEW x \in Rules(rows) PROVE x \in Uuid \X SUBSET Port
  <2>1. PICK u \in Uuid : x = <<u, IF rows[u].visibility = "off" THEN {} ELSE {rows[u].port}>>
    BY Zenon DEF Rules
  <2>2. rows[u].port \in Port
    BY Zenon DEF Row
  <2>3. (IF rows[u].visibility = "off" THEN {} ELSE {rows[u].port}) \in SUBSET Port
    BY <2>2, Zenon
  <2> QED
    BY <2>1, <2>3, SMT
<1> QED
  BY <1>1, Zenon DEF Text

\* The rules depend only on which rows are live and published, and on which
\* port.
LEMMA SameRules ==
  ASSUME NEW s, NEW t,
         \A u \in Uuid : s[u].live = t[u].live /\ s[u].visibility = t[u].visibility /\ s[u].port = t[u].port
  PROVE  Rules(s) = Rules(t)
<1>1. {v \in Uuid : s[v].live} = {v \in Uuid : t[v].live}
  BY Zenon
<1>2. \A u \in Uuid : <<u, IF s[u].visibility = "off" THEN {} ELSE {s[u].port}>>
                        = <<u, IF t[u].visibility = "off" THEN {} ELSE {t[u].port}>>
  BY Zenon
<1>3. ASSUME NEW x \in Rules(s) PROVE x \in Rules(t)
  <2>1. PICK u \in {v \in Uuid : s[v].live} :
          x = <<u, IF s[u].visibility = "off" THEN {} ELSE {s[u].port}>>
    BY Zenon DEF Rules
  <2>2. x = <<u, IF t[u].visibility = "off" THEN {} ELSE {t[u].port}>>
    BY <1>2, <2>1, Zenon
  <2>3. u \in {v \in Uuid : t[v].live}
    BY <1>1, Zenon
  <2> QED
    BY <2>2, <2>3, Zenon DEF Rules
<1>4. ASSUME NEW x \in Rules(t) PROVE x \in Rules(s)
  <2>1. PICK u \in {v \in Uuid : t[v].live} :
          x = <<u, IF t[u].visibility = "off" THEN {} ELSE {t[u].port}>>
    BY Zenon DEF Rules
  <2>2. x = <<u, IF s[u].visibility = "off" THEN {} ELSE {s[u].port}>>
    BY <1>2, <2>1, Zenon
  <2>3. u \in {v \in Uuid : s[v].live}
    BY <1>1, Zenon
  <2> QED
    BY <2>2, <2>3, Zenon DEF Rules
<1> QED
  BY <1>3, <1>4, Zenon

\* A step away from the Firewall objects keeps what they hold: a change of
\* the rules makes the reading of every process stale.
LEMMA FwKept ==
  ASSUME FwInv, fw' = fw, table' = table, applier' = applier,
         \/ clean' = clean /\ Rules(rows') = Rules(rows)
         \/ clean' = [p \in Process |-> FALSE]
  PROVE  FwInv'
<1>1. fw' \in [Process -> FwRec] /\ clean' \in [Process -> BOOLEAN]
  BY Zenon DEF FwInv
<1>2. ASSUME NEW p \in Process PROVE FwOK(p)'
  <2>1. CASE clean' = clean /\ Rules(rows') = Rules(rows)
    BY <2>1, Zenon DEF FwInv, FwOK
  <2>2. CASE clean' = [q \in Process |-> FALSE]
    <3>1. ~clean'[p]
      BY <2>2, Zenon
    <3> QED
      BY <3>1, Zenon DEF FwInv, FwOK
  <2> QED
    BY <2>1, <2>2
<1> QED
  BY <1>1, <1>2, Zenon DEF FwInv

\* A step of one process's Firewall keeps it, provided that process is in
\* order afterwards and the others' claim to the table is gone if the table
\* changed.
LEMMA FwStep ==
  ASSUME FwInv, NEW p \in Process, NEW n \in FwRec, NEW c \in BOOLEAN, rows' = rows,
         fw' = [fw EXCEPT ![p] = n], clean' = [clean EXCEPT ![p] = c],
         \/ table' = table /\ applier' = applier /\ (applier = {p} => n.last \subseteq {table})
         \/ applier' = {p} /\ n.last \subseteq {table'},
         n.stage = "apply" /\ c => n.text = Rules(rows),
         n.stage = "idle" /\ c => n.last = {Rules(rows)}
  PROVE  FwInv'
<1>1. fw \in [Process -> FwRec] /\ clean \in [Process -> BOOLEAN] /\ \A q \in Process : FwOK(q)
  BY Zenon DEF FwInv
<1>2. /\ fw' \in [Process -> FwRec] /\ clean' \in [Process -> BOOLEAN]
      /\ fw'[p] = n /\ clean'[p] = c
      /\ \A q \in Process : q # p => fw'[q] = fw[q] /\ clean'[q] = clean[q]
  BY <1>1, Zenon
<1>3. FwOK(p)'
  BY <1>2, Zenon DEF FwOK
<1>4. ASSUME NEW q \in Process, q # p PROVE FwOK(q)'
  <2>1. applier' = {q} => table' = table /\ applier' = applier
    BY <1>4, Zenon
  <2> QED
    BY <1>1, <1>2, <1>4, <2>1, Zenon DEF FwOK
<1> QED
  BY <1>2, <1>3, <1>4, Zenon DEF FwInv

\* Firewall.reload keeps it: the text that was loaded last is skipped, any
\* other waits for nft.
LEMMA FwReload ==
  ASSUME FwInv, rows \in [Uuid -> Row], NEW p \in Process, NEW who, reload(p, who)
  PROVE  FwInv'
<1>1. fw \in [Process -> FwRec] /\ FwOK(p)
  BY Zenon DEF FwInv
<1>2. PICK text : text = Rules(rows)
  OBVIOUS
<1>3. text \in Text
  BY <1>2, RulesText, Zenon
<1>4. /\ fw[p].stage = "idle" /\ clean' = [clean EXCEPT ![p] = TRUE] /\ rows' = rows
      /\ table' = table /\ applier' = applier
  BY Zenon DEF reload
<1>5. CASE fw[p].last = {text}
  <2>1. fw' = fw
    BY <1>2, <1>5, Zenon DEF reload
  <2>2. fw' = [fw EXCEPT ![p] = fw[p]] /\ fw[p] \in FwRec
    BY <1>1, <2>1, Zenon
  <2>3. applier = {p} => fw[p].last \subseteq {table}
    BY <1>1, Zenon DEF FwOK
  <2>4. fw[p].stage # "apply"
    BY <1>4, Zenon
  <2> QED
    BY <1>2, <1>4, <1>5, <2>2, <2>3, <2>4, FwStep, Zenon
<1>6. CASE fw[p].last # {text}
  <2>1. PICK n : n = [stage |-> "apply", last |-> fw[p].last, text |-> text]
    BY Zenon
  <2>2. n.stage = "apply" /\ n.last = fw[p].last /\ n.text = text
    BY <2>1, SMT
  <2>3. fw[p].last \in SUBSET Text
    BY <1>1, Zenon DEF FwRec
  <2>4. n \in FwRec
    BY <1>3, <2>1, <2>3, Zenon DEF FwRec
  <2>5. fw' = [fw EXCEPT ![p] = n]
    BY <1>2, <1>6, <2>1, Zenon DEF reload, reload_changed
  <2>6. applier = {p} => n.last \subseteq {table}
    BY <1>1, <2>2, Zenon DEF FwOK
  <2>7. n.stage # "idle"
    BY <2>2, Zenon
  <2> QED
    BY <1>2, <1>4, <2>2, <2>4, <2>5, <2>6, <2>7, FwStep, Zenon
<1> QED
  BY <1>5, <1>6

\* The end of Firewall.apply keeps it: nft has loaded the text.
LEMMA FwApply ==
  ASSUME FwInv, NEW p \in Process, apply_ruleset(p)
  PROVE  FwInv'
<1>1. fw \in [Process -> FwRec] /\ clean \in [Process -> BOOLEAN] /\ FwOK(p)
  BY Zenon DEF FwInv
<1>2. PICK n : n = [fw[p] EXCEPT !.stage = "idle", !.last = {fw[p].text}]
  OBVIOUS
<1>3. fw[p] \in FwRec /\ fw[p].text \in Text
  BY <1>1, Zenon DEF FwRec
<1>4. n.stage = "idle" /\ n.last = {fw[p].text}
  BY <1>2, <1>3, SMT DEF FwRec
<1>5. n \in FwRec
  BY <1>2, <1>3, Zenon DEF FwRec
<1>6. fw' = [fw EXCEPT ![p].stage = "idle", ![p].last = {fw[p].text}]
  BY Zenon DEF apply_ruleset
<1>7. fw' = [fw EXCEPT ![p] = n]
  BY <1>1, <1>2, <1>6, Zenon
<1>8. /\ fw[p].stage = "apply" /\ table' = fw[p].text /\ applier' = {p}
      /\ rows' = rows /\ clean' = clean
  BY Zenon DEF apply_ruleset
<1>9. clean' = [clean EXCEPT ![p] = clean[p]] /\ clean[p] \in BOOLEAN
  BY <1>1, <1>8, Zenon
<1>10. clean[p] => n.last = {Rules(rows)}
  BY <1>1, <1>4, <1>8, Zenon DEF FwOK
<1>11. n.last \subseteq {table'} /\ n.stage # "apply"
  BY <1>4, <1>8, Zenon
<1> QED
  BY <1>5, <1>7, <1>8, <1>9, <1>10, <1>11, FwStep, Zenon

\* A failed apply and a restart keep it: the process holds no current text.
LEMMA FwDrops ==
  ASSUME FwInv, NEW p \in Process, apply_fails(p) \/ Restart(p)
  PROVE  FwInv'
<1>1. fw \in [Process -> FwRec] /\ FwOK(p)
  BY Zenon DEF FwInv
<1>2. /\ clean' = [clean EXCEPT ![p] = FALSE] /\ rows' = rows
      /\ table' = table /\ applier' = applier
  BY Zenon DEF apply_fails, Restart
<1>3. CASE apply_fails(p)
  <2>1. PICK n : n = [fw[p] EXCEPT !.stage = "idle"]
    BY Zenon
  <2>2. fw[p] \in FwRec
    BY <1>1, Zenon
  <2>3. n.last = fw[p].last
    BY <2>1, <2>2, SMT DEF FwRec
  <2>4. n \in FwRec
    BY <2>1, <2>2, Zenon DEF FwRec
  <2>5. fw' = [fw EXCEPT ![p] = n]
    BY <1>3, <2>1, Zenon DEF apply_fails
  <2>6. applier = {p} => n.last \subseteq {table}
    BY <1>1, <2>3, Zenon DEF FwOK
  <2> QED
    BY <1>2, <2>4, <2>5, <2>6, FwStep, Zenon
<1>4. CASE Restart(p)
  <2>1. PICK n : n = [stage |-> "idle", last |-> {}, text |-> {}]
    BY Zenon
  <2>2. n.last = {}
    BY <2>1, SMT
  <2>3. n \in FwRec
    BY <2>1, Zenon DEF FwRec, Text
  <2>4. fw' = [fw EXCEPT ![p] = n]
    BY <1>4, <2>1, Zenon DEF Restart
  <2>5. n.last \subseteq {table}
    BY <2>2, Zenon
  <2> QED
    BY <1>2, <2>3, <2>4, <2>5, FwStep, Zenon
<1> QED
  BY <1>3, <1>4

\* Every step keeps what the Firewall objects hold.
LEMMA FwNext ==
  ASSUME ReqInv, FwInv, [RequestsNext]_(requestsVars)
  PROVE  FwInv'
<1>0. ReqTypes /\ rows \in [Uuid -> Row] /\ req \in [Slot -> {IdleReq} \cup ReqRec]
  BY Zenon DEF ReqInv, ReqTypes
<1>1. ASSUME NEW r \in Slot, NEW a \in User, NEW u \in Uuid, NEW surface \in {"cli", "api", "page"},
             Ask(r, surface, a, u)
      PROVE  FwInv'
  <2>1. PICK F : rows' = [x \in Uuid |-> [rows[x] EXCEPT !.used = @ \/ x \in F]]
    BY <1>1, Zenon DEF Ask
  <2>2. Rules(rows') = Rules(rows)
    <3>1. \A x \in Uuid : /\ rows'[x].live = rows[x].live
                          /\ rows'[x].visibility = rows[x].visibility /\ rows'[x].port = rows[x].port
      BY <1>0, <2>1, AskRows, Zenon
    <3> QED
      BY <3>1, SameRules
  <2>3. fw' = fw /\ table' = table /\ applier' = applier /\ clean' = clean
    BY <1>1, Zenon DEF Ask
  <2> QED
    BY <2>2, <2>3, FwKept, Zenon
<1>2. ASSUME NEW r \in Slot, Effect(r) PROVE FwInv'
  <2>1. fw' = fw /\ table' = table /\ applier' = applier
    BY <1>2, Zenon DEF Effect
  <2>2. Dirty
    BY <1>2, Zenon DEF Effect
  <2>3. \/ clean' = clean /\ Rules(rows') = Rules(rows)
        \/ clean' = [p \in Process |-> FALSE]
    BY <2>2, Zenon DEF Dirty
  <2> QED
    BY <2>1, <2>3, FwKept, Zenon
<1>3. ASSUME NEW r \in Slot, Answer(r) PROVE FwInv'
  <2>1. fw' = fw /\ table' = table /\ applier' = applier /\ clean' = clean /\ rows' = rows
    BY <1>3, Zenon DEF Answer
  <2>2. Rules(rows') = Rules(rows)
    BY <2>1, Zenon
  <2> QED
    BY <2>1, <2>2, FwKept, Zenon
<1>4. ASSUME NEW r \in Slot, reload_firewall(r) PROVE FwInv'
  <2>1. reload(ProcessOf(req[r].surface), {r})
    BY <1>4, Zenon DEF reload_firewall
  <2>2. ProcessOf(req[r].surface) \in Process
    BY Zenon DEF ProcessOf, Process
  <2> QED
    BY <1>0, <2>1, <2>2, FwReload, Zenon
<1>5. CASE converge
  <2>1. reload("serve", {}) /\ "serve" \in Process
    BY <1>5, Zenon DEF converge, Process
  <2> QED
    BY <1>0, <2>1, FwReload, Zenon
<1>6. ASSUME NEW p \in Process, apply_ruleset(p) PROVE FwInv'
  BY <1>6, FwApply, Zenon
<1>7. ASSUME NEW p \in Process, apply_fails(p) \/ Restart(p) PROVE FwInv'
  BY <1>7, FwDrops, Zenon
<1>8. CASE UNCHANGED requestsVars
  <2>1. fw' = fw /\ table' = table /\ applier' = applier /\ clean' = clean /\ rows' = rows
    BY <1>8, Zenon DEF requestsVars
  <2>2. Rules(rows') = Rules(rows)
    BY <2>1, Zenon
  <2> QED
    BY <2>1, <2>2, FwKept, Zenon
<1> QED
  BY <1>1, <1>2, <1>3, <1>4, <1>5, <1>6, <1>7, <1>8, Zenon DEF RequestsNext

\* At first no process holds a text.
LEMMA FwInit ==
  ASSUME RequestsInit
  PROVE  FwInv
<1>1. PICK n : n = [stage |-> "idle", last |-> {}, text |-> {}]
  BY Zenon
<1>2. n.last = {}
  BY <1>1, SMT
<1>3. n \in FwRec
  BY <1>1, Zenon DEF FwRec, Text
<1>4. fw = [p \in Process |-> n] /\ clean = [p \in Process |-> FALSE]
  BY <1>1, Zenon DEF RequestsInit
<1>5. ASSUME NEW p \in Process PROVE fw[p].last = {} /\ ~clean[p]
  BY <1>2, <1>4, Zenon
<1>6. fw \in [Process -> FwRec] /\ clean \in [Process -> BOOLEAN]
  BY <1>3, <1>4, Zenon
<1> QED
  BY <1>5, <1>6, Zenon DEF FwInv, FwOK

-----------------------------------------------------------------------------
(* One policy on three surfaces. *)

\* The owner's operations that a user has on a row: all of them for the
\* owner, sharing only when there is somebody to share with.
Owned(a, u) ==
  {op \in OwnerOps : IsOwner(a, u) /\ (op = "share" => User \ {a} # {})}

\* An operation is offered by some plan that calls it,
LEMMA OfferedBy ==
  ASSUME NEW surface, NEW a, NEW u, NEW op \in OpsOf(surface, a, u)
  PROVE  \E plan \in Plans(surface, a, u) : \E e \in ToSet(plan) : e.op = op
  BY Zenon DEF OpsOf, ToSet

\* and whatever a plan calls is offered.
LEMMA Offers ==
  ASSUME NEW surface, NEW a, NEW u, NEW plan \in Plans(surface, a, u), NEW e \in ToSet(plan)
  PROVE  e.op \in OpsOf(surface, a, u)
<1>1. PICK i \in DOMAIN plan : e = plan[i]
  BY Zenon DEF ToSet
<1>2. e.op \in {plan[j].op : j \in DOMAIN plan}
  BY <1>1, Zenon
<1> QED
  BY <1>2, Zenon DEF OpsOf

\* No surface offers more.
LEMMA OffersNoMore ==
  ASSUME ReqInv, NEW surface \in {"cli", "api", "page"}, NEW a \in User, NEW u \in Uuid, rows[u].live
  PROVE  OpsOf(surface, a, u) \cap OwnerOps \subseteq Owned(a, u)
<1> SUFFICES ASSUME NEW op \in OpsOf(surface, a, u), op \in OwnerOps
             PROVE  op \in Owned(a, u)
  BY Zenon
<1>1. PICK plan \in Plans(surface, a, u) : \E e \in ToSet(plan) : e.op = op
  BY OfferedBy, SMT
<1>2. PICK e \in ToSet(plan) : e.op = op
  BY <1>1
<1>3. Fine(surface, a, u, plan)
  BY <1>1, PlansFine, Zenon DEF ReqInv
<1>4. u \notin Unused
  BY Zenon DEF ReqInv, DrawnOK, Unused
<1>5. Entitled(surface, a, u, e) /\ (op = "share" => e.val # a)
  <2>1. \A d \in ToSet(plan) : /\ d.op = "share" => d.val # a
                               /\ u \in Unused \/ Entitled(surface, a, u, d)
    BY <1>3, Zenon DEF Fine
  <2> QED
    BY <1>2, <1>4, <2>1, Zenon
<1>6. e \in Eff
  <2>1. plan \in Seq(Eff)
    BY <1>3, Zenon DEF Fine
  <2> QED
    BY <1>2, <2>1, SMT DEF ToSet
<1>7. op = "share" => e.val \in User
  BY <1>2, <1>6, SMT DEF Eff
<1>8. IsOwner(a, u)
  BY <1>2, <1>5, Zenon DEF Entitled, IsOwner
<1> QED
  BY <1>5, <1>7, <1>8, Zenon DEF Owned

\* A plan of one call offers it.
LEMMA OffersCall ==
  ASSUME NEW surface, NEW a, NEW u, NEW op, NEW val, <<E(op, val)>> \in Plans(surface, a, u)
  PROVE  op \in OpsOf(surface, a, u)
<1>1. PICK e : e = E(op, val)
  OBVIOUS
<1>2. e.op = op
  BY <1>1, SMT DEF E
<1>3. ToSet(<<e>>) = {e}
  BY OneCall, Zenon
<1> QED
  BY <1>1, <1>2, <1>3, Offers, Zenon

\* The command line offers the owner all of it.
LEMMA CliOffers ==
  ASSUME ReqInv, NEW a \in User, NEW u \in Uuid
  PROVE  Owned(a, u) \subseteq OpsOf("cli", a, u)
<1> SUFFICES ASSUME NEW op \in Owned(a, u) PROVE op \in OpsOf("cli", a, u)
  BY Zenon
<1>1. resolve_owned(a, u) /\ op \in OwnerOps /\ (op = "share" => User \ {a} # {})
  BY Zenon DEF Owned, IsOwner, resolve_owned, resolve, has_access
<1>2. rows[u].port \in Port /\ rows[u].visibility \in Visibility
  BY Zenon DEF ReqInv, ReqTypes, Row
<1>3. \E val : <<E(op, val)>> \in CliPlans(a, u)
  <2>1. CASE op = "remove"
    BY <1>1, <2>1, Zenon DEF CliPlans, rm, Given
  <2>2. CASE op = "rename"
    BY <1>1, <2>2, Zenon DEF CliPlans, rename, Given
  <2>3. CASE op = "resize"
    BY <1>1, <2>3, Zenon DEF CliPlans, resize, Given
  <2>4. CASE op = "port"
    BY <1>1, <1>2, <2>4, Zenon DEF CliPlans, port, Given
  <2>5. CASE op = "visibility"
    BY <1>1, <1>2, <2>5, Zenon DEF CliPlans, visibility, Given
  <2>6. CASE op = "share"
    BY <1>1, <2>6, Zenon DEF CliPlans, share, Given
  <2>7. CASE op = "unshare"
    BY <1>1, <2>7, Zenon DEF CliPlans, share, Given
  <2> QED
    BY <1>1, <2>1, <2>2, <2>3, <2>4, <2>5, <2>6, <2>7, Zenon DEF OwnerOps
<1>4. \E val : <<E(op, val)>> \in Plans("cli", a, u)
  BY <1>3, Zenon DEF Plans
<1> QED
  BY <1>4, OffersCall, Zenon

\* So does the API.
LEMMA ApiOffers ==
  ASSUME ReqInv, NEW a \in User, NEW u \in Uuid
  PROVE  Owned(a, u) \subseteq OpsOf("api", a, u)
<1> SUFFICES ASSUME NEW op \in Owned(a, u) PROVE op \in OpsOf("api", a, u)
  BY Zenon
<1>1. owned_instance(a, u) /\ op \in OwnerOps /\ (op = "share" => User \ {a} # {})
  BY Zenon DEF Owned, IsOwner, owned_instance
<1>2. rows[u].port \in Port /\ rows[u].visibility \in Visibility
  BY Zenon DEF ReqInv, ReqTypes, Row
<1>3. \E val : <<E(op, val)>> \in ApiPlans(a, u)
  <2>1. CASE op = "remove"
    BY <1>1, <2>1, Zenon DEF ApiPlans, delete_instance, Given
  <2>2. CASE op = "rename"
    BY <1>1, <2>2, Zenon DEF ApiPlans, rename_instance, Given
  <2>3. CASE op = "resize"
    BY <1>1, <2>3, Zenon DEF ApiPlans, resize_instance, Given
  <2>4. CASE op = "port"
    BY <1>1, <1>2, <2>4, Zenon DEF ApiPlans, set_port, Given
  <2>5. CASE op = "visibility"
    BY <1>1, <1>2, <2>5, Zenon DEF ApiPlans, set_visibility, Given
  <2>6. CASE op = "share"
    BY <1>1, <2>6, Zenon DEF ApiPlans, api_add_share, Given
  <2>7. CASE op = "unshare"
    BY <1>1, <2>7, Zenon DEF ApiPlans, api_remove_share, Given
  <2> QED
    BY <1>1, <2>1, <2>2, <2>3, <2>4, <2>5, <2>6, <2>7, Zenon DEF OwnerOps
<1>4. \E val : <<E(op, val)>> \in Plans("api", a, u)
  BY <1>3, Zenon DEF Plans
<1> QED
  BY <1>4, OffersCall, Zenon

\* A call that the settings form plans for is offered by the pages.
LEMMA FormOffers ==
  ASSUME ReqInv, NEW a \in User, NEW u \in Uuid, owned(a, u), NEW form \in SettingsForm,
         NEW op, NEW val, E(op, val) \in ToSet(SettingsPlan(u, form))
  PROVE  op \in OpsOf("page", a, u)
<1>1. SettingsPlan(u, form) \in Plans("page", a, u)
  BY Zenon DEF Plans, PagePlans, save_settings, Given
<1>2. E(op, val).op = op
  BY SMT DEF E
<1> QED
  <2>1. E(op, val).op \in OpsOf("page", a, u)
    BY <1>1, Offers, Zenon
  <2> QED
    BY <1>2, <2>1, Zenon

\* The pages too; a new port needs a second one to choose.
LEMMA PageOffers ==
  ASSUME ReqInv, NEW a \in User, NEW u \in Uuid
  PROVE  Owned(a, u) \subseteq OpsOf("page", a, u)
<1> SUFFICES ASSUME NEW op \in Owned(a, u) PROVE op \in OpsOf("page", a, u)
  BY Zenon
<1>1. owned(a, u) /\ op \in OwnerOps /\ (op = "share" => User \ {a} # {})
  BY Zenon DEF Owned, IsOwner, owned, can_read_instance
<1>2. rows[u] \in Row /\ rows[u].port \in Port /\ rows[u].visibility \in Visibility
  BY Zenon DEF ReqInv, ReqTypes, Row
<1>3. PICK p \in Port : p # rows[u].port
  BY PortsDiffer, Zenon
<1>4. PICK b \in BOOLEAN : SwitchedTo(rows[u].visibility, b) # rows[u].visibility
  <2>1. CASE rows[u].visibility = "public"
    <3>1. SwitchedTo(rows[u].visibility, FALSE) = "private"
      BY <2>1, Zenon DEF SwitchedTo
    <3> QED
      BY <2>1, <3>1, Zenon
  <2>2. CASE rows[u].visibility # "public"
    <3>1. SwitchedTo(rows[u].visibility, TRUE) = "public"
      BY Zenon DEF SwitchedTo
    <3> QED
      BY <2>2, <3>1, Zenon
  <2> QED
    BY <2>1, <2>2
<1>5. PICK form : form = [port |-> p, public |-> b, resized |-> TRUE, named |-> TRUE]
  BY Zenon
<1>6. form \in SettingsForm
  BY <1>5, Zenon DEF SettingsForm
<1>7. form.port = p /\ form.public = b /\ form.resized /\ form.named
  BY <1>5, SMT
<1>8. /\ E("resize", NoValue) \in ToSet(SettingsPlan(u, form))
      /\ E("port", form.port) \in ToSet(SettingsPlan(u, form))
      /\ E("visibility", SwitchedTo(rows[u].visibility, form.public)) \in ToSet(SettingsPlan(u, form))
      /\ E("rename", NoValue) \in ToSet(SettingsPlan(u, form))
  <2>1. ToSet(SettingsPlan(u, form)) =
              (IF form.resized THEN {E("resize", NoValue)} ELSE {})
                \cup (IF form.port # rows[u].port THEN {E("port", form.port)} ELSE {})
                \cup (IF SwitchedTo(rows[u].visibility, form.public) # rows[u].visibility
                      THEN {E("visibility", SwitchedTo(rows[u].visibility, form.public))} ELSE {})
                \cup (IF form.named THEN {E("rename", NoValue)} ELSE {})
    BY <1>2, <1>6, SettingShape, Zenon
  <2>2. form.port # rows[u].port /\ SwitchedTo(rows[u].visibility, form.public) # rows[u].visibility
    BY <1>3, <1>4, <1>7, Zenon
  <2> QED
    BY <1>7, <2>1, <2>2, Zenon
<1>9. CASE op \in {"resize", "port", "visibility", "rename"}
  BY <1>1, <1>6, <1>8, <1>9, FormOffers, Zenon
<1>10. CASE op \in {"share", "unshare", "remove"}
  <2>1. \E val : <<E(op, val)>> \in PagePlans(a, u)
    <3>1. CASE op = "remove"
      BY <1>1, <3>1, Zenon DEF PagePlans, delete, Given
    <3>2. CASE op = "share"
      BY <1>1, <3>2, Zenon DEF PagePlans, page_add_share, Given
    <3>3. CASE op = "unshare"
      BY <1>1, <3>3, Zenon DEF PagePlans, page_remove_share, Given
    <3> QED
      BY <1>10, <3>1, <3>2, <3>3, Zenon
  <2>2. \E val : <<E(op, val)>> \in Plans("page", a, u)
    BY <2>1, Zenon DEF Plans
  <2> QED
    BY <2>2, OffersCall, Zenon
<1> QED
  BY <1>1, <1>9, <1>10, Zenon DEF OwnerOps

\* Whoever is offered something on a row sees it listed.
LEMMA Listed ==
  ASSUME ReqInv, NEW surface \in {"cli", "api", "page"}, NEW a \in User, NEW u \in Uuid, rows[u].live,
         NEW op \in OpsOf(surface, a, u)
  PROVE  u \in ls(a)
<1>1. PICK plan \in Plans(surface, a, u) : \E e \in ToSet(plan) : e.op = op
  BY OfferedBy, SMT
<1>2. Fine(surface, a, u, plan)
  BY PlansFine, Zenon DEF ReqInv
<1>3. u \notin Unused
  BY Zenon DEF ReqInv, DrawnOK, Unused
<1>4. has_access(a, u)
  BY <1>2, <1>3, Zenon DEF Fine
<1> QED
  BY <1>4, Zenon DEF has_access, ls, instances_by_owner, instances_shared_with, IsOwner

\* The invariant, and the handlers' own checks, give the one policy.
LEMMA OnePolicy ==
  ASSUME ReqInv
  PROVE  SurfacesAgree
<1>1. ASSUME NEW r \in Slot, NEW i \in DOMAIN req[r].plan,
             req[r].stage # "idle", rows[req[r].uuid].live, rows[req[r].uuid].owner # {req[r].user}
      PROVE  /\ req[r].surface = "cli" /\ req[r].plan[i].op \in SharedOps
             /\ <<req[r].uuid, req[r].user>> \in shares \/ r \in revoked
  <2>1. Allowed(req[r]) /\ Held(r) /\ ReqTypes /\ DrawnOK
    BY Zenon DEF ReqInv
  <2>2. req[r] \in ReqRec /\ req[r].plan \in Seq(Eff)
    BY <1>1, <2>1, ReqFields, Zenon
  <2>3. PICK e : e = req[r].plan[i]
    OBVIOUS
  <2>4. e \in Eff
    BY <1>1, <2>2, <2>3, SMT
  <2>5. e.op \notin OwnerOps /\ req[r].surface = "cli"
    BY <1>1, <2>1, <2>3, Zenon DEF Allowed
  <2>6. e.op # "create"
    <3>1. req[r].uuid \in Uuid
      BY <2>2, Zenon DEF ReqRec
    <3>2. ~Makes(req[r], req[r].uuid)
      BY <1>1, <2>1, <3>1, Zenon DEF DrawnOK
    <3> QED
      BY <1>1, <2>3, <3>2, Zenon DEF Makes
  <2>7. e.op \in SharedOps
    <3>1. e.op \in {"create", "remove", "start", "stop", "restart", "rename", "resize", "copy", "port",
                     "visibility", "share", "unshare"}
      BY <2>4, SMT DEF Eff
    <3> QED
      BY <2>5, <2>6, <3>1, Zenon DEF OwnerOps, SharedOps
  <2> QED
    BY <1>1, <2>1, <2>3, <2>5, <2>7, Zenon DEF Held
<1>2. ASSUME NEW a \in User
      PROVE  ls(a) = list_instances(a) /\ ls(a) = visible_instances(a)
  BY Zenon DEF ls, list_instances, visible_instances
<1>3. ASSUME NEW a \in User, NEW u \in Uuid, rows[u].live
      PROVE  /\ OpsOf("cli", a, u) \cap OwnerOps = OpsOf("api", a, u) \cap OwnerOps
             /\ OpsOf("page", a, u) \cap OwnerOps = OpsOf("api", a, u) \cap OwnerOps
             /\ OpsOf("cli", a, u) # {} => u \in ls(a)
  <2>1. /\ OpsOf("cli", a, u) \cap OwnerOps \subseteq Owned(a, u)
        /\ OpsOf("api", a, u) \cap OwnerOps \subseteq Owned(a, u)
        /\ OpsOf("page", a, u) \cap OwnerOps \subseteq Owned(a, u)
    BY <1>3, OffersNoMore, Zenon
  <2>2. /\ Owned(a, u) \subseteq OpsOf("cli", a, u)
        /\ Owned(a, u) \subseteq OpsOf("api", a, u)
        /\ Owned(a, u) \subseteq OpsOf("page", a, u)
    BY CliOffers, ApiOffers, PageOffers, Zenon
  <2>3. Owned(a, u) \subseteq OwnerOps
    BY Zenon DEF Owned
  <2>4. ASSUME NEW op \in OpsOf("cli", a, u) PROVE u \in ls(a)
    BY <1>3, <2>4, Listed, Zenon
  <2> QED
    BY <2>1, <2>2, <2>3, <2>4, Zenon
<1> QED
  BY <1>1, <1>2, <1>3, Zenon DEF SurfacesAgree

-----------------------------------------------------------------------------
\* Command line, API and pages enforce one policy on the same tables, for any
\* number of requests interleaved call by call: a call left in a plan on a
\* live instance is its owner's, or one that the command line lets a share
\* make, of a share that is there or was taken back while the request was
\* under way; and at rest the three list the same instances to a user and
\* offer the same owner's operations on each (resolve_owned, owned_instance,
\* owned; ls, list_instances, visible_instances).
THEOREM OnePolicyOnEverySurface ==
  RequestsSpec => []SurfacesAgree
<1>1. RequestsInit => ReqInv
  BY ReqInit
<1>2. ReqInv /\ [RequestsNext]_(requestsVars) => ReqInv'
  BY ReqStep
<1>3. ReqInv => SurfacesAgree
  BY OnePolicy
<1> QED
  BY <1>1, <1>2, <1>3, PTL DEF RequestsSpec

\* A share names a live instance and a user other than its owner, whatever
\* calls of other requests ran between a share's check and its insert
\* (shares.rs).
THEOREM SharesFollowInstances ==
  RequestsSpec => []SharesOfLiveInstances
<1>1. RequestsInit => ReqInv
  BY ReqInit
<1>2. ReqInv /\ [RequestsNext]_(requestsVars) => ReqInv'
  BY ReqStep
<1>3. ReqInv => SharesOfLiveInstances
  BY DEF ReqInv
<1> QED
  BY <1>1, <1>2, <1>3, PTL DEF RequestsSpec

\* A process that loaded the packet filter last, and has reloaded since the
\* rows last changed, has loaded the table that the rows call for, although
\* it skips a reload whose text it loaded before (firewall.rs
\* Firewall.reload).
THEOREM TableOfItsOwn ==
  RequestsSpec => []OwnTableCurrent
<1>1. RequestsInit => ReqInv /\ FwInv
  BY ReqInit, FwInit
<1>2. ReqInv /\ FwInv /\ [RequestsNext]_(requestsVars) => ReqInv' /\ FwInv'
  BY ReqStep, FwNext
<1>3. FwInv => OwnTableCurrent
  <2> SUFFICES ASSUME FwInv, NEW p \in Process, fw[p].stage = "idle", clean[p], applier = {p}
               PROVE  table = Rules(rows)
    BY Zenon DEF OwnTableCurrent
  <2>1. fw[p].last = {Rules(rows)} /\ fw[p].last \subseteq {table}
    BY Zenon DEF FwInv, FwOK
  <2> QED
    BY <2>1, Zenon
<1> QED
  BY <1>1, <1>2, <1>3, PTL DEF RequestsSpec
-----------------------------------------------------------------------------
(***************************************************************************)
(* The table of one machine.  The first rule that matches decides, so a    *)
(* verdict of a chain is settled by what each of its rules matches, and    *)
(* the policy follows from where the addresses of guests and machines lie. *)
(***************************************************************************)

\* The first rule that matches decides, and the policy where none does.
LEMMA FirstDecides ==
  ASSUME NEW c, NEW pol, NEW p, Len(c) \in Nat
  PROVE  /\ (\A i \in 1..Len(c) : ~Matches(c[i], p)) => Verdict(c, pol, p) = pol
         /\ \A i \in 1..Len(c) :
              Matches(c[i], p) /\ (\A j \in 1..Len(c) : j < i => ~Matches(c[j], p))
                => Verdict(c, pol, p) = c[i].verdict
<1> DEFINE hits == {i \in 1..Len(c) : Matches(c[i], p)}
<1>1. Verdict(c, pol, p) = IF hits = {} THEN pol ELSE c[Min(hits)].verdict
  BY Zenon DEF Verdict
<1>2. ASSUME \A i \in 1..Len(c) : ~Matches(c[i], p)
      PROVE  Verdict(c, pol, p) = pol
  BY <1>1, <1>2, Zenon
<1>3. ASSUME NEW i \in 1..Len(c), Matches(c[i], p), \A j \in 1..Len(c) : j < i => ~Matches(c[j], p)
      PROVE  Verdict(c, pol, p) = c[i].verdict
  <2>1. i \in hits /\ (\A j \in hits : i <= j) /\ \A j \in hits : j \in Nat
    BY <1>3, SMT
  <2> HIDE DEF hits
  <2>2. Min(hits) \in hits /\ \A j \in hits : Min(hits) <= j
    BY <2>1, Zenon DEF Min
  <2> DEFINE k == Min(hits)
  <2>3. k \in Nat /\ i <= k /\ k <= i
    BY <2>1, <2>2, Zenon
  <2> HIDE DEF k
  <2>4. k = i
    BY <2>3, SMT
  <2> QED
    BY <1>1, <2>1, <2>4, Zenon DEF k
<1> QED
  BY <1>2, <1>3, Zenon

\* A rule has its verdict, and matches what fits one of its patterns.
LEMMA RuleFits ==
  ASSUME NEW v, NEW P, NEW p
  PROVE  Rule(v, P).verdict = v /\ (Matches(Rule(v, P), p) <=> \E q \in P : Fits(q, p))
  BY SMT DEF Matches, Rule

\* A packet fits a pattern field by field.
LEMMA PatternFits ==
  ASSUME NEW iif, NEW oif, NEW src, NEW dst, NEW kind, NEW p
  PROVE  Fits(Pattern(iif, oif, src, dst, kind), p) <=>
           p.iif \in iif /\ p.oif \in oif /\ p.src \in src /\ p.dst \in dst /\ p.kind \in kind
  BY SMT DEF Fits, Pattern

-----------------------------------------------------------------------------
(* What each rule matches. *)

Facts == facts \in Rows

\* The parts of a description are addresses.
LEMMA Parts ==
  ASSUME Facts
  PROVE  /\ Guest \subseteq Address /\ management \subseteq Address /\ frontends \subseteq Address
         /\ remote_slots \subseteq RunnerSlot /\ instances \subseteq Guest
         /\ \A u \in FwUser : /\ local_prefixes(u) \subseteq Address /\ remote_prefixes(u) \subseteq Address
                              /\ {u} \X RunnerSlot \subseteq Address
         /\ \A g : PortsOf(g) \subseteq PacketKind
         /\ \A g \in instances : g[1] \in FwUser /\ g \in Address
<1>1. Guest \subseteq Address
  BY Zenon DEF Address
<1>2. management \subseteq Address
  <2>1. facts.underlay \subseteq Host /\ facts.endpoint \subseteq Host
    BY SMT DEF Facts, Rows
  <2> QED
    BY <2>1, Zenon DEF management, Address
<1>3. frontends \subseteq Address
  <2>1. facts.underlay \subseteq Host
    BY SMT DEF Facts, Rows
  <2> QED
    BY <2>1, Zenon DEF frontends, Address
<1>4. remote_slots \subseteq RunnerSlot /\ instances \subseteq Guest
  BY Zenon DEF remote_slots, instances
<1>5. ASSUME NEW u \in FwUser
      PROVE  /\ local_prefixes(u) \subseteq Address /\ remote_prefixes(u) \subseteq Address
             /\ {u} \X RunnerSlot \subseteq Address
  <2>1. {u} \X RunnerSlot \subseteq Guest
    BY SMT DEF Guest
  <2>2. local_prefixes(u) \subseteq Guest /\ remote_prefixes(u) \subseteq Guest
    BY <1>4, SMT DEF Guest, local_prefixes, remote_prefixes
  <2> QED
    BY <1>1, <2>1, <2>2, Zenon
<1>6. \A g : PortsOf(g) \subseteq PacketKind
  BY SMT DEF PortsOf, PacketKind
<1>7. \A g \in instances : g[1] \in FwUser /\ g \in Address
  BY <1>1, <1>4, SMT DEF Guest
<1> QED
  BY <1>1, <1>2, <1>3, <1>4, <1>5, <1>6, <1>7, Zenon

\* A packet on its way through the machine.
OnTheWay(p) ==
  p.iif \in Iface /\ p.oif \in Iface /\ p.src \in Address /\ p.dst \in Address /\ p.kind \in PacketKind

\* The interfaces are the bridges of the users and the wire, all different.
LEMMA Ifaces ==
  /\ Wire \in Iface /\ Wire \notin FwUser /\ FwUser \subseteq Iface
  /\ \A u \in FwUser : u \in Iface /\ {u} \in SUBSET Iface /\ FwUser \ {u} \in SUBSET Iface
  BY FirewallAssumption, SMT DEF Iface, Wire

\* Rule 9: a guest uses an address this machine does not hold for its user.
\* Guarded: a packet of a guest that rules 9, 10 and 3 drop.
Guarded(p) ==
  \/ \E u \in FwUser : p.iif \in {u} /\ p.src \in Address \ local_prefixes(u)
  \/ \E u \in FwUser : p.iif \in {u} /\ p.dst \in management
  \/ \E u \in FwUser : p.iif \in {u} /\ p.oif \in FwUser \ {u}

\* FromFar: a packet rule 6 admits.
FromFar(p) ==
  \E u \in FwUser : /\ p.iif \in {Wire} /\ p.oif \in {u}
                     /\ p.src \in remote_prefixes(u) /\ p.dst \in local_prefixes(u)

\* FromDoor: a packet rule 7 admits.
FromDoor(p) ==
  \E g \in instances : p.oif \in {g[1]} /\ p.src \in frontends /\ p.dst \in {g} /\ p.kind \in PortsOf(g)

\* Leaves: a packet of a guest that rules 4, 2b and 2 let out.
Leaves(p) ==
  \/ \E u \in FwUser : p.iif \in {u} /\ p.oif \in {u}
  \/ remote_slots # {} /\ \E u \in FwUser : p.iif \in {u} /\ p.dst \in {u} \X RunnerSlot
  \/ \E u \in FwUser : p.iif \in {u} /\ p.dst \in Address \ Guest

\* A new packet passes the forward chain exactly when no guard drops it and
\* one of the other rules takes it.
LEMMA ForwardIs ==
  ASSUME Facts, NEW p, OnTheWay(p), p.kind # "established"
  PROVE  Verdict(forward_chain, "drop", p) = "accept" <=>
           ~Guarded(p) /\ (FromFar(p) \/ FromDoor(p) \/ Leaves(p))
<1>1. Established.verdict = "accept" /\ ~Matches(Established, p)
  <2> DEFINE P == {Pattern(Iface, Iface, Address, Address, {"established"})}
             v == "accept"
  <2>1. Established = Rule(v, P)
    BY Zenon DEF Established
  <2>2. (\E q \in P : Fits(q, p)) <=> p.kind = "established"
    BY PatternFits, SMT DEF OnTheWay
  <2> HIDE DEF P, v
  <2>3. Established.verdict = v /\ (Matches(Established, p) <=> \E q \in P : Fits(q, p))
    BY <2>1, RuleFits, Zenon
  <2> QED
    BY <2>2, <2>3, Zenon DEF v
<1>2. Rule9.verdict = "drop" /\ (Matches(Rule9, p) <=> (\E u \in FwUser : p.iif \in {u} /\ p.src \in Address \ local_prefixes(u)))
  <2> DEFINE P == {Pattern({u}, Iface, Address \ local_prefixes(u), Address, PacketKind) : u \in FwUser}
             v == "drop"
  <2>1. ASSUME NEW u \in FwUser
        PROVE  Fits(Pattern({u}, Iface, Address \ local_prefixes(u), Address, PacketKind), p)
                 <=> p.iif \in {u} /\ p.src \in Address \ local_prefixes(u)
    BY PatternFits, SMT DEF OnTheWay
  <2>2. (\E q \in P : Fits(q, p)) <=> \E u \in FwUser : p.iif \in {u} /\ p.src \in Address \ local_prefixes(u)
    BY <2>1, Zenon
  <2> HIDE DEF P, v
  <2>3. Rule(v, P).verdict = v /\ (Matches(Rule(v, P), p) <=> \E q \in P : Fits(q, p))
    BY RuleFits, Zenon
  <2> QED
    BY <2>2, <2>3, Zenon DEF P, v, Rule9
<1>3. Rule10.verdict = "drop" /\ (Matches(Rule10, p) <=> (\E u \in FwUser : p.iif \in {u} /\ p.dst \in management))
  <2> DEFINE P == {Pattern({u}, Iface, Address, management, PacketKind) : u \in FwUser}
             v == "drop"
  <2>1. ASSUME NEW u \in FwUser
        PROVE  Fits(Pattern({u}, Iface, Address, management, PacketKind), p)
                 <=> p.iif \in {u} /\ p.dst \in management
    BY PatternFits, SMT DEF OnTheWay
  <2>2. (\E q \in P : Fits(q, p)) <=> \E u \in FwUser : p.iif \in {u} /\ p.dst \in management
    BY <2>1, Zenon
  <2> HIDE DEF P, v
  <2>3. Rule(v, P).verdict = v /\ (Matches(Rule(v, P), p) <=> \E q \in P : Fits(q, p))
    BY RuleFits, Zenon
  <2> QED
    BY <2>2, <2>3, Zenon DEF P, v, Rule10
<1>4. Rule3.verdict = "drop" /\ (Matches(Rule3, p) <=> (\E u \in FwUser : p.iif \in {u} /\ p.oif \in FwUser \ {u}))
  <2> DEFINE P == {Pattern({u}, FwUser \ {u}, Address, Address, PacketKind) : u \in FwUser}
             v == "drop"
  <2>1. ASSUME NEW u \in FwUser
        PROVE  Fits(Pattern({u}, FwUser \ {u}, Address, Address, PacketKind), p)
                 <=> p.iif \in {u} /\ p.oif \in FwUser \ {u}
    BY PatternFits, SMT DEF OnTheWay
  <2>2. (\E q \in P : Fits(q, p)) <=> \E u \in FwUser : p.iif \in {u} /\ p.oif \in FwUser \ {u}
    BY <2>1, Zenon
  <2> HIDE DEF P, v
  <2>3. Rule(v, P).verdict = v /\ (Matches(Rule(v, P), p) <=> \E q \in P : Fits(q, p))
    BY RuleFits, Zenon
  <2> QED
    BY <2>2, <2>3, Zenon DEF P, v, Rule3
<1>5. Rule6.verdict = "accept" /\ (Matches(Rule6, p) <=> (FromFar(p)))
  <2> DEFINE P == IF remote_slots = {} THEN {}
                  ELSE {Pattern({Wire}, {u}, remote_prefixes(u), local_prefixes(u), PacketKind) : u \in FwUser}
             v == "accept"
  <2>1. ASSUME NEW u \in FwUser
        PROVE  Fits(Pattern({Wire}, {u}, remote_prefixes(u), local_prefixes(u), PacketKind), p)
                 <=> p.iif \in {Wire} /\ p.oif \in {u} /\ p.src \in remote_prefixes(u) /\ p.dst \in local_prefixes(u)
    BY PatternFits, SMT DEF OnTheWay
  <2>2. (\E q \in P : Fits(q, p)) <=> remote_slots # {} /\ \E u \in FwUser : p.iif \in {Wire} /\ p.oif \in {u} /\ p.src \in remote_prefixes(u) /\ p.dst \in local_prefixes(u)
    BY <2>1, Zenon
  <2> HIDE DEF P, v
  <2>3. Rule(v, P).verdict = v /\ (Matches(Rule(v, P), p) <=> \E q \in P : Fits(q, p))
    BY RuleFits, Zenon
  <2>4. remote_slots = {} => \A u \in FwUser : p.src \notin remote_prefixes(u)
    BY SMT DEF remote_prefixes
  <2> QED
    BY <2>2, <2>3, <2>4, Zenon DEF P, v, Rule6, FromFar
<1>6. Rule7.verdict = "accept" /\ (Matches(Rule7, p) <=> (FromDoor(p)))
  <2> DEFINE P == {Pattern(Iface, {g[1]}, frontends, {g}, PortsOf(g)) : g \in instances}
             v == "accept"
  <2>1. ASSUME NEW g \in instances
        PROVE  Fits(Pattern(Iface, {g[1]}, frontends, {g}, PortsOf(g)), p)
                 <=> p.oif \in {g[1]} /\ p.src \in frontends /\ p.dst \in {g} /\ p.kind \in PortsOf(g)
    BY PatternFits, SMT DEF OnTheWay
  <2>2. (\E q \in P : Fits(q, p)) <=> \E g \in instances : p.oif \in {g[1]} /\ p.src \in frontends /\ p.dst \in {g} /\ p.kind \in PortsOf(g)
    BY <2>1, Zenon
  <2> HIDE DEF P, v
  <2>3. Rule(v, P).verdict = v /\ (Matches(Rule(v, P), p) <=> \E q \in P : Fits(q, p))
    BY RuleFits, Zenon
  <2> QED
    BY <2>2, <2>3, Zenon DEF P, v, Rule7, FromDoor
<1>7. Rule4.verdict = "accept" /\ (Matches(Rule4, p) <=> (\E u \in FwUser : p.iif \in {u} /\ p.oif \in {u}))
  <2> DEFINE P == {Pattern({u}, {u}, Address, Address, PacketKind) : u \in FwUser}
             v == "accept"
  <2>1. ASSUME NEW u \in FwUser
        PROVE  Fits(Pattern({u}, {u}, Address, Address, PacketKind), p)
                 <=> p.iif \in {u} /\ p.oif \in {u}
    BY PatternFits, SMT DEF OnTheWay
  <2>2. (\E q \in P : Fits(q, p)) <=> \E u \in FwUser : p.iif \in {u} /\ p.oif \in {u}
    BY <2>1, Zenon
  <2> HIDE DEF P, v
  <2>3. Rule(v, P).verdict = v /\ (Matches(Rule(v, P), p) <=> \E q \in P : Fits(q, p))
    BY RuleFits, Zenon
  <2> QED
    BY <2>2, <2>3, Zenon DEF P, v, Rule4
<1>8. Rule2b.verdict = "accept" /\ (Matches(Rule2b, p) <=> (remote_slots # {} /\ \E u \in FwUser : p.iif \in {u} /\ p.dst \in {u} \X RunnerSlot))
  <2> DEFINE P == IF remote_slots = {} THEN {}
                  ELSE {Pattern({u}, Iface, Address, {u} \X RunnerSlot, PacketKind) : u \in FwUser}
             v == "accept"
  <2>1. ASSUME NEW u \in FwUser
        PROVE  Fits(Pattern({u}, Iface, Address, {u} \X RunnerSlot, PacketKind), p)
                 <=> p.iif \in {u} /\ p.dst \in {u} \X RunnerSlot
    BY PatternFits, SMT DEF OnTheWay
  <2>2. (\E q \in P : Fits(q, p)) <=> remote_slots # {} /\ \E u \in FwUser : p.iif \in {u} /\ p.dst \in {u} \X RunnerSlot
    BY <2>1, Zenon
  <2> HIDE DEF P, v
  <2>3. Rule(v, P).verdict = v /\ (Matches(Rule(v, P), p) <=> \E q \in P : Fits(q, p))
    BY RuleFits, Zenon
  <2> QED
    BY <2>2, <2>3, Zenon DEF P, v, Rule2b
<1>9. Rule2.verdict = "accept" /\ (Matches(Rule2, p) <=> (\E u \in FwUser : p.iif \in {u} /\ p.dst \in Address \ Guest))
  <2> DEFINE P == {Pattern({u}, Iface, Address, Address \ Guest, PacketKind) : u \in FwUser}
             v == "accept"
  <2>1. ASSUME NEW u \in FwUser
        PROVE  Fits(Pattern({u}, Iface, Address, Address \ Guest, PacketKind), p)
                 <=> p.iif \in {u} /\ p.dst \in Address \ Guest
    BY PatternFits, SMT DEF OnTheWay
  <2>2. (\E q \in P : Fits(q, p)) <=> \E u \in FwUser : p.iif \in {u} /\ p.dst \in Address \ Guest
    BY <2>1, Zenon
  <2> HIDE DEF P, v
  <2>3. Rule(v, P).verdict = v /\ (Matches(Rule(v, P), p) <=> \E q \in P : Fits(q, p))
    BY RuleFits, Zenon
  <2> QED
    BY <2>2, <2>3, Zenon DEF P, v, Rule2
<1>10. /\ Len(forward_chain) = 9 /\ forward_chain[1] = Established /\ forward_chain[2] = Rule9
       /\ forward_chain[3] = Rule10 /\ forward_chain[4] = Rule3 /\ forward_chain[5] = Rule6
       /\ forward_chain[6] = Rule7 /\ forward_chain[7] = Rule4 /\ forward_chain[8] = Rule2b
       /\ forward_chain[9] = Rule2
  BY SMT DEF forward_chain
<1> DEFINE m(i) == Matches(forward_chain[i], p)
<1>11. ASSUME \A i \in 1..9 : ~m(i) PROVE Verdict(forward_chain, "drop", p) = "drop"
  BY <1>10, <1>11, FirstDecides
<1>12. ASSUME NEW i \in 1..9, m(i), \A j \in 1..9 : j < i => ~m(j) PROVE Verdict(forward_chain, "drop", p) = forward_chain[i].verdict
  <2>1. i \in 1..Len(forward_chain) /\ Len(forward_chain) \in Nat /\ \A j \in 1..Len(forward_chain) : j < i => ~m(j)
    BY <1>10, <1>12, SMT
  <2> QED
    BY <1>12, <2>1, FirstDecides
<1>13. CASE m(2) \/ m(3) \/ m(4)
  <2>1. Verdict(forward_chain, "drop", p) = "drop"
    BY <1>1, <1>2, <1>3, <1>4, <1>10, <1>12, <1>13, SMTT(60)
  <2>2. Guarded(p)
    BY <1>2, <1>3, <1>4, <1>10, <1>13, Zenon DEF Guarded
  <2> QED
    BY <2>1, <2>2
<1>14. CASE ~(m(2) \/ m(3) \/ m(4)) /\ (m(5) \/ m(6) \/ m(7) \/ m(8) \/ m(9))
  <2>1. Verdict(forward_chain, "drop", p) = "accept"
    BY <1>1, <1>5, <1>6, <1>7, <1>8, <1>9, <1>10, <1>12, <1>14, SMTT(60)
  <2>2. ~Guarded(p) /\ (FromFar(p) \/ FromDoor(p) \/ Leaves(p))
    BY <1>2, <1>3, <1>4, <1>5, <1>6, <1>7, <1>8, <1>9, <1>10, <1>14, Zenon DEF Guarded, Leaves
  <2> QED
    BY <2>1, <2>2, Zenon
<1>15. CASE ~(m(2) \/ m(3) \/ m(4) \/ m(5) \/ m(6) \/ m(7) \/ m(8) \/ m(9))
  <2>1. Verdict(forward_chain, "drop", p) = "drop"
    BY <1>1, <1>10, <1>11, <1>15, SMT
  <2>2. ~(FromFar(p) \/ FromDoor(p) \/ Leaves(p))
    BY <1>5, <1>6, <1>7, <1>8, <1>9, <1>10, <1>15, Zenon DEF Leaves
  <2> QED
    BY <2>1, <2>2, SMTT(60)
<1> QED
  BY <1>13, <1>14, <1>15, Zenon

\* What the host sends into a bridge passes exactly to an open port.
LEMMA OutputIs ==
  ASSUME Facts, NEW p, OnTheWay(p), p.oif \in FwUser
  PROVE  Verdict(output_chain, "accept", p) = "accept" <=>
           \E g \in instances : p.oif \in {g[1]} /\ p.dst \in {g} /\ p.kind \in PortsOf(g)
<1> DEFINE r1 == Rule("accept", {Pattern(Iface, {g[1]}, Address, {g}, PortsOf(g)) : g \in instances})
           r2 == Rule("drop", {Pattern(Iface, {u}, Address, Address, PacketKind) : u \in FwUser})
           c == <<r1, r2>>
<1>0. output_chain = c
  BY Zenon DEF output_chain
<1>1. /\ r1.verdict = "accept"
      /\ Matches(r1, p) <=> \E g \in instances : p.oif \in {g[1]} /\ p.dst \in {g} /\ p.kind \in PortsOf(g)
  <2> DEFINE P == {Pattern(Iface, {g[1]}, Address, {g}, PortsOf(g)) : g \in instances}
             v == "accept"
  <2>1. ASSUME NEW g \in instances
        PROVE  Fits(Pattern(Iface, {g[1]}, Address, {g}, PortsOf(g)), p)
                 <=> p.oif \in {g[1]} /\ p.dst \in {g} /\ p.kind \in PortsOf(g)
    BY PatternFits, SMT DEF OnTheWay
  <2>2. (\E q \in P : Fits(q, p)) <=> \E g \in instances : p.oif \in {g[1]} /\ p.dst \in {g} /\ p.kind \in PortsOf(g)
    BY <2>1, Zenon
  <2> HIDE DEF P, v
  <2>3. Rule(v, P).verdict = v /\ (Matches(Rule(v, P), p) <=> \E q \in P : Fits(q, p))
    BY RuleFits, Zenon
  <2> QED
    BY <2>2, <2>3, Zenon DEF P, v
<1>2. r2.verdict = "drop" /\ Matches(r2, p)
  <2> DEFINE P == {Pattern(Iface, {u}, Address, Address, PacketKind) : u \in FwUser}
             v == "drop"
  <2>1. ASSUME NEW u \in FwUser
        PROVE  Fits(Pattern(Iface, {u}, Address, Address, PacketKind), p)
                 <=> p.oif \in {u}
    BY PatternFits, SMT DEF OnTheWay
  <2>2. (\E q \in P : Fits(q, p)) <=> \E u \in FwUser : p.oif \in {u}
    BY <2>1, Zenon
  <2> HIDE DEF P, v
  <2>3. Rule(v, P).verdict = v /\ (Matches(Rule(v, P), p) <=> \E q \in P : Fits(q, p))
    BY RuleFits, Zenon
  <2> QED
    BY <2>2, <2>3, Zenon DEF P, v
<1> HIDE DEF r1, r2
<1>3. Len(c) = 2 /\ c[1] = r1 /\ c[2] = r2
  BY SMT
<1> HIDE DEF c
<1>4. ASSUME ~Matches(r1, p) PROVE Verdict(c, "accept", p) = "drop"
  <2>1. 2 \in 1..Len(c) /\ Matches(c[2], p) /\ \A j \in 1..Len(c) : j < 2 => ~Matches(c[j], p)
    BY <1>2, <1>3, <1>4, SMT
  <2> QED
    BY <1>2, <1>3, <2>1, FirstDecides
<1>5. ASSUME Matches(r1, p) PROVE Verdict(c, "accept", p) = "accept"
  <2>1. 1 \in 1..Len(c) /\ Matches(c[1], p) /\ \A j \in 1..Len(c) : j < 1 => ~Matches(c[j], p)
    BY <1>3, <1>5, SMT
  <2> QED
    BY <1>1, <1>3, <2>1, FirstDecides
<1>6. "drop" # "accept"
  OBVIOUS
<1> QED
  BY <1>0, <1>1, <1>4, <1>5, <1>6, Zenon

\* What a guest sends to the host passes exactly for ICMP, the public ports
\* and connections that stand.
LEMMA InputIs ==
  ASSUME Facts, NEW p, OnTheWay(p), p.iif \in FwUser
  PROVE  Verdict(input_chain, "accept", p) = "accept" <=> p.kind \in {"established", "icmp", "web"}
<1> DEFINE r1 == Established
           r2 == Rule("accept", {Pattern({u}, Iface, Address, Address, {"icmp"}) : u \in FwUser})
           r3 == Rule("accept", {Pattern({u}, Iface, Address, Address, {"web"}) : u \in FwUser})
           r4 == Rule("drop", {Pattern({u}, Iface, Address, Address, PacketKind) : u \in FwUser})
           c == <<r1, r2, r3, r4>>
<1>0. input_chain = c
  BY Zenon DEF input_chain
<1>1. r1.verdict = "accept" /\ (Matches(r1, p) <=> p.kind = "established")
  <2> DEFINE P == {Pattern(Iface, Iface, Address, Address, {"established"})}
             v == "accept"
  <2>1. r1 = Rule(v, P)
    BY Zenon DEF Established
  <2>2. (\E q \in P : Fits(q, p)) <=> p.kind = "established"
    BY PatternFits, SMT DEF OnTheWay
  <2> HIDE DEF P, v
  <2>3. r1.verdict = v /\ (Matches(r1, p) <=> \E q \in P : Fits(q, p))
    BY <2>1, RuleFits, Zenon
  <2> QED
    BY <2>2, <2>3, Zenon DEF v
<1>2. r2.verdict = "accept" /\ (Matches(r2, p) <=> p.kind = "icmp")
  <2> DEFINE P == {Pattern({u}, Iface, Address, Address, {"icmp"}) : u \in FwUser}
             v == "accept"
  <2>1. ASSUME NEW u \in FwUser
        PROVE  Fits(Pattern({u}, Iface, Address, Address, {"icmp"}), p)
                 <=> p.iif \in {u} /\ p.kind \in {"icmp"}
    BY PatternFits, SMT DEF OnTheWay
  <2>2. (\E q \in P : Fits(q, p)) <=> \E u \in FwUser : p.iif \in {u} /\ p.kind \in {"icmp"}
    BY <2>1, Zenon
  <2> HIDE DEF P, v
  <2>3. Rule(v, P).verdict = v /\ (Matches(Rule(v, P), p) <=> \E q \in P : Fits(q, p))
    BY RuleFits, Zenon
  <2> QED
    BY <2>2, <2>3, Zenon DEF P, v
<1>3. r3.verdict = "accept" /\ (Matches(r3, p) <=> p.kind = "web")
  <2> DEFINE P == {Pattern({u}, Iface, Address, Address, {"web"}) : u \in FwUser}
             v == "accept"
  <2>1. ASSUME NEW u \in FwUser
        PROVE  Fits(Pattern({u}, Iface, Address, Address, {"web"}), p)
                 <=> p.iif \in {u} /\ p.kind \in {"web"}
    BY PatternFits, SMT DEF OnTheWay
  <2>2. (\E q \in P : Fits(q, p)) <=> \E u \in FwUser : p.iif \in {u} /\ p.kind \in {"web"}
    BY <2>1, Zenon
  <2> HIDE DEF P, v
  <2>3. Rule(v, P).verdict = v /\ (Matches(Rule(v, P), p) <=> \E q \in P : Fits(q, p))
    BY RuleFits, Zenon
  <2> QED
    BY <2>2, <2>3, Zenon DEF P, v
<1>4. r4.verdict = "drop" /\ Matches(r4, p)
  <2> DEFINE P == {Pattern({u}, Iface, Address, Address, PacketKind) : u \in FwUser}
             v == "drop"
  <2>1. ASSUME NEW u \in FwUser
        PROVE  Fits(Pattern({u}, Iface, Address, Address, PacketKind), p)
                 <=> p.iif \in {u}
    BY PatternFits, SMT DEF OnTheWay
  <2>2. (\E q \in P : Fits(q, p)) <=> \E u \in FwUser : p.iif \in {u}
    BY <2>1, Zenon
  <2> HIDE DEF P, v
  <2>3. Rule(v, P).verdict = v /\ (Matches(Rule(v, P), p) <=> \E q \in P : Fits(q, p))
    BY RuleFits, Zenon
  <2> QED
    BY <2>2, <2>3, Zenon DEF P, v
<1> HIDE DEF r1, r2, r3, r4
<1>5. Len(c) = 4 /\ c[1] = r1 /\ c[2] = r2 /\ c[3] = r3 /\ c[4] = r4
  BY SMT
<1> HIDE DEF c
<1> DEFINE m(i) == Matches(c[i], p)
<1>6. ASSUME NEW i \in 1..4, m(i), \A j \in 1..4 : j < i => ~m(j) PROVE Verdict(c, "accept", p) = c[i].verdict
  <2>1. i \in 1..Len(c) /\ Len(c) \in Nat /\ \A j \in 1..Len(c) : j < i => ~m(j)
    BY <1>5, <1>6, SMT
  <2> QED
    BY <1>6, <2>1, FirstDecides, SMTT(60)
<1>7. Verdict(c, "accept", p) = "accept" <=> m(1) \/ m(2) \/ m(3)
  BY <1>1, <1>2, <1>3, <1>4, <1>5, <1>6, SMT
<1> QED
  BY <1>0, <1>1, <1>2, <1>3, <1>5, <1>7, SMT

\* The addresses of a machine and of the rest of the world are no guest's.
LEMMA NotGuests ==
  /\ Net \notin Guest
  /\ \A h : Underlay(h) \notin Guest /\ Endpoint(h) \notin Guest
  /\ \A h, i : (Underlay(h) = Underlay(i) <=> h = i) /\ (Endpoint(h) = Endpoint(i) <=> h = i)
  /\ \A h, i : Underlay(h) # Endpoint(i) /\ Net # Underlay(h) /\ Net # Endpoint(h)
  BY FirewallAssumption, SMT DEF Net, Underlay, Endpoint, Guest

\* What is known of a new packet: the machine's routes choose its way out.
LEMMA NewPacketIs ==
  ASSUME Facts, NEW p \in NewPacket
  PROVE  /\ OnTheWay(p) /\ p.kind # "established"
         /\ p.dst \in Guest /\ p.dst[2] \notin remote_slots => p.oif = p.dst[1] /\ p.oif \in FwUser
         /\ ~(p.dst \in Guest /\ p.dst[2] \notin remote_slots) => p.oif = Wire
<1>1. PICK i \in Iface, src \in Address, dst \in Address, kind \in PacketKind \ {"established"} :
        p = [iif |-> i, oif |-> OutOf(dst), src |-> src, dst |-> dst, kind |-> kind]
  BY SMT DEF NewPacket
<1>2. /\ p.iif = i /\ p.oif = OutOf(dst) /\ p.src = src /\ p.dst = dst /\ p.kind = kind
  BY <1>1, SMT
<1>3. /\ dst \in Guest /\ dst[2] \notin remote_slots => OutOf(dst) = dst[1] /\ dst[1] \in FwUser
      /\ ~(dst \in Guest /\ dst[2] \notin remote_slots) => OutOf(dst) = Wire
  BY SMT DEF OutOf, Guest
<1>4. OutOf(dst) \in Iface
  BY <1>3, Ifaces, Zenon
<1> QED
  BY <1>2, <1>3, <1>4, Zenon DEF OnTheWay

\* An address of a user in a slot this machine holds.
LEMMA LocalIs ==
  ASSUME Facts, NEW x \in Address, NEW u \in FwUser
  PROVE  /\ x \in local_prefixes(u) <=> x[1] = u /\ x[2] \in RunnerSlot \ remote_slots
         /\ x \in remote_prefixes(u) <=> x[1] = u /\ x[2] \in remote_slots
         /\ x \in {u} \X RunnerSlot <=> x \in Guest /\ x[1] = u
         /\ x \in local_prefixes(u) \/ x \in remote_prefixes(u) => x \in Guest
<1>1. CASE x \in Guest
  <2>1. PICK v \in FwUser, r \in RunnerSlot : x = <<v, r>>
    BY <1>1, SMT DEF Guest
  <2>2. x[1] = v /\ x[2] = r
    BY <2>1, SMT
  <2> QED
    BY <1>1, <2>1, <2>2, Parts, SMT DEF local_prefixes, remote_prefixes
<1>2. CASE x \notin Guest
  <2>1. x = Net \/ (\E h \in Host : x = Underlay(h)) \/ \E h \in Host : x = Endpoint(h)
    BY <1>2, Zenon DEF Address
  <2>2. x[1] \in {"net", "underlay", "endpoint"}
    BY <2>1, SMT DEF Net, Underlay, Endpoint
  <2>3. x[1] # u
    BY <2>2, FirewallAssumption, SMT
  <2>4. x \notin {u} \X RunnerSlot /\ x \notin local_prefixes(u) /\ x \notin remote_prefixes(u)
    BY <1>2, Parts, SMT DEF local_prefixes, remote_prefixes, Guest
  <2> QED
    BY <1>2, <2>3, <2>4, Zenon
<1> QED
  BY <1>1, <1>2

\* The addresses of the deployment's machines, and those of its frontends.
LEMMA MachinesAre ==
  ASSUME Facts, NEW x \in Address
  PROVE  /\ x \in Guest => x \notin management /\ x \notin frontends
         /\ x \notin Guest =>
              (x \notin management <=>
                 \/ x = Net
                 \/ x \in {Underlay(h) : h \in Host \ facts.underlay} \cup {Endpoint(h) : h \in Host \ facts.endpoint})
         /\ x \in frontends <=> facts.controller \in facts.underlay \ {Here} /\ x = Underlay(facts.controller)
<1>1. x \in Guest => x \notin management /\ x \notin frontends
  BY NotGuests, SMT DEF management, frontends
<1>2. x \in frontends <=> facts.controller \in facts.underlay \ {Here} /\ x = Underlay(facts.controller)
  BY Zenon DEF frontends
<1>3. ASSUME x \notin Guest
      PROVE  x \notin management <=>
                 \/ x = Net
                 \/ x \in {Underlay(h) : h \in Host \ facts.underlay} \cup {Endpoint(h) : h \in Host \ facts.endpoint}
  <2>1. CASE x = Net
    BY <2>1, NotGuests, Zenon DEF management
  <2>2. ASSUME NEW h \in Host, x = Underlay(h)
        PROVE  /\ x \notin management <=> h \notin facts.underlay
               /\ x \in {Underlay(i) : i \in Host \ facts.underlay} <=> h \notin facts.underlay
               /\ x # Net /\ x \notin {Endpoint(i) : i \in Host \ facts.endpoint}
    BY <2>2, NotGuests, SMT DEF management
  <2>3. ASSUME NEW h \in Host, x = Endpoint(h)
        PROVE  /\ x \notin management <=> h \notin facts.endpoint
               /\ x \in {Endpoint(i) : i \in Host \ facts.endpoint} <=> h \notin facts.endpoint
               /\ x # Net /\ x \notin {Underlay(i) : i \in Host \ facts.underlay}
    BY <2>3, NotGuests, SMT DEF management
  <2>4. x = Net \/ (\E h \in Host : x = Underlay(h)) \/ \E h \in Host : x = Endpoint(h)
    BY <1>3, Zenon DEF Address
  <2> QED
    BY <2>1, <2>2, <2>3, <2>4, Zenon
<1> QED
  BY <1>1, <1>2, <1>3, Zenon

\* What may leave and enter of the slots that have no route to another
\* machine, which are this machine's own when the rows are settled.
LeavesHeld(p) ==
  /\ p.src[1] = p.iif /\ p.src[2] \in RunnerSlot \ remote_slots
  /\ \/ p.dst \in Guest /\ p.dst[1] = p.iif
     \/ p.dst = Net
     \/ p.dst \in {Underlay(h) : h \in Host \ facts.underlay} \cup {Endpoint(h) : h \in Host \ facts.endpoint}
EntersHeld(p) ==
  /\ p.dst \in Guest /\ p.oif = p.dst[1]
  /\ \/ p.src \in Guest /\ p.src[1] = p.dst[1] /\ p.src[2] \in remote_slots
     \/ /\ facts.owner[p.dst[2]] = {Here} /\ facts.controller \in facts.underlay \ {Here}
        /\ p.src = Underlay(facts.controller)
        /\ p.kind = "ssh" \/ (p.kind \in {"http", "high"} /\ p.dst[1] \in facts.published)

\* In settled rows the slots without a route are the machine's own.
LEMMA SettledHolds ==
  ASSUME Facts, Settled, NEW p \in NewPacket
  PROVE  /\ LeavesHeld(p) <=> MayLeave(p)
         /\ EntersHeld(p) <=> MayEnter(p)
<1>1. ASSUME NEW r \in RunnerSlot PROVE r \notin remote_slots <=> r \in OwnSlots
  <2>1. CASE r \in OwnSlots
    BY <2>1, Zenon DEF OwnSlots, remote_slots
  <2>2. CASE r \notin OwnSlots
    BY <2>2, Zenon DEF Settled, remote_slots
  <2> QED
    BY <2>1, <2>2, Zenon
<1>2. OwnSlots \subseteq RunnerSlot /\ remote_slots \subseteq RunnerSlot
  BY Zenon DEF OwnSlots, remote_slots
<1>3. LeavesHeld(p) <=> MayLeave(p)
  <2>1. p.src[2] \in RunnerSlot \ remote_slots <=> p.src[2] \in OwnSlots
    BY <1>1, <1>2, Zenon
  <2> QED
    BY <2>1, Zenon DEF LeavesHeld, MayLeave
<1>4. EntersHeld(p) <=> MayEnter(p)
  <2>1. ASSUME NEW g \in Guest
        PROVE  /\ g[2] \in remote_slots <=> g[2] \notin OwnSlots
               /\ facts.owner[g[2]] = {Here} <=> g[2] \in OwnSlots
    <3>1. g[2] \in RunnerSlot
      BY SMT DEF Guest
    <3> QED
      BY <1>1, <3>1, Zenon DEF OwnSlots
  <2>2. p.dst \in Guest /\ p.oif = p.dst[1] => p.dst[2] \in OwnSlots
    <3>1. SUFFICES ASSUME p.dst \in Guest, p.oif = p.dst[1] PROVE p.dst[2] \notin remote_slots
      BY <2>1, Zenon
    <3>2. p.dst[1] \in FwUser
      BY <3>1, SMT DEF Guest
    <3> QED
      BY <3>1, <3>2, Ifaces, NewPacketIs, Zenon
  <2> QED
    BY <2>1, <2>2, Zenon DEF EntersHeld, MayEnter
<1> QED
  BY <1>3, <1>4, Zenon

\* A guest's new packet passes exactly when it may leave.
LEMMA LeavesAsAllowed ==
  ASSUME Facts, NEW p \in NewPacket, p.iif \in FwUser
  PROVE  /\ ~Guarded(p) /\ (FromFar(p) \/ FromDoor(p) \/ Leaves(p)) <=> LeavesHeld(p)
         /\ LeavesHeld(p) => p.src \in Guest /\ KeepsToUser(p)
<1> DEFINE u == p.iif
           Own == p.src \in local_prefixes(u)
           Goal == \/ p.dst \in Guest /\ p.dst[1] = u
                   \/ p.dst = Net
                   \/ p.dst \in {Underlay(h) : h \in Host \ facts.underlay} \cup {Endpoint(h) : h \in Host \ facts.endpoint}
<1>0. /\ u \in FwUser /\ u # Wire /\ Wire \notin FwUser /\ p.src \in Address /\ p.dst \in Address
  BY Ifaces, NewPacketIs, Zenon DEF OnTheWay
<1>1. Guarded(p) <=> ~Own \/ p.dst \in management \/ p.oif \in FwUser \ {u}
  BY <1>0, Zenon DEF Guarded
<1>2. ~FromFar(p)
  BY <1>0, Zenon DEF FromFar
<1>3. Own => ~FromDoor(p) /\ p.src \in Guest
  BY <1>0, LocalIs, MachinesAre, Zenon DEF FromDoor
<1>4. Leaves(p) <=> \/ p.oif = u
                    \/ remote_slots # {} /\ p.dst \in {u} \X RunnerSlot
                    \/ p.dst \notin Guest
  BY <1>0, Zenon DEF Leaves
<1>5. /\ Own <=> p.src[1] = u /\ p.src[2] \in RunnerSlot \ remote_slots
      /\ p.dst \in {u} \X RunnerSlot <=> p.dst \in Guest /\ p.dst[1] = u
  BY <1>0, LocalIs, Zenon
<1>6. LeavesHeld(p) <=> Own /\ Goal
  BY <1>5, Zenon DEF LeavesHeld
<1>7. (p.dst \notin management /\ p.oif \notin FwUser \ {u} /\ Leaves(p)) <=> Goal
  <2>1. CASE p.dst \in Guest /\ p.dst[2] \notin remote_slots
    <3>1. p.oif = p.dst[1] /\ p.oif \in FwUser /\ p.dst \notin management
      BY <1>0, <2>1, NewPacketIs, MachinesAre, Zenon
    <3>2. Goal <=> p.dst[1] = u
      BY <2>1, NotGuests, SMT
    <3> HIDE DEF Goal
    <3> QED
      BY <1>4, <1>5, <2>1, <3>1, <3>2, Zenon
  <2>2. CASE p.dst \in Guest /\ p.dst[2] \in remote_slots
    <3>1. p.oif = Wire /\ p.dst \notin management
      BY <1>0, <2>2, NewPacketIs, MachinesAre, Zenon
    <3>2. Goal <=> p.dst[1] = u
      BY <2>2, NotGuests, SMT
    <3> HIDE DEF Goal
    <3> QED
      BY <1>0, <1>4, <1>5, <2>2, <3>1, <3>2, Zenon
  <2>3. CASE p.dst \notin Guest
    <3>1. p.oif = Wire
      BY <2>3, NewPacketIs, Zenon
    <3>2. p.dst \notin management <=> Goal
      BY <1>0, <2>3, MachinesAre, Zenon
    <3> HIDE DEF Goal
    <3> QED
      BY <1>0, <1>4, <2>3, <3>1, <3>2, Zenon
  <2> QED
    BY <2>1, <2>2, <2>3, Zenon
<1>8. Goal => (p.dst \in Guest => p.dst[1] = u)
  <2>1. ASSUME p.dst \in Guest
        PROVE  /\ p.dst # Net
               /\ p.dst \notin {Underlay(h) : h \in Host \ facts.underlay} \cup {Endpoint(h) : h \in Host \ facts.endpoint}
    BY <2>1, NotGuests, SMT
  <2> QED
    BY <2>1, Zenon
<1>9. Own => p.src[1] = u
  BY <1>5, Zenon
<1> HIDE DEF Own, Goal
<1>10. LeavesHeld(p) => p.src \in Guest /\ KeepsToUser(p)
  BY <1>0, <1>3, <1>6, <1>7, <1>8, <1>9, Zenon DEF KeepsToUser
<1> QED
  BY <1>1, <1>2, <1>3, <1>6, <1>7, <1>10, Zenon

\* A new packet from outside every bridge passes exactly when it may enter.
LEMMA EntersAsAllowed ==
  ASSUME Facts, NEW p \in NewPacket, p.iif = Wire
  PROVE  /\ ~Guarded(p) /\ (FromFar(p) \/ FromDoor(p) \/ Leaves(p)) <=> EntersHeld(p)
         /\ EntersHeld(p) => KeepsToUser(p)
<1>0. /\ Wire \notin FwUser /\ p.src \in Address /\ p.dst \in Address /\ p.kind # "established"
  BY Ifaces, NewPacketIs, Zenon DEF OnTheWay
<1>1. ~Guarded(p) /\ ~Leaves(p)
  BY <1>0, Zenon DEF Guarded, Leaves
<1>2. FromFar(p) <=> /\ p.dst \in Guest /\ p.oif = p.dst[1]
                     /\ p.src \in Guest /\ p.src[1] = p.dst[1] /\ p.src[2] \in remote_slots
  <2>1. ASSUME FromFar(p)
        PROVE  /\ p.dst \in Guest /\ p.oif = p.dst[1]
               /\ p.src \in Guest /\ p.src[1] = p.dst[1] /\ p.src[2] \in remote_slots
    <3>1. PICK u \in FwUser : /\ p.oif \in {u}
                              /\ p.src \in remote_prefixes(u) /\ p.dst \in local_prefixes(u)
      BY <2>1, Zenon DEF FromFar
    <3> QED
      BY <1>0, <3>1, LocalIs, Zenon
  <2>2. ASSUME p.dst \in Guest, p.oif = p.dst[1],
               p.src \in Guest, p.src[1] = p.dst[1], p.src[2] \in remote_slots
        PROVE  FromFar(p)
    <3>1. p.dst[1] \in FwUser /\ p.dst[2] \in RunnerSlot
      BY <2>2, SMT DEF Guest
    <3>2. p.dst[2] \notin remote_slots
      BY <1>0, <2>2, <3>1, NewPacketIs, Zenon
    <3>3. p.src \in remote_prefixes(p.oif) /\ p.dst \in local_prefixes(p.oif)
      BY <1>0, <2>2, <3>1, <3>2, LocalIs, Zenon
    <3> QED
      BY <2>2, <3>1, <3>3, Zenon DEF FromFar
  <2> QED
    BY <2>1, <2>2, Zenon
<1>3. FromDoor(p) <=> /\ p.dst \in Guest /\ p.oif = p.dst[1]
                      /\ facts.owner[p.dst[2]] = {Here} /\ facts.controller \in facts.underlay \ {Here}
                      /\ p.src = Underlay(facts.controller)
                      /\ p.kind = "ssh" \/ (p.kind \in {"http", "high"} /\ p.dst[1] \in facts.published)
  <2>1. FromDoor(p) <=> p.dst \in instances /\ p.oif = p.dst[1] /\ p.src \in frontends /\ p.kind \in PortsOf(p.dst)
    BY Zenon DEF FromDoor
  <2>2. p.kind \in PortsOf(p.dst) <=> p.kind = "ssh" \/ (p.kind \in {"http", "high"} /\ p.dst[1] \in facts.published)
    BY SMT DEF PortsOf
  <2>3. p.src \in frontends <=> facts.controller \in facts.underlay \ {Here} /\ p.src = Underlay(facts.controller)
    BY <1>0, MachinesAre, Zenon
  <2>4. p.dst \in instances <=> p.dst \in Guest /\ facts.owner[p.dst[2]] = {Here}
    BY Zenon DEF instances
  <2> QED
    BY <2>1, <2>2, <2>3, <2>4, Zenon
<1>4. EntersHeld(p) => (p.src \in Guest => p.src[1] = p.dst[1])
  <2>1. Underlay(facts.controller) \notin Guest
    BY NotGuests, Zenon
  <2> QED
    BY <2>1, Zenon DEF EntersHeld
<1>5. ~Guarded(p) /\ (FromFar(p) \/ FromDoor(p) \/ Leaves(p)) <=> EntersHeld(p)
  BY <1>1, <1>2, <1>3, Zenon DEF EntersHeld
<1> QED
  BY <1>4, <1>5, Zenon DEF EntersHeld, KeepsToUser

\* For any users, runner slots, machines and rows: a table that loads, as
\* render writes it for the description machine_network builds (nftables.rs,
\* netstate.rs), keeps users apart, and in settled rows it accepts exactly
\* the new traffic the policy names by the slots this machine owns.
THEOREM PolicyHolds == FirewallSpec => []PolicyIsolates
<1>1. FirewallInit => FirewallTypeOK
  BY Zenon DEF FirewallInit, FirewallTypeOK
<1>2. FirewallTypeOK /\ [FirewallNext]_facts => FirewallTypeOK'
  <2>1. ASSUME machine_network PROVE facts' \in Rows
    BY <2>1, SMT DEF machine_network, Rows
  <2>2. FirewallTypeOK /\ UNCHANGED facts => FirewallTypeOK'
    BY Zenon DEF FirewallTypeOK, Rows, Undescribed
  <2> QED
    BY <2>1, <2>2, Zenon DEF FirewallNext, FirewallTypeOK, Rows
<1>3. FirewallTypeOK => PolicyIsolates
  <2> SUFFICES ASSUME Facts, facts # Undescribed PROVE PolicyIsolates
    BY Zenon DEF FirewallTypeOK, Facts, PolicyIsolates
  <2>1. ASSUME NEW p \in NewPacket
        PROVE  /\ Settled => (Verdict(forward_chain, "drop", p) = "accept" <=>
                     IF p.iif = Wire THEN MayEnter(p) ELSE MayLeave(p))
               /\ Verdict(forward_chain, "drop", p) = "accept" => KeepsToUser(p)
               /\ Verdict(forward_chain, "drop", p) = "accept" /\ p.iif # Wire => (Masquerades(p) <=> p.dst \notin Guest)
    <3>1. /\ OnTheWay(p) /\ p.kind # "established" /\ (p.iif = Wire \/ p.iif \in FwUser)
          /\ Wire \notin FwUser
      BY Ifaces, NewPacketIs, SMT DEF OnTheWay, Iface
    <3>2. Verdict(forward_chain, "drop", p) = "accept" <=>
            ~Guarded(p) /\ (FromFar(p) \/ FromDoor(p) \/ Leaves(p))
      BY <3>1, ForwardIs, Zenon
    <3>3. Settled => (LeavesHeld(p) <=> MayLeave(p)) /\ (EntersHeld(p) <=> MayEnter(p))
      BY SettledHolds, Zenon
    <3>4. CASE p.iif = Wire
      BY <3>2, <3>3, <3>4, EntersAsAllowed, Zenon
    <3>5. CASE p.iif \in FwUser
      BY <3>1, <3>2, <3>3, <3>5, LeavesAsAllowed, Zenon DEF Masquerades
    <3> QED
      BY <3>1, <3>4, <3>5, Zenon
  <2>2. ASSUME NEW p \in [iif : {Wire}, oif : FwUser, src : {Net}, dst : Guest, kind : PacketKind]
        PROVE  (Verdict(output_chain, "accept", p) = "accept") <=>
                 p.oif = p.dst[1] /\ facts.owner[p.dst[2]] = {Here} /\ p.kind \in PortsOf(p.dst)
    <3>1. OnTheWay(p) /\ p.oif \in FwUser /\ p.dst \in Guest
      BY Ifaces, Parts, SMTT(60) DEF OnTheWay, Address
    <3>2. p.dst \in instances <=> facts.owner[p.dst[2]] = {Here}
      BY <3>1, Zenon DEF instances
    <3>3. Verdict(output_chain, "accept", p) = "accept" <=>
            \E g \in instances : p.oif \in {g[1]} /\ p.dst \in {g} /\ p.kind \in PortsOf(g)
      BY <3>1, OutputIs, Zenon
    <3> QED
      BY <3>2, <3>3, Zenon
  <2>3. ASSUME NEW p \in [iif : FwUser, oif : {Wire}, src : Address, dst : {Net}, kind : PacketKind]
        PROVE  (Verdict(input_chain, "accept", p) = "accept") <=> p.kind \in {"established", "icmp", "web"}
    <3>1. OnTheWay(p) /\ p.iif \in FwUser
      BY Ifaces, Parts, SMT DEF OnTheWay, Address
    <3> QED
      BY <3>1, InputIs, Zenon
  <2> QED
    BY <2>1, <2>2, <2>3, Zenon DEF PolicyIsolates
<1> QED
  BY <1>1, <1>2, <1>3, PTL DEF FirewallSpec
=============================================================================
