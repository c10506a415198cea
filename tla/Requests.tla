------------------------------ MODULE Requests ------------------------------
(***************************************************************************)
(* What users ask for, and the packet filter that follows.  A user reaches *)
(* the instances over three surfaces: the command line behind ssh (process *)
(* sshd), the JSON API and the dashboard pages (process serve).  A handler *)
(* reads the row, decides from that reading what it may do and with which  *)
(* values, and carries its plan out by uuid, one call at a time, while     *)
(* others do the same.  A call that changes what is published rebuilds the *)
(* one nftables table before it answers; each process keeps its own copy   *)
(* of the text it applied last and skips an apply that would repeat it.    *)
(*                                                                         *)
(* A command is the set of plans its handler may decide on now: the empty  *)
(* set when it refuses, <<>> when it answers without changing anything.    *)
(* Names, sizes and images are the lifecycle's (module Lifecycle); the     *)
(* effects here change what authorisation and the filter depend on.        *)
(***************************************************************************)
EXTENDS Naturals, Sequences, FiniteSets

CONSTANTS User, Uuid, Slot, Port, MaxRequests, MaxUpsets

\* There is a port to change to: with a single one no form would differ from its row.
ASSUME PortsDiffer == \E p, q \in Port : p # q

VARIABLES
  rows,      \* the instances table
  shares,    \* the shares table: <<uuid, user>>
  req,       \* the requests under way
  revoked,   \* the requests whose user lost the share since they were asked (history)
  asked,     \* how many requests have been made
  fw,        \* the Firewall object of each process
  table,     \* the rules the kernel has loaded
  applier,   \* the process that loaded them ({} at first; history)
  clean,     \* no row changed since that process last built (history)
  upsets     \* restarts and failed applies (bounded)

requestsVars == <<rows, shares, req, revoked, asked, fw, table, applier, clean, upsets>>

Process == {"serve", "sshd"}
Visibility == {"off", "private", "public"}

\* The process that runs a surface's handlers.
ProcessOf(surface) == IF surface = "cli" THEN "sshd" ELSE "serve"

Row == [live : BOOLEAN, used : BOOLEAN, owner : SUBSET User, visibility : Visibility,
        port : Port, running : BOOLEAN]

E(op, val) == [op |-> op, val |-> val]
NoValue == "none"

\* The plans of a handler that its checks let through.
Given(allowed, plans) == IF allowed THEN plans ELSE {}

IdleReq == [stage |-> "idle", surface |-> "api", plan |-> <<>>]

-----------------------------------------------------------------------------
(* The store's view of a row.                                              *)

IsOwner(a, u) == rows[u].live /\ rows[u].owner = {a}

\* has_access: the owner, or somebody the row is shared with.
has_access(a, u) == rows[u].live /\ (rows[u].owner = {a} \/ <<u, a>> \in shares)

\* instances_by_owner, instances_shared_with.
instances_by_owner(a) == {u \in Uuid : IsOwner(a, u)}
instances_shared_with(a) == {u \in Uuid : rows[u].live /\ <<u, a>> \in shares}

\* usage_for counts the rows of one owner.
usage_for(a) == Cardinality(instances_by_owner(a))

Unused == {u \in Uuid : ~rows[u].used}

-----------------------------------------------------------------------------
(* The command line: resolve is owner or share, resolve_owned the owner.   *)

resolve(a, u) == has_access(a, u)
resolve_owned(a, u) == resolve(a, u) /\ rows[u].owner = {a}

\* Mutant of rename: the command resolves like the read-only ones.
rename_shared(a, u) == Given(resolve(a, u), {<<E("rename", NoValue)>>})

new_command(a, u) == Given(u \in Unused, {<<E("create", NoValue)>>})
rm(a, u) == Given(resolve_owned(a, u), {<<E("remove", NoValue)>>})
start(a, u) ==
  Given(resolve(a, u), {IF rows[u].running THEN <<>> ELSE <<E("start", NoValue)>>})
stop(a, u) == Given(resolve(a, u), {<<E("stop", NoValue)>>})
restart(a, u) == Given(resolve(a, u), {<<E("restart", NoValue)>>})
rename(a, u) == Given(resolve_owned(a, u), {<<E("rename", NoValue)>>})
copy(a, u) ==
  Given(resolve(a, u) /\ ~rows[u].running, {<<E("copy", v)>> : v \in Unused})
resize(a, u) == Given(resolve_owned(a, u), {<<E("resize", NoValue)>>})
port(a, u) == Given(resolve_owned(a, u), {<<E("port", p)>> : p \in Port})
visibility(a, u) == Given(resolve_owned(a, u), {<<E("visibility", v)>> : v \in Visibility})

\* share: adding refuses the owner, revoking takes any user.
share(a, u) ==
  Given(resolve_owned(a, u), {<<E("share", b)>> : b \in User \ {a}}
                               \cup {<<E("unshare", b)>> : b \in User})

\* ls: what the caller owns, and what is shared with them.
ls(a) == instances_by_owner(a) \cup instances_shared_with(a)

CliPlans(a, u) ==
  new_command(a, u) \cup rm(a, u) \cup start(a, u) \cup stop(a, u) \cup restart(a, u)
    \cup rename(a, u) \cup copy(a, u) \cup resize(a, u) \cup port(a, u)
    \cup visibility(a, u) \cup share(a, u)

-----------------------------------------------------------------------------
(* The JSON API: every change is the owner's; a share only reads.          *)

can_read_instance(a, u) == rows[u].live /\ (rows[u].owner = {a} \/ <<u, a>> \in shares)
owned_instance(a, u) == rows[u].live /\ rows[u].owner = {a}

list_instances(a) == instances_by_owner(a) \cup instances_shared_with(a)

\* Mutant of lifecycle_action: whoever may read the instance may run it.
lifecycle_action_shared(a, u) ==
  Given(can_read_instance(a, u), {<<E(op, NoValue)>> : op \in {"start", "stop", "restart"}})

create_instance(a, u) == Given(u \in Unused, {<<E("create", NoValue)>>})
delete_instance(a, u) == Given(owned_instance(a, u), {<<E("remove", NoValue)>>})
lifecycle_action(a, u) ==
  Given(owned_instance(a, u), {<<E(op, NoValue)>> : op \in {"start", "stop", "restart"}})
rename_instance(a, u) == Given(owned_instance(a, u), {<<E("rename", NoValue)>>})
resize_instance(a, u) == Given(owned_instance(a, u), {<<E("resize", NoValue)>>})
set_port(a, u) == Given(owned_instance(a, u), {<<E("port", p)>> : p \in Port})
set_visibility(a, u) ==
  Given(owned_instance(a, u), {<<E("visibility", v)>> : v \in Visibility})
api_add_share(a, u) == Given(owned_instance(a, u), {<<E("share", b)>> : b \in User \ {a}})
api_remove_share(a, u) == Given(owned_instance(a, u), {<<E("unshare", b)>> : b \in User})

ApiPlans(a, u) ==
  create_instance(a, u) \cup delete_instance(a, u) \cup lifecycle_action(a, u)
    \cup rename_instance(a, u) \cup resize_instance(a, u) \cup set_port(a, u)
    \cup set_visibility(a, u) \cup api_add_share(a, u) \cup api_remove_share(a, u)

-----------------------------------------------------------------------------
(* The dashboard pages.                                                    *)

visible_instances(a) == instances_by_owner(a) \cup instances_shared_with(a)
owned(a, u) == can_read_instance(a, u) /\ rows[u].owner = {a}

\* create: the new row first, then, when the form asks, its publication.
page_create(a, u) ==
  Given(u \in Unused, {<<E("create", NoValue)>>,
                        <<E("create", NoValue), E("visibility", "public")>>})

\* The one switch of the settings form, against the row as it was read.
SwitchedTo(was, public) ==
  IF public THEN "public" ELSE IF was = "public" THEN "private" ELSE was

\* The settings form as it comes in: whether the resources and the name on
\* it differ from the row is all that its plan depends on.
SettingsForm == [port : Port, public : BOOLEAN, resized : BOOLEAN, named : BOOLEAN]

\* Resources, port, visibility, name; each only if it differs from the row
\* that was read.
SettingsPlan(u, form) ==
  LET to == SwitchedTo(rows[u].visibility, form.public) IN
  (IF form.resized THEN <<E("resize", NoValue)>> ELSE <<>>)
    \o (IF form.port # rows[u].port THEN <<E("port", form.port)>> ELSE <<>>)
    \o (IF to # rows[u].visibility THEN <<E("visibility", to)>> ELSE <<>>)
    \o (IF form.named THEN <<E("rename", NoValue)>> ELSE <<>>)

save_settings(a, u) == Given(owned(a, u), {SettingsPlan(u, form) : form \in SettingsForm})

page_add_share(a, u) == Given(owned(a, u), {<<E("share", b)>> : b \in User \ {a}})
page_remove_share(a, u) == Given(owned(a, u), {<<E("unshare", b)>> : b \in User})
action(a, u) == Given(owned(a, u), {<<E(op, NoValue)>> : op \in {"start", "stop", "restart"}})
delete(a, u) == Given(owned(a, u), {<<E("remove", NoValue)>>})

PagePlans(a, u) ==
  page_create(a, u) \cup save_settings(a, u) \cup page_add_share(a, u)
    \cup page_remove_share(a, u) \cup action(a, u) \cup delete(a, u)

Plans(surface, a, u) ==
  CASE surface = "cli" -> CliPlans(a, u)
    [] surface = "api" -> ApiPlans(a, u)
    [] surface = "page" -> PagePlans(a, u)

-----------------------------------------------------------------------------
(* A request: the handler's reading, then its plan, one effect at a time.  *)

Ask(r, surface, a, u) ==
  /\ req[r].stage = "idle" /\ asked < MaxRequests
  /\ \E plan \in Plans(surface, a, u) :
       /\ req' = [req EXCEPT ![r] = [stage |-> "run", user |-> a, surface |-> surface,
                                     uuid |-> u, plan |-> plan]]
       /\ LET fresh == {u : i \in {j \in DOMAIN plan : plan[j].op = "create"}}
                         \cup {plan[i].val : i \in {j \in DOMAIN plan : plan[j].op = "copy"}} IN
          rows' = [x \in Uuid |-> [rows[x] EXCEPT !.used = @ \/ x \in fresh]]
  /\ asked' = asked + 1 /\ revoked' = revoked \ {r}
  /\ UNCHANGED <<shares, fw, table, applier, clean, upsets>>

NewRow(a) == [live |-> TRUE, used |-> TRUE, owner |-> {a}, visibility |-> "off",
              port |-> CHOOSE p \in Port : TRUE, running |-> TRUE]

\* A uuid nobody has drawn yet.
NoRow == [live |-> FALSE, used |-> FALSE, owner |-> {}, visibility |-> "off",
          port |-> CHOOSE p \in Port : TRUE, running |-> FALSE]

\* The rows after an effect on u by a.
RowsAfter(a, u, e) ==
  CASE e.op = "create" -> [rows EXCEPT ![u] = NewRow(a)]
    [] e.op = "copy" -> [rows EXCEPT ![e.val] = NewRow(a)]
    [] e.op = "remove" -> [rows EXCEPT ![u].live = FALSE]
    [] e.op \in {"start", "restart"} -> [rows EXCEPT ![u].running = TRUE]
    [] e.op = "stop" -> [rows EXCEPT ![u].running = FALSE]
    [] e.op = "port" -> [rows EXCEPT ![u].port = e.val]
    [] e.op = "visibility" -> [rows EXCEPT ![u].visibility = e.val]
    [] OTHER -> rows

\* Mutant of SharesAfter: the foreign key does not cascade.
SharesKept(u, e) ==
  CASE e.op = "share" -> shares \cup {<<u, e.val>>}
    [] e.op = "unshare" -> shares \ {<<u, e.val>>}
    [] OTHER -> shares

\* add_share, remove_share, and the cascade of a deleted row.
SharesAfter(u, e) ==
  CASE e.op = "share" -> shares \cup {<<u, e.val>>}
    [] e.op = "unshare" -> shares \ {<<u, e.val>>}
    [] e.op = "remove" -> {s \in shares : s[1] # u}
    [] OTHER -> shares

\* What the call needs of the row at the moment it is made.
Possible(u, e) ==
  /\ e.op = "create" \/ rows[u].live
  /\ e.op = "unshare" => <<u, e.val>> \in shares
  /\ e.op = "copy" => ~rows[u].running

\* The calls that CliBackend and ApiBackend end with reload_firewall.
ReloadOps == {"create", "copy", "remove", "port", "visibility"}

\* machine_network: every live row, port 22, and its own port when published.
Rules(table_rows) ==
  {<<u, IF table_rows[u].visibility = "off" THEN {} ELSE {table_rows[u].port}>> :
     u \in {v \in Uuid : table_rows[v].live}}

Dirty == clean' = IF Rules(rows') = Rules(rows) THEN clean ELSE [p \in Process |-> FALSE]

\* The request q is under way for the user whose share of u the call takes back.
LosesShare(q, u, e) == e.op = "unshare" /\ q.stage # "idle" /\ q.uuid = u /\ q.user = e.val

\* The next call of the plan succeeds.
Effect(r) ==
  LET q == req[r]
      e == Head(q.plan) IN
  /\ q.stage = "run" /\ q.plan # <<>>
  /\ Possible(q.uuid, e)
  /\ rows' = RowsAfter(q.user, q.uuid, e)
  /\ shares' = SharesAfter(q.uuid, e)
  /\ req' = [req EXCEPT ![r].plan = Tail(@),
                        ![r].stage = IF e.op \in ReloadOps THEN "reload" ELSE "run"]
  /\ revoked' = revoked \cup {s \in Slot : LosesShare(req[s], q.uuid, e)}
  /\ Dirty
  /\ UNCHANGED <<asked, fw, table, applier, upsets>>

\* The next call fails and the handler answers with its error; the calls
\* before it stay done, the ones after it are never made.  Or the plan is done.
Answer(r) ==
  /\ req[r].stage = "run"
  /\ req' = [req EXCEPT ![r] = IdleReq] /\ revoked' = revoked \ {r}
  /\ UNCHANGED <<rows, shares, asked, fw, table, applier, clean, upsets>>

-----------------------------------------------------------------------------
(* Firewall.reload of process p, for request r, or for nobody (the         *)
(* convergence tick).                                                      *)

Resume(who, stage) ==
  req' = [r \in Slot |-> IF r \in who
                         THEN [req[r] EXCEPT !.stage = stage] ELSE req[r]]

\* Mutant of reload_changed: the text is remembered before it is applied.
reload_remembered(p, text) == fw' = [fw EXCEPT ![p] = [stage |-> "apply", last |-> {text}, text |-> text]]

\* A changed text waits for nft, under the lock.
reload_changed(p, text) == fw' = [fw EXCEPT ![p] = [stage |-> "apply", last |-> @.last, text |-> text]]

\* Take the lock, build from the database, compare with the last text.
reload(p, who) ==
  LET text == Rules(rows) IN
  /\ fw[p].stage = "idle"
  /\ clean' = [clean EXCEPT ![p] = TRUE]
  /\ IF fw[p].last = {text}
     THEN Resume(who, "run") /\ UNCHANGED fw
     ELSE Resume(who, "applying") /\ reload_changed(p, text)
  /\ UNCHANGED <<rows, shares, revoked, asked, table, applier, upsets>>

\* nft replaces the whole table in one transaction.
apply_ruleset(p) ==
  /\ fw[p].stage = "apply"
  /\ table' = fw[p].text /\ applier' = {p}
  /\ fw' = [fw EXCEPT ![p].stage = "idle", ![p].last = {fw[p].text}]
  /\ Resume({r \in Slot : req[r].stage = "applying" /\ ProcessOf(req[r].surface) = p}, "run")
  /\ UNCHANGED <<rows, shares, revoked, asked, clean, upsets>>

\* nft fails: the table is as it was, the request answers with the error.
apply_fails(p) ==
  /\ fw[p].stage = "apply" /\ upsets < MaxUpsets
  /\ upsets' = upsets + 1
  /\ fw' = [fw EXCEPT ![p].stage = "idle"]
  /\ clean' = [clean EXCEPT ![p] = FALSE]
  /\ req' = [r \in Slot |-> IF req[r].stage = "applying" /\ ProcessOf(req[r].surface) = p
                            THEN IdleReq ELSE req[r]]
  /\ UNCHANGED <<rows, shares, revoked, asked, table, applier>>

\* The convergence loop of the control plane.
converge == reload("serve", {})

reload_firewall(r) ==
  /\ req[r].stage = "reload"
  /\ reload(ProcessOf(req[r].surface), {r})

\* A process restarts: its requests are cut off, its Firewall starts empty.
Restart(p) ==
  /\ upsets < MaxUpsets
  /\ upsets' = upsets + 1
  /\ fw' = [fw EXCEPT ![p] = [stage |-> "idle", last |-> {}, text |-> {}]]
  /\ clean' = [clean EXCEPT ![p] = FALSE]
  /\ req' = [r \in Slot |-> IF ProcessOf(req[r].surface) = p THEN IdleReq ELSE req[r]]
  /\ UNCHANGED <<rows, shares, revoked, asked, table, applier>>

-----------------------------------------------------------------------------
RequestsInit ==
  /\ \/ rows = [u \in Uuid |-> NoRow] /\ shares = {}
     \/ \E a \in User, v \in Uuid :
          /\ rows = [[u \in Uuid |-> NoRow] EXCEPT ![v] = NewRow(a)]
          /\ shares \in SUBSET ({v} \X (User \ {a}))
  /\ asked = 0 /\ revoked = {} /\ table = {} /\ applier = {}
  /\ req = [r \in Slot |-> IdleReq]
  /\ fw = [p \in Process |-> [stage |-> "idle", last |-> {}, text |-> {}]]
  /\ clean = [p \in Process |-> FALSE]
  /\ upsets = 0

RequestsNext ==
  \/ \E r \in Slot, a \in User, u \in Uuid, surface \in {"cli", "api", "page"} :
       Ask(r, surface, a, u)
  \/ \E r \in Slot : Effect(r) \/ Answer(r) \/ reload_firewall(r)
  \/ converge
  \/ \E p \in Process : apply_ruleset(p) \/ apply_fails(p) \/ Restart(p)

RequestsSpec == RequestsInit /\ [][RequestsNext]_requestsVars

-----------------------------------------------------------------------------
\* The tables, requests and firewall objects have their types.
RequestsTypeOK ==
  /\ rows \in [Uuid -> Row]
  /\ shares \subseteq Uuid \X User
  /\ \A r \in Slot : req[r].stage \in {"idle", "run", "reload", "applying"}
  /\ \A p \in Process : fw[p].stage \in {"idle", "apply"} /\ Cardinality(fw[p].last) <= 1
  /\ applier \subseteq Process

OwnerOps == {"remove", "rename", "resize", "port", "visibility", "share", "unshare"}
OpsOf(surface, a, u) ==
  UNION {{plan[i].op : i \in DOMAIN plan} : plan \in Plans(surface, a, u)}

\* What the command line lets somebody do to an instance shared with them.
SharedOps == {"start", "stop", "restart", "copy"}

\* The three surfaces enforce one policy.  A call that a request has still to
\* make on a live instance is its owner's; or it is one of the command line's
\* calls for a share, and then the share is still there or was taken back
\* after the handler had let the request through.  So an "unshare" that has
\* been answered lets calls already under way finish (a "cp" then copies the
\* disk for somebody who has lost access), and nothing that is asked later;
\* no delete, create or publication of another request in between turns a
\* call over to an instance of somebody else.  And at rest (from any tables,
\* for a request may be answered before its next call) each surface offers a
\* user the same owner's operations on the same instances and lists the same
\* ones (resolve_owned, owned_instance, owned; ls, list_instances,
\* visible_instances).
SurfacesAgree ==
  /\ \A r \in Slot : \A i \in DOMAIN req[r].plan :
       LET q == req[r] IN
       (q.stage # "idle" /\ rows[q.uuid].live /\ rows[q.uuid].owner # {q.user}) =>
         /\ q.surface = "cli" /\ q.plan[i].op \in SharedOps
         /\ <<q.uuid, q.user>> \in shares \/ r \in revoked
  /\ (\A r \in Slot : req[r].stage = "idle") => \A a \in User :
       /\ ls(a) = list_instances(a) /\ ls(a) = visible_instances(a)
       /\ \A u \in Uuid : rows[u].live =>
            LET cli == OpsOf("cli", a, u)
                api == OpsOf("api", a, u) \cap OwnerOps IN
            /\ cli \cap OwnerOps = api /\ OpsOf("page", a, u) \cap OwnerOps = api
            /\ cli # {} => u \in ls(a)

\* A share names a live instance and somebody other than its owner, whatever
\* order shares, revocations and deletes of concurrent requests come in, so a
\* user who can reach an instance can see it listed exactly once.
SharesOfLiveInstances ==
  \A s \in shares : rows[s[1]].live /\ rows[s[1]].owner # {s[2]}

\* When the process that loaded the table has finished a reload that saw the
\* newest rows, the table is what those rows say: neither the skip of an
\* unchanged text, nor a failed apply, nor a change that arrives while the
\* lock is held leaves that process with a stale table (Firewall.reload).
OwnTableCurrent ==
  \A p \in Process :
    (fw[p].stage = "idle" /\ clean[p] /\ applier = {p}) => table = Rules(rows)

\* The documented promise, over both processes: once the control plane has
\* converged on the newest rows and no reload is under way or due anywhere,
\* the kernel's table is the one those rows call for (firewall.rs: "The
\* control plane applies it at startup and every poll tick").
TableFollowsStore ==
  ( /\ clean["serve"]
    /\ \A p \in Process : fw[p].stage = "idle"
    /\ \A r \in Slot : req[r].stage \in {"idle", "run"} ) => table = Rules(rows)
=============================================================================
