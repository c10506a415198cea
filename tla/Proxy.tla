------------------------------- MODULE Proxy -------------------------------
(***************************************************************************)
(* The HTTP proxy: its listeners (crates/proxy/src/listen.rs) and what it  *)
(* does with one request (crates/proxy/src/lib.rs handle_connection), with *)
(* the database and the control plane behind it (the proxy section of      *)
(* bentod/src/adapters.rs).  A request takes several steps, and between    *)
(* two of them the owner may change the instance, share it, or give its    *)
(* name up to another user.                                                *)
(*                                                                         *)
(* One instance name is routed.  A host is what request_host makes of the  *)
(* SNI name or the Host header: the base domain, the instance's name, a    *)
(* name under the instance domain that no instance has, or anything else.  *)
(* The addresses of a user's instances are of the user's own /24: here one *)
(* each, which the user's next instance gets when the last one is removed. *)
(***************************************************************************)
EXTENDS Naturals, Sequences

CONSTANTS Conn,         \* connections
          PxUser,       \* users; a request carries one, or none ("anon")
          PxPort,       \* the listener ports
          MainPort,     \* the one with the control plane and default HTTP port
          QueueCap,     \* accepted connections waiting (256 in the code)
          MaxUuids,     \* bound: instances that take the name, in turn
          MaxEdits      \* bound: changes of the instance while serving

VARIABLE px

pxvars == <<px>>

HostName == {"base", "name", "unknown", "elsewhere"}
Answer == {"none", "control", "not_found", "error", "redirect", "unavailable", "forwarded", "upgraded"}
ConnStage == {"idle", "backlog", "held", "queued", "handshake", "open", "lookup", "access", "forward",
              "upgraded", "ended"}
Instance == [uuid : 1..MaxUuids, owner : PxUser, visibility : {"off", "private", "public"}, state : {"Running", "Stopped"}]

\* visible, open and granted are kept for the property: the instances that
\* at some moment since the request arrived had the name and were visible,
\* were public with the request on the main port, or gave the caller access.
Connection == [stage : ConnStage, port : PxPort, sni : HostName \cup {"none"}, host : HostName,
               caller : PxUser \cup {"anon"}, instance : SUBSET Instance, answer : Answer,
               reached : SUBSET (1..MaxUuids),
               visible : SUBSET (1..MaxUuids), open : SUBSET (1..MaxUuids), granted : SUBSET (1..MaxUuids)]

IdleConn == [stage |-> "idle", port |-> MainPort, sni |-> "none", host |-> "elsewhere", caller |-> "anon",
             instance |-> {}, answer |-> "none", reached |-> {}, visible |-> {}, open |-> {}, granted |-> {}]

Init ==
  \E tls \in BOOLEAN, owner \in PxUser :
    px = [server |-> "binding", bound |-> {}, tls |-> tls, queue |-> <<>>,
          conn |-> [c \in Conn |-> IdleConn],
          row |-> {[uuid |-> 1, owner |-> owner, visibility |-> "private", state |-> "Running"]},
          address |-> [v \in PxUser |-> IF v = owner THEN {1} ELSE {}],
          owner |-> [u \in 1..MaxUuids |-> IF u = 1 THEN {owner} ELSE {}],
          access |-> [u \in 1..MaxUuids |-> IF u = 1 THEN {owner} ELSE {}], edits |-> 0]

-----------------------------------------------------------------------------
(* The instance behind the name, and who may use it.                       *)

\* The standing of a connection's caller at the present moment.
Witnessed(p, c) ==
  [c EXCEPT !.visible = @ \cup {r.uuid : r \in {r \in p.row : r.visibility # "off"}},
            !.open = @ \cup {r.uuid : r \in {r \in p.row : r.visibility = "public" /\ c.port = MainPort}},
            !.granted = @ \cup {u \in 1..MaxUuids : c.caller \in p.access[u]}]

WithWitnesses(p) == [p EXCEPT !.conn = [c \in Conn |-> Witnessed(p, p.conn[c])]]

Edit(new) ==
  /\ px.server = "serving" /\ px.edits < MaxEdits
  /\ px' = WithWitnesses([new EXCEPT !.edits = @ + 1])

\* visibility, start and stop, share and unshare; delete, and a new instance
\* that takes the name, or only the address (the shares go with the row).
SetVisibility == \E r \in px.row, v \in {"off", "private", "public"} :
                   r.visibility # v /\ Edit([px EXCEPT !.row = {[r EXCEPT !.visibility = v]}])
SetState == \E r \in px.row :
              Edit([px EXCEPT !.row = {[r EXCEPT !.state = IF @ = "Running" THEN "Stopped" ELSE "Running"]}])
Share == \E r \in px.row, u \in PxUser :
           Edit([px EXCEPT !.access[r.uuid] = IF u \in @ THEN @ \ {u} ELSE @ \cup {u}])
Created(p, r, u) ==
  [p EXCEPT !.access[r.uuid] = {}, !.access[r.uuid + 1] = {u}, !.owner[r.uuid + 1] = {u},
            !.address = [[@ EXCEPT ![r.owner] = {}] EXCEPT ![u] = {r.uuid + 1}]]
Handover == \E r \in px.row, u \in PxUser :
              /\ r.uuid < MaxUuids
              /\ Edit([Created(px, r, u) EXCEPT
                         !.row = {[uuid |-> r.uuid + 1, owner |-> u, visibility |-> "private", state |-> "Running"]}])
Replace == \E r \in px.row : r.uuid < MaxUuids /\ Edit([Created(px, r, r.owner) EXCEPT !.row = {}])

-----------------------------------------------------------------------------
(* Listeners.                                                              *)

\* Every port or none: the first failure drops the ones already bound.
listen_all ==
  /\ px.server = "binding"
  /\ \/ \E p \in PxPort \ px.bound :
          px' = [px EXCEPT !.bound = @ \cup {p}, !.server = IF px.bound \cup {p} = PxPort THEN "serving" ELSE @]
     \/ px' = [px EXCEPT !.bound = {}, !.server = "closed"]

\* A client dials a bound port.
Dial(c) ==
  /\ px.conn[c].stage = "idle" /\ px.server = "serving"
  /\ \E port \in px.bound : px' = [px EXCEPT !.conn[c].stage = "backlog", !.conn[c].port = port]

\* The acceptor of a port takes one connection and hands it over before it
\* takes the next.
accept(c) ==
  /\ px.conn[c].stage = "backlog" /\ px.server = "serving"
  /\ \A d \in Conn : px.conn[d].stage = "held" => px.conn[d].port # px.conn[c].port
  /\ px' = [px EXCEPT !.conn[c].stage = "held"]

enqueue(c) ==
  /\ px.conn[c].stage = "held" /\ Len(px.queue) < QueueCap
  /\ px' = [px EXCEPT !.conn[c].stage = "queued", !.queue = Append(@, c)]

spawn ==
  /\ px.server = "serving" /\ px.queue # <<>>
  /\ px' = [px EXCEPT !.conn[Head(px.queue)].stage = "handshake", !.queue = Tail(@)]

\* Shutdown, or a listener that fails: acceptors are stopped with whatever
\* they held, and queued connections are dropped.
stop_serving ==
  /\ px.server = "serving"
  /\ px' = [px EXCEPT !.server = "draining", !.bound = {}, !.queue = <<>>,
                      !.conn = [c \in Conn |-> IF @[c].stage \in {"backlog", "held", "queued"}
                                                 THEN [@[c] EXCEPT !.stage = "ended"] ELSE @[c]]]

\* Five seconds for the connections to finish; the rest are aborted.
grace_ends ==
  /\ px.server = "draining"
  /\ px' = [px EXCEPT !.server = "closed",
                      !.conn = [c \in Conn |-> IF @[c].stage \in {"idle", "upgraded"} THEN @[c]
                                               ELSE [@[c] EXCEPT !.stage = "ended"]]]

-----------------------------------------------------------------------------
(* One connection.                                                         *)

Alive == px.server \in {"serving", "draining"}
At(c, stage) == Alive /\ px.conn[c].stage = stage

serve_connection(c) ==
  /\ At(c, "handshake")
  /\ \/ px.tls /\ px' = [px EXCEPT !.conn[c].stage = "ended"]
     \/ \E sni \in IF px.tls THEN HostName \cup {"none"} ELSE {"none"} :
          px' = [px EXCEPT !.conn[c].stage = "open", !.conn[c].sni = sni]

\* A request on an open connection.  The SNI name, once given, decides for
\* every request of the connection; a draining server takes no new ones.
request_host(c, header) == IF px.conn[c].sni # "none" THEN px.conn[c].sni ELSE header

run_http(c) ==
  /\ At(c, "open")
  /\ \/ px' = [px EXCEPT !.conn[c].stage = "ended"]
     \/ /\ px.server = "serving"
        /\ \E header \in HostName, caller \in PxUser \cup {"anon"} :
             px' = [px EXCEPT !.conn[c] =
                      Witnessed(px, [@ EXCEPT !.stage = "lookup", !.host = request_host(c, header),
                                              !.caller = caller, !.instance = {}, !.answer = "none", !.reached = {},
                                              !.visible = {}, !.open = {}, !.granted = {}])]

Answers(c, answer) == px' = [px EXCEPT !.conn[c].stage = "open", !.conn[c].answer = answer]

\* The routing decision: the base domain first, then the instance's row.
route(c) ==
  LET conn == px.conn[c] IN
  /\ At(c, "lookup")
  /\ \/ conn.host = "base" /\ Answers(c, IF conn.port = MainPort THEN "control" ELSE "not_found")
     \/ conn.host \in {"unknown", "elsewhere"} /\ Answers(c, "not_found")
     \/ conn.host = "name" /\ Answers(c, "error")
     \/ conn.host = "name" /\ px.row = {} /\ Answers(c, "not_found")
     \/ /\ conn.host = "name"
        /\ \E r \in px.row :
             IF r.visibility = "off" THEN Answers(c, "not_found")
             ELSE px' = [px EXCEPT !.conn[c].instance = {r}, !.conn[c].stage = "access"]

\* Mutant of IsPrivate: a public instance is public on every port.
IsPublicEverywhere(c, r) == r.visibility = "private"

\* The extra ports are private whatever the visibility says.
IsPrivate(c, r) == r.visibility = "private" \/ px.conn[c].port # MainPort

\* The control plane's answer for the row that was read; an unreachable
\* control plane, or a row gone meanwhile, is no access.
remote_access(c, r) ==
  IF px.conn[c].caller = "anon" THEN "unauthenticated"
  ELSE IF px.conn[c].caller \in px.access[r.uuid] THEN "granted" ELSE "forbidden"

access(c) ==
  /\ At(c, "access")
  /\ \E r \in px.conn[c].instance, reachable \in BOOLEAN :
       LET standing == IF ~IsPrivate(c, r) THEN "granted"
                       ELSE IF reachable THEN remote_access(c, r) ELSE "forbidden" IN
       \/ standing = "unauthenticated" /\ Answers(c, "redirect")
       \/ standing = "forbidden" /\ Answers(c, "not_found")
       \/ standing = "granted" /\ r.state # "Running" /\ Answers(c, "unavailable")
       \/ standing = "granted" /\ r.state = "Running" /\ px' = [px EXCEPT !.conn[c].stage = "forward"]

\* Mutant of forward: the address is looked up again by the name.
forward_by_name(c) ==
  /\ At(c, "forward")
  /\ px' = [px EXCEPT !.conn[c].stage = "open", !.conn[c].answer = "forwarded",
                      !.conn[c].reached = {r.uuid : r \in px.row}]

\* The address that was read is dialled: the request reaches whoever has it
\* now, and an agreed upgrade joins the two connections in a task of its
\* own; or the dial fails.
forward(c) ==
  /\ At(c, "forward")
  /\ \/ \E r \in px.conn[c].instance, upgrade \in BOOLEAN :
          /\ px.address[r.owner] # {}
          /\ px' = [px EXCEPT !.conn[c].reached = px.address[r.owner],
                              !.conn[c].stage = IF upgrade THEN "upgraded" ELSE "open",
                              !.conn[c].answer = IF upgrade THEN "upgraded" ELSE "forwarded"]
     \/ Answers(c, "unavailable")

Next ==
  \/ listen_all \/ spawn \/ stop_serving \/ grace_ends
  \/ SetVisibility \/ SetState \/ Share \/ Handover \/ Replace
  \/ \E c \in Conn : \/ Dial(c) \/ accept(c) \/ enqueue(c) \/ serve_connection(c)
                     \/ run_http(c) \/ route(c) \/ access(c) \/ forward(c)

-----------------------------------------------------------------------------
ProxyTypeOK ==
  /\ px.server \in {"binding", "serving", "draining", "closed"} /\ px.bound \subseteq PxPort
  /\ px.queue \in Seq(Conn) /\ Len(px.queue) <= QueueCap
  /\ px.conn \in [Conn -> Connection] /\ px.row \subseteq Instance
  /\ px.address \in [PxUser -> SUBSET (1..MaxUuids)]

\* Only permitted requests reach an instance (lib.rs handle_connection),
\* whatever the owner does while the request is on its way: the instance it
\* was for had this name and was visible since the request arrived, and was
\* either public, with the request on the main port, or open to the caller.
\* The instance that gets it is that one, or one of the same owner that took
\* over its address meanwhile (forward): a name that changed hands carries
\* no request to the new owner that the old one allowed.  When the server
\* has closed, no port is bound and no connection is served but the upgraded
\* ones.
ProxyGates ==
  /\ \A c \in Conn : px.conn[c].answer \in {"forwarded", "upgraded"} =>
       \E r \in px.conn[c].instance :
         /\ px.conn[c].host = "name" /\ r.uuid \in px.conn[c].visible
         /\ r.uuid \in px.conn[c].open \cup px.conn[c].granted
         /\ \A u \in px.conn[c].reached : px.owner[u] = {r.owner}
  /\ px.server = "closed" =>
       px.bound = {} /\ \A c \in Conn : px.conn[c].stage \in {"idle", "upgraded", "ended"}
=============================================================================
