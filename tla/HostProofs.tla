----------------------------- MODULE HostProofs -----------------------------
(***************************************************************************)
(* What runs on each machine beside the instances: the libvirt connection  *)
(* that the tasks of a process share, for any tasks and any number of      *)
(* calls, sockets and faults; and NetworkSync, for any number of changes,  *)
(* reboots and faults.                                                     *)
(*                                                                         *)
(* That every call is answered once is far from inductive.  RpcInv adds    *)
(* where each call is: not yet written, among the requests of one socket,  *)
(* or among its replies; that serials tell the calls of one socket apart,  *)
(* also those of tasks that were dropped; what ensure_network has learnt   *)
(* by each of its calls; and that at most one task opens a socket, while   *)
(* nobody has one.                                                         *)
(***************************************************************************)
EXTENDS HypervisorRpc, NetworkSync, TLAPS

-----------------------------------------------------------------------------
(* HypervisorRpc: the records of a connection.                             *)

\* The records of a task, of a packet, of a socket and of the connection,
\* without the bounds of the model.
TaskRec == [op : Operation, stage : RpcStage, proc : Procedure, call : Nat, socket : Nat,
            serial : Nat, outcome : Outcome, stray : Nat]
PacketRec == [kind : {"reply", "message"}, serial : Nat, proc : Procedure, call : Nat, says : Says]
SocketRec == [opened : BOOLEAN, closed : BOOLEAN, ended : BOOLEAN, stream : SUBSET Task,
              serial : Nat, requests : Seq(PacketRec), replies : Seq(PacketRec)]
Ensured == {"defined", "autostart", "active"}
RpcRec == [task : [Task -> TaskRec], current : SUBSET Nat, opening : SUBSET Task,
           sockets : Seq(SocketRec), network : SUBSET Ensured, executed : Seq(Nat),
           advertised : Seq({"none", "sasl", "polkit"}), faults : Nat]

\* The packets of a queue, and that no two of them are of one call.
Members(s) == {s[i] : i \in DOMAIN s}
Once(s) == \A i, j \in DOMAIN s : s[i].call = s[j].call => i = j

\* The stages of a task that opens a socket, and of one whose call is on a
\* socket.
Handshake == {"connect", "auth_list", "auth_polkit", "connect_open"}
InFlight == {"lock", "read", "io_error"}

\* The calls of ensure_network, and what the task has learnt of the network
\* before each of them (client.rs).
Ensuring == {"network_lookup_by_name", "network_define_xml", "network_set_autostart", "network_is_active",
             "network_create"}
Known(proc) ==
  CASE proc = "network_set_autostart" -> {"defined"}
    [] proc \in {"network_is_active", "network_create"} -> {"defined", "autostart"}
    [] OTHER -> {}

\* What a reply shows of the network.
Shown(p) ==
  CASE p.proc = "network_lookup_by_name" /\ p.says # "no_network" -> {"defined"}
    [] p.proc = "network_define_xml" -> {"defined"}
    [] p.proc = "network_set_autostart" -> {"autostart"}
    [] p.proc = "network_is_active" /\ p.says # "inactive" -> {"active"}
    [] p.proc = "network_create" -> {"active"}
    [] OTHER -> {}

-----------------------------------------------------------------------------
(* The inductive invariant: tasks tk, sockets so, executions ex, network ne. *)

\* How far a task is: one at rest has read another call's reply only if it
\* failed for it, and has ensured a network only if the network is there; one
\* under way has read no such reply, and what it has learnt of the network is
\* true.
Reports(me, ne) ==
  IF me.stage = "idle"
  THEN /\ me.stray # 0 => me.outcome = "protocol"
       /\ me.op = "ensure_network" /\ me.outcome = "ok" => ne = Ensured
  ELSE /\ me.stray = 0 /\ me.outcome = "none"
       /\ me.op = "ensure_network" => me.proc \in Ensuring /\ Known(me.proc) \subseteq ne

\* Where the call of a task is: on a socket that exists, under a serial the
\* socket has given out; not carried out before it is written; and given up
\* only on a socket that is closed.
Placed(me, so, ex) ==
  /\ me.stage \in Handshake \ {"connect"} => me.socket \in DOMAIN so
  /\ me.stage \in InFlight =>
       me.socket \in DOMAIN so /\ me.serial <= so[me.socket].serial /\ me.call \in DOMAIN ex
  /\ me.stage = "io_error" => so[me.socket].closed
  /\ me.stage = "lock" => ex[me.call] = 0

\* The replies that wait on a socket, and all the packets of calls on it.
Answered(k) == {p \in Members(k.replies) : p.kind = "reply"}
Packets(k) == Members(k.requests) \cup Answered(k)

\* A socket: no packet is ahead of its serials, each request waits once and
\* is not carried out yet, and the replies on it show what is true of the
\* network.
SocketOK(k, ex, ne) ==
  /\ \A p \in Packets(k) : p.serial <= k.serial
  /\ \A p \in Members(k.requests) : p.kind = "reply" /\ p.call \in DOMAIN ex /\ ex[p.call] = 0
  /\ Once(k.requests)
  /\ \A p \in Answered(k) : Shown(p) \subseteq ne

\* Two tasks have different calls, and on one socket different serials. Two
\* sockets have different calls. A call that waits for its socket is on none.
\* The packet with a task's serial is of the task's call.
TasksApart(a, b) ==
  a.stage \in InFlight /\ b.stage \in InFlight =>
    a.call # b.call /\ (a.socket = b.socket => a.serial # b.serial)
SocketsApart(k, l) == \A p \in Members(k.requests), q \in Members(l.requests) : p.call # q.call
Unsent(me, k) == me.stage = "lock" => \A p \in Members(k.requests) : p.call # me.call
Answers(me, so) ==
  me.stage \in InFlight => \A p \in Packets(so[me.socket]) : p.serial = me.serial => p.call = me.call

\* The calls of the connection, each carried out at most once.
Calls(tk, so, ex, ne) ==
  /\ \A t \in Task : Reports(tk[t], ne) /\ Placed(tk[t], so, ex) /\ Answers(tk[t], so)
  /\ \A s \in DOMAIN so : SocketOK(so[s], ex, ne)
  /\ \A t, u \in Task : t # u => TasksApart(tk[t], tk[u])
  /\ \A s, u \in DOMAIN so : s # u => SocketsApart(so[s], so[u])
  /\ \A t \in Task, s \in DOMAIN so : Unsent(tk[t], so[s])
  /\ \A n \in DOMAIN ex : ex[n] <= 1

\* Sockets that are open and nobody gave up.
Live(k) == k.opened /\ ~k.closed /\ ~k.ended

\* One task at a time opens a socket, while there is no current one; and an
\* open socket that nobody gave up is the current one.
Opens(tk, cu, op, so) ==
  /\ \A t \in Task : tk[t].stage \in Handshake => op = {t}
  /\ op # {} => cu = {}
  /\ \A s, u \in cu : s = u
  /\ cu \subseteq DOMAIN so
  /\ \A s \in DOMAIN so : Live(so[s]) => s \in cu

\* The inductive invariant of the connection.
RpcInv ==
  /\ rpc \in RpcRec
  /\ Calls(rpc.task, rpc.sockets, rpc.executed, rpc.network)
  /\ Opens(rpc.task, rpc.current, rpc.opening, rpc.sockets)

-----------------------------------------------------------------------------
(* Sequences of packets. *)

\* An empty queue has no packets.
LEMMA RpcEmpty ==
  Members(<<>>) = {} /\ Once(<<>>) /\ \A S : <<>> \in Seq(S)
  BY SMT DEF Members, Once

\* A packet that goes to the end of a queue is added to it, and the calls of
\* the queue stay apart if its call is new.
LEMMA RpcAppend ==
  ASSUME NEW S, NEW s \in Seq(S), NEW e \in S
  PROVE  /\ Append(s, e) \in Seq(S) /\ Members(Append(s, e)) = Members(s) \cup {e}
         /\ Once(s) /\ (\A p \in Members(s) : p.call # e.call) => Once(Append(s, e))
<1>1. /\ Append(s, e) \in Seq(S) /\ DOMAIN Append(s, e) = 1 .. Len(s) + 1 /\ DOMAIN s = 1 .. Len(s)
      /\ Append(s, e)[Len(s) + 1] = e /\ \A i \in 1 .. Len(s) : Append(s, e)[i] = s[i]
  BY SMT
<1>2. Len(s) \in Nat
  BY SMT
<1>3. \A i \in 1 .. Len(s) + 1 : i \in 1 .. Len(s) \/ i = Len(s) + 1
  BY <1>2, SMT
<1>4. \A i \in 1 .. Len(s) : i \in 1 .. Len(s) + 1
  BY <1>2, SMT
<1>5. Len(s) + 1 \in 1 .. Len(s) + 1
  BY <1>2, SMT
<1>6. Members(Append(s, e)) = Members(s) \cup {e}
  <2>1. ASSUME NEW x \in Members(Append(s, e)) PROVE x \in Members(s) \cup {e}
    BY <1>1, <1>3, Zenon DEF Members
  <2>2. ASSUME NEW x \in Members(s) PROVE x \in Members(Append(s, e))
    BY <1>1, <1>4, Zenon DEF Members
  <2>3. e \in Members(Append(s, e))
    BY <1>1, <1>5, Zenon DEF Members
  <2> QED
    BY <2>1, <2>2, <2>3, Zenon
<1>7. ASSUME Once(s), \A p \in Members(s) : p.call # e.call
      PROVE  Once(Append(s, e))
  <2> SUFFICES ASSUME NEW i \in DOMAIN Append(s, e), NEW j \in DOMAIN Append(s, e),
                      Append(s, e)[i].call = Append(s, e)[j].call
               PROVE  i = j
    BY Zenon DEF Once
  <2>1. \A n \in 1 .. Len(s) : Append(s, e)[n] \in Members(s)
    BY <1>1, Zenon DEF Members
  <2>2. CASE i \in 1 .. Len(s) /\ j \in 1 .. Len(s)
    BY <2>2, <1>1, <1>7, Zenon DEF Once
  <2>3. CASE i \in 1 .. Len(s) /\ j = Len(s) + 1
    BY <2>3, <2>1, <1>1, <1>7, Zenon
  <2>4. CASE i = Len(s) + 1 /\ j \in 1 .. Len(s)
    BY <2>4, <2>1, <1>1, <1>7, Zenon
  <2>5. CASE i = Len(s) + 1 /\ j = Len(s) + 1
    BY <2>5
  <2> QED
    BY <2>2, <2>3, <2>4, <2>5, <1>1, <1>3, Zenon
<1> QED
  BY <1>1, <1>6, <1>7, Zenon

\* Without its first packet a queue has the others, and a call that was on it
\* once is gone.
LEMMA RpcTail ==
  ASSUME NEW S, NEW s \in Seq(S), s # <<>>
  PROVE  /\ Tail(s) \in Seq(S) /\ Head(s) \in Members(s) /\ Head(s) \in S
         /\ Members(Tail(s)) \subseteq Members(s)
         /\ Once(s) => Once(Tail(s)) /\ \A p \in Members(Tail(s)) : p.call # Head(s).call
<1>1. /\ Tail(s) \in Seq(S) /\ DOMAIN s = 1 .. Len(s) /\ DOMAIN Tail(s) = 1 .. Len(s) - 1
      /\ Head(s) = s[1] /\ 1 \in DOMAIN s /\ Head(s) \in S
  BY SMT
<1>2. \A i \in DOMAIN Tail(s) : i + 1 \in DOMAIN s /\ Tail(s)[i] = s[i + 1] /\ i + 1 # 1
  BY SMT
<1>3. \A i, j \in DOMAIN Tail(s) : i + 1 = j + 1 => i = j
  <2>1. \A i \in DOMAIN Tail(s) : i \in Nat
    BY SMT
  <2>2. \A i, j \in Nat : i + 1 = j + 1 => i = j
    BY SMT
  <2> QED
    BY <2>1, <2>2, Zenon
<1>4. ASSUME Once(s) PROVE Once(Tail(s)) /\ \A p \in Members(Tail(s)) : p.call # Head(s).call
  <2>1. ASSUME NEW i \in DOMAIN Tail(s), NEW j \in DOMAIN Tail(s), Tail(s)[i].call = Tail(s)[j].call
        PROVE  i = j
    <3>1. i + 1 = j + 1
      BY <2>1, <1>2, <1>4, ZenonT(60) DEF Once
    <3> QED
      BY <3>1, <1>3, Zenon
  <2>2. ASSUME NEW p \in Members(Tail(s)), p.call = Head(s).call PROVE FALSE
    <3>1. PICK i \in DOMAIN Tail(s) : p = Tail(s)[i]
      BY Zenon DEF Members
    <3>2. s[i + 1].call = s[1].call /\ i + 1 \in DOMAIN s
      BY <3>1, <2>2, <1>1, <1>2, Zenon
    <3> QED
      BY <3>2, <1>1, <1>2, <1>4, Zenon DEF Once
  <2> QED
    BY <2>1, <2>2, Zenon DEF Once
<1>5. ASSUME NEW x \in Members(Tail(s)) PROVE x \in Members(s)
  BY <1>2, Zenon DEF Members
<1>6. Head(s) \in Members(s)
  BY <1>1, Zenon DEF Members
<1> QED
  BY <1>1, <1>4, <1>5, <1>6, Zenon

-----------------------------------------------------------------------------
(* Steps that send nothing and carry nothing out. *)

\* A socket that loses packets or its other end.
Fewer(k, l) ==
  /\ Members(l.requests) \subseteq Members(k.requests) /\ Answered(l) \subseteq Answered(k)
  /\ Once(l.requests) /\ l.serial = k.serial /\ (k.closed => l.closed)

\* A task that makes no call.
Goes(a, b, so) ==
  /\ b.stage \in InFlight =>
       a.stage \in InFlight /\ b.call = a.call /\ b.socket = a.socket /\ b.serial = a.serial
  /\ b.stage = "lock" => a.stage = "lock"
  /\ b.stage = "io_error" => so[b.socket].closed
  /\ b.stage \in Handshake \ {"connect"} => b.socket \in DOMAIN so

\* A step in which no call is made, written or carried out keeps the calls in
\* order: packets and sockets may go, tasks may end, and sockets may be
\* added.
LEMMA QuietStep ==
  ASSUME NEW tk, NEW so, NEW ex, NEW ne, Calls(tk, so, ex, ne), NEW tk2, NEW so2,
         \A s \in DOMAIN so : s \in DOMAIN so2 /\ Fewer(so[s], so2[s]),
         \A s \in DOMAIN so2 : s \in DOMAIN so \/ so2[s] = FreshSocket,
         \A t \in Task : Reports(tk2[t], ne) /\ Goes(tk[t], tk2[t], so2)
  PROVE  Calls(tk2, so2, ex, ne)
<1>1. Members(FreshSocket.requests) = {} /\ Answered(FreshSocket) = {} /\ Once(FreshSocket.requests)
  BY RpcEmpty, Zenon DEF FreshSocket, Answered
<1>0. ASSUME NEW t \in Task
      PROVE  /\ Placed(tk[t], so, ex) /\ Answers(tk[t], so) /\ Goes(tk[t], tk2[t], so2)
             /\ tk2[t].stage \in InFlight =>
                  /\ tk[t].stage \in InFlight /\ tk2[t].call = tk[t].call /\ tk2[t].serial = tk[t].serial
                  /\ tk2[t].socket = tk[t].socket /\ tk[t].socket \in DOMAIN so
                  /\ Fewer(so[tk[t].socket], so2[tk[t].socket])
  <2>1. Placed(tk[t], so, ex) /\ Answers(tk[t], so) /\ Goes(tk[t], tk2[t], so2)
    BY Zenon DEF Calls
  <2> QED
    BY <2>1, Zenon DEF Placed, Goes
<1>2. ASSUME NEW t \in Task PROVE Placed(tk2[t], so2, ex)
  <2>1. ASSUME tk2[t].stage \in InFlight
        PROVE  /\ tk2[t].socket \in DOMAIN so2 /\ tk2[t].serial <= so2[tk2[t].socket].serial
               /\ tk2[t].call \in DOMAIN ex
    BY <2>1, <1>0, Zenon DEF Placed, Fewer
  <2>2. ASSUME tk2[t].stage = "lock" PROVE ex[tk2[t].call] = 0
    BY <2>2, <1>0, Zenon DEF Placed, Goes, InFlight
  <2> QED
    BY <2>1, <2>2, <1>0, Zenon DEF Placed, Goes
<1>3. ASSUME NEW t \in Task PROVE Answers(tk2[t], so2)
  <2>1. ASSUME tk2[t].stage \in InFlight PROVE Packets(so2[tk2[t].socket]) \subseteq Packets(so[tk[t].socket])
    BY <2>1, <1>0, Zenon DEF Fewer, Packets
  <2> QED
    BY <2>1, <1>0, Zenon DEF Answers
<1>4. ASSUME NEW s \in DOMAIN so2 PROVE SocketOK(so2[s], ex, ne)
  <2>1. CASE s \in DOMAIN so
    BY <2>1, Zenon DEF Calls, SocketOK, Fewer, Packets
  <2>2. CASE so2[s] = FreshSocket
    BY <2>2, <1>1, Zenon DEF SocketOK, Packets
  <2> QED
    BY <2>1, <2>2, Zenon
<1>5. ASSUME NEW t \in Task, NEW u \in Task, t # u PROVE TasksApart(tk2[t], tk2[u])
  <2>1. TasksApart(tk[t], tk[u])
    BY <1>5, Zenon DEF Calls
  <2> QED
    BY <2>1, <1>0, Zenon DEF TasksApart
<1>6. ASSUME NEW s \in DOMAIN so2, NEW u \in DOMAIN so2, s # u PROVE SocketsApart(so2[s], so2[u])
  <2>1. CASE s \in DOMAIN so /\ u \in DOMAIN so
    BY <2>1, <1>6, ZenonT(60) DEF Calls, SocketsApart, Fewer
  <2>2. CASE so2[s] = FreshSocket \/ so2[u] = FreshSocket
    BY <2>2, <1>1, Zenon DEF SocketsApart
  <2> QED
    BY <2>1, <2>2, Zenon
<1>7. ASSUME NEW t \in Task, NEW s \in DOMAIN so2 PROVE Unsent(tk2[t], so2[s])
  <2>1. CASE s \in DOMAIN so
    <3>1. Unsent(tk[t], so[s]) /\ Fewer(so[s], so2[s])
      BY <2>1, Zenon DEF Calls
    <3>2. tk2[t].stage = "lock" => tk[t].stage = "lock" /\ tk2[t].call = tk[t].call
      BY <1>0, Zenon DEF Goes, InFlight
    <3> QED
      BY <3>1, <3>2, Zenon DEF Unsent, Fewer
  <2>2. CASE so2[s] = FreshSocket
    BY <2>2, <1>1, Zenon DEF Unsent
  <2> QED
    BY <2>1, <2>2, Zenon
<1> QED
  BY <1>2, <1>3, <1>4, <1>5, <1>6, <1>7, Zenon DEF Calls

\* A step that opens no socket, and gives up only sockets that go out of use,
\* keeps the one current socket.
LEMMA OpensLess ==
  ASSUME NEW tk, NEW cu, NEW op, NEW so, Opens(tk, cu, op, so), NEW tk2, NEW cu2, NEW op2, NEW so2,
         cu2 \subseteq cu, op2 \subseteq op,
         \A t \in Task : tk2[t].stage \in Handshake => tk[t].stage \in Handshake /\ t \in op2,
         DOMAIN so \subseteq DOMAIN so2,
         \A s \in DOMAIN so2 : Live(so2[s]) => s \in DOMAIN so /\ Live(so[s]) /\ (s \in cu => s \in cu2)
  PROVE  Opens(tk2, cu2, op2, so2)
<1>1. ASSUME NEW t \in Task, tk2[t].stage \in Handshake PROVE op2 = {t}
  BY <1>1, Zenon DEF Opens
<1>2. ASSUME op2 # {} PROVE cu2 = {}
  BY <1>2, Zenon DEF Opens
<1> QED
  BY <1>1, <1>2, Zenon DEF Opens

-----------------------------------------------------------------------------
(* A new call. *)

\* The task t makes a call on the socket s: it takes the next number and the
\* next serial of the socket, which nobody on it has (RpcApi::request).
NewCall(tk, so, ex, ne, t, s, tk2, so2, ex2) ==
  /\ ex2 = Append(ex, 0) /\ DOMAIN so2 = DOMAIN so
  /\ \A u \in Task : u # t => tk2[u] = tk[u]
  /\ tk2[t].stage = "lock" /\ tk2[t].socket = s /\ tk2[t].serial = so[s].serial + 1
  /\ tk2[t].call = Len(ex) + 1 /\ Reports(tk2[t], ne)
  /\ \A u \in DOMAIN so : /\ so2[u].requests = so[u].requests /\ so2[u].replies = so[u].replies
                          /\ so2[u].closed = so[u].closed
                          /\ so2[u].serial = IF u = s THEN so[u].serial + 1 ELSE so[u].serial

\* A new call keeps the calls in order: number and serial are fresh.
LEMMA SendStep ==
  ASSUME NEW tk, NEW so, NEW ex, NEW ne, Calls(tk, so, ex, ne), NEW tk2, NEW so2, NEW ex2,
         \A s \in DOMAIN so : so[s] \in SocketRec, ex \in Seq(Nat), \A u \in Task : tk[u] \in TaskRec,
         NEW t \in Task, NEW s \in DOMAIN so, NewCall(tk, so, ex, ne, t, s, tk2, so2, ex2)
  PROVE  Calls(tk2, so2, ex2, ne)
<1> USE DEF NewCall
<1>1. /\ DOMAIN ex = 1 .. Len(ex) /\ Len(ex) \in Nat /\ DOMAIN ex2 = 1 .. Len(ex) + 1
      /\ ex2[Len(ex) + 1] = 0 /\ \A i \in DOMAIN ex : ex2[i] = ex[i]
  BY SMT
<1>2. Len(ex) + 1 \in DOMAIN ex2 /\ Len(ex) + 1 \notin DOMAIN ex /\ DOMAIN ex \subseteq DOMAIN ex2
  BY <1>1, SMT
<1>3. \A u \in DOMAIN so : /\ Members(so2[u].requests) = Members(so[u].requests) /\ Answered(so2[u]) = Answered(so[u])
                           /\ Packets(so2[u]) = Packets(so[u])
  BY Zenon DEF Answered, Packets
<1>4. ASSUME NEW u \in DOMAIN so
      PROVE  so[u].serial \in Nat /\ so2[u].serial \in Nat /\ so[u].serial <= so2[u].serial
  <2>1. so[u] \in SocketRec /\ so2[u].serial = IF u = s THEN so[u].serial + 1 ELSE so[u].serial
    BY Zenon
  <2>2. so[u].serial \in Nat
    BY <2>1, Zenon DEF SocketRec
  <2> QED
    BY <2>1, <2>2, SMT
<1>5. ASSUME NEW u \in Task PROVE tk[u].serial \in Nat
  BY Zenon DEF TaskRec
<1>6. ASSUME NEW u \in DOMAIN so, NEW p \in Packets(so[u]) PROVE p.serial \in Nat /\ p.serial <= so2[u].serial
  <2>1. p \in PacketRec
    <3>1. so[u].requests \in Seq(PacketRec) /\ so[u].replies \in Seq(PacketRec)
      BY SMT DEF SocketRec
    <3> QED
      BY <3>1, SMT DEF Packets, Answered, Members
  <2>2. p.serial \in Nat
    BY <2>1, SMT DEF PacketRec
  <2>3. p.serial <= so[u].serial
    BY Zenon DEF Calls, SocketOK
  <2> QED
    BY <2>2, <2>3, <1>4, SMT
<1>7. ASSUME NEW u \in Task PROVE Placed(tk2[u], so2, ex2)
  <2>1. CASE u = t
    <3>1. so[s].serial + 1 = so2[s].serial /\ so2[s].serial <= so2[s].serial
      BY <1>4, SMT
    <3> QED
      BY <2>1, <3>1, <1>1, <1>2, Zenon DEF Placed, Handshake
  <2>2. CASE u # t
    <3>1. tk2[u] = tk[u] /\ Placed(tk[u], so, ex)
      BY <2>2, Zenon DEF Calls
    <3>2. ASSUME tk[u].stage \in InFlight PROVE tk[u].serial <= so2[tk[u].socket].serial
      <4>1. tk[u].socket \in DOMAIN so /\ tk[u].serial <= so[tk[u].socket].serial
        BY <3>1, <3>2, Zenon DEF Placed
      <4> QED
        BY <4>1, <1>4, <1>5, SMT
    <3>3. ASSUME tk[u].stage = "lock" PROVE ex2[tk[u].call] = 0
      <4>1. tk[u].call \in DOMAIN ex /\ ex[tk[u].call] = 0
        BY <3>1, <3>3, Zenon DEF Placed, InFlight
      <4> QED
        BY <4>1, <1>1, Zenon
    <3>4. ASSUME tk[u].stage = "io_error" PROVE so2[tk[u].socket].closed
      <4>1. tk[u].socket \in DOMAIN so /\ so[tk[u].socket].closed
        BY <3>1, <3>4, Zenon DEF Placed, InFlight
      <4> QED
        BY <4>1, Zenon
    <3> QED
      BY <3>1, <3>2, <3>3, <3>4, <1>2, Zenon DEF Placed
  <2> QED
    BY <2>1, <2>2, Zenon
<1>8. ASSUME NEW u \in Task PROVE Answers(tk2[u], so2)
  <2>1. CASE u = t
    <3>1. ASSUME NEW p \in Packets(so[s]) PROVE p.serial # so[s].serial + 1
      <4>1. p.serial <= so[s].serial
        BY Zenon DEF Calls, SocketOK
      <4> QED
        BY <4>1, <1>4, <1>6, SMT
    <3> QED
      BY <2>1, <3>1, <1>3, ZenonT(60) DEF Answers
  <2>2. CASE u # t
    <3>1. tk2[u] = tk[u] /\ Placed(tk[u], so, ex) /\ Answers(tk[u], so)
      BY <2>2, Zenon DEF Calls
    <3>2. tk[u].stage \in InFlight => Packets(so2[tk[u].socket]) = Packets(so[tk[u].socket])
      BY <3>1, <1>3, Zenon DEF Placed
    <3> QED
      BY <3>1, <3>2, ZenonT(60) DEF Answers
  <2> QED
    BY <2>1, <2>2, Zenon
<1>9. ASSUME NEW u \in DOMAIN so2 PROVE SocketOK(so2[u], ex2, ne)
  <2>1. \A p \in Packets(so2[u]) : p.serial <= so2[u].serial
    BY <1>3, <1>6, Zenon
  <2>2. SocketOK(so[u], ex, ne) /\ so2[u].requests = so[u].requests /\ Answered(so2[u]) = Answered(so[u])
    BY <1>3, Zenon DEF Calls
  <2>3. ASSUME NEW p \in Members(so[u].requests)
        PROVE  p.kind = "reply" /\ p.call \in DOMAIN ex2 /\ ex2[p.call] = 0
    <3>1. p.kind = "reply" /\ p.call \in DOMAIN ex /\ ex[p.call] = 0
      BY <2>2, Zenon DEF SocketOK
    <3> QED
      BY <3>1, <1>1, <1>2, Zenon
  <2> QED
    BY <2>1, <2>2, <2>3, Zenon DEF SocketOK
<1>10. ASSUME NEW u \in Task, u # t PROVE TasksApart(tk2[u], tk2[t]) /\ TasksApart(tk2[t], tk2[u])
  <2>1. ASSUME tk[u].stage \in InFlight
        PROVE  tk[u].call # Len(ex) + 1 /\ (tk[u].socket = s => tk[u].serial # so[s].serial + 1)
    <3>1. tk[u].call \in DOMAIN ex /\ (tk[u].socket = s => tk[u].serial <= so[s].serial)
      BY <2>1, Zenon DEF Calls, Placed
    <3>2. tk[u].socket = s => tk[u].serial # so[s].serial + 1
      BY <3>1, <1>4, <1>5, SMT
    <3> QED
      BY <3>1, <3>2, <1>2, Zenon
  <2> QED
    BY <2>1, <1>10, Zenon DEF TasksApart
<1>11. ASSUME NEW u \in Task, NEW v \in Task, u # v PROVE TasksApart(tk2[u], tk2[v])
  BY <1>10, <1>11, Zenon DEF Calls
<1>12. ASSUME NEW u \in DOMAIN so2, NEW v \in DOMAIN so2, u # v PROVE SocketsApart(so2[u], so2[v])
  <2>1. SocketsApart(so[u], so[v])
    BY <1>12, Zenon DEF Calls
  <2> QED
    BY <2>1, <1>3, ZenonT(60) DEF SocketsApart
<1>13. ASSUME NEW u \in Task, NEW v \in DOMAIN so2 PROVE Unsent(tk2[u], so2[v])
  <2>1. CASE u = t
    <3>1. SocketOK(so[v], ex, ne)
      BY Zenon DEF Calls
    <3>2. \A p \in Members(so2[v].requests) : p.call \in DOMAIN ex
      BY <3>1, <1>3, Zenon DEF SocketOK
    <3>3. \A p \in Members(so2[v].requests) : p.call # tk2[t].call
      BY <3>2, <1>2, SMT
    <3> QED
      BY <2>1, <3>3, Zenon DEF Unsent
  <2>2. CASE u # t
    <3>1. tk2[u] = tk[u] /\ Unsent(tk[u], so[v])
      BY <2>2, Zenon DEF Calls
    <3> QED
      BY <3>1, <1>3, Zenon DEF Unsent
  <2> QED
    BY <2>1, <2>2, Zenon
<1>14. ASSUME NEW n \in DOMAIN ex2 PROVE ex2[n] <= 1
  <2>1. n \in DOMAIN ex \/ n = Len(ex) + 1
    BY <1>1, SMT
  <2>2. ASSUME n \in DOMAIN ex PROVE ex2[n] <= 1
    BY <2>2, <1>1, Zenon DEF Calls
  <2> QED
    BY <2>1, <2>2, <1>1, SMT
<1>15. \A u \in Task : Reports(tk2[u], ne)
  BY Zenon DEF Calls
<1> QED
  BY <1>7, <1>8, <1>9, <1>11, <1>12, <1>13, <1>14, <1>15, Zenon DEF Calls

-----------------------------------------------------------------------------
(* A request is written. *)

\* The task t writes the request q of its call to its socket
\* (Transport::request).
Writes(tk, so, ne, t, q, tk2, so2) ==
  /\ q.kind = "reply" /\ q.serial = tk[t].serial /\ q.call = tk[t].call
  /\ \A u \in Task : u # t => tk2[u] = tk[u]
  /\ tk2[t].stage = "read" /\ tk2[t].socket = tk[t].socket /\ tk2[t].serial = tk[t].serial
  /\ tk2[t].call = tk[t].call /\ Reports(tk2[t], ne) /\ DOMAIN so2 = DOMAIN so
  /\ \A u \in DOMAIN so : /\ so2[u].replies = so[u].replies
                          /\ so2[u].closed = so[u].closed /\ so2[u].serial = so[u].serial
                          /\ u # tk[t].socket => so2[u].requests = so[u].requests
  /\ so2[tk[t].socket].requests = Append(so[tk[t].socket].requests, q)

\* Writing a request keeps the calls in order: the call was on no socket
\* before.
LEMMA WriteStep ==
  ASSUME NEW tk, NEW so, NEW ex, NEW ne, Calls(tk, so, ex, ne), NEW tk2, NEW so2,
         \A u \in DOMAIN so : so[u] \in SocketRec,
         NEW t \in Task, tk[t].stage = "lock", NEW q \in PacketRec, Writes(tk, so, ne, t, q, tk2, so2)
  PROVE  Calls(tk2, so2, ex, ne)
<1> \A u \in DOMAIN so : /\ so2[u].replies = so[u].replies
                         /\ so2[u].closed = so[u].closed /\ so2[u].serial = so[u].serial
                         /\ u # tk[t].socket => so2[u].requests = so[u].requests
  BY Zenon DEF Writes
<1> q.kind = "reply" /\ q.serial = tk[t].serial /\ q.call = tk[t].call
  BY Zenon DEF Writes
<1> \A u \in Task : u # t => tk2[u] = tk[u]
  BY Zenon DEF Writes
<1> /\ tk2[t].stage = "read" /\ tk2[t].socket = tk[t].socket /\ tk2[t].serial = tk[t].serial
    /\ tk2[t].call = tk[t].call /\ Reports(tk2[t], ne) /\ DOMAIN so2 = DOMAIN so
    /\ so2[tk[t].socket].requests = Append(so[tk[t].socket].requests, q)
  BY Zenon DEF Writes
<1> DEFINE s == tk[t].socket
<1>1. s \in DOMAIN so /\ q.serial <= so[s].serial /\ q.call \in DOMAIN ex /\ ex[q.call] = 0
  <2>1. Placed(tk[t], so, ex)
    BY Zenon DEF Calls
  <2> QED
    BY <2>1, Zenon DEF Placed, InFlight
<1>2. ASSUME NEW v \in DOMAIN so, NEW p \in Members(so[v].requests) PROVE p.call # q.call
  BY ZenonT(60) DEF Calls, Unsent
<1>3. /\ Members(so2[s].requests) = Members(so[s].requests) \cup {q} /\ Once(so2[s].requests)
  <2>1. so[s].requests \in Seq(PacketRec) /\ Once(so[s].requests)
    BY <1>1, Zenon DEF SocketRec, Calls, SocketOK
  <2>2. \A p \in Members(so[s].requests) : p.call # q.call
    BY <1>1, <1>2, ZenonT(60)
  <2>3. /\ Members(Append(so[s].requests, q)) = Members(so[s].requests) \cup {q}
        /\ Once(so[s].requests) /\ (\A p \in Members(so[s].requests) : p.call # q.call)
             => Once(Append(so[s].requests, q))
    BY <2>1, RpcAppend, SMT
  <2> QED
    BY <2>1, <2>2, <2>3, Zenon
<1>4. \A v \in DOMAIN so : /\ Answered(so2[v]) = Answered(so[v])
                           /\ v # s => Members(so2[v].requests) = Members(so[v].requests) /\ Packets(so2[v]) = Packets(so[v])
  BY Zenon DEF Answered, Packets
<1>5. Packets(so2[s]) = Packets(so[s]) \cup {q}
  BY <1>1, <1>3, <1>4, Zenon DEF Packets
<1>6. ASSUME NEW u \in Task
      PROVE  /\ Placed(tk[u], so, ex) /\ Answers(tk[u], so) /\ tk2[u].call = tk[u].call
             /\ tk2[u].socket = tk[u].socket /\ tk2[u].serial = tk[u].serial
             /\ (tk2[u].stage \in InFlight => tk[u].stage \in InFlight)
             /\ (tk2[u].stage = "lock" => u # t /\ tk[u].stage = "lock")
             /\ (tk2[u].stage \notin {"lock", "read"} => tk2[u].stage = tk[u].stage)
  <2>1. Placed(tk[u], so, ex) /\ Answers(tk[u], so)
    BY Zenon DEF Calls
  <2>2. CASE u = t
    BY <2>1, <2>2, Zenon DEF InFlight
  <2>3. CASE u # t
    <3>1. tk2[u] = tk[u]
      BY <2>3, Zenon
    <3> QED
      BY <2>1, <2>3, <3>1, Zenon
  <2> QED
    BY <2>2, <2>3, Zenon
<1>7. ASSUME NEW u \in Task PROVE Placed(tk2[u], so2, ex)
  <2>1. ASSUME tk2[u].stage \in InFlight
        PROVE  /\ tk2[u].socket \in DOMAIN so2 /\ tk2[u].serial <= so2[tk2[u].socket].serial
               /\ tk2[u].call \in DOMAIN ex
    <3>1. /\ tk[u].socket \in DOMAIN so /\ tk[u].serial <= so[tk[u].socket].serial
          /\ tk[u].call \in DOMAIN ex
      BY <2>1, <1>6, Zenon DEF Placed
    <3>2. so2[tk[u].socket].serial = so[tk[u].socket].serial
      BY <3>1, Zenon
    <3> QED
      BY <3>1, <3>2, <1>6, Zenon
  <2>2. ASSUME tk2[u].stage = "lock" PROVE ex[tk2[u].call] = 0
    BY <2>2, <1>6, ZenonT(60) DEF Placed
  <2>3. ASSUME tk2[u].stage = "io_error" PROVE so2[tk2[u].socket].closed
    BY <2>1, <2>3, <1>6, Zenon DEF Placed, InFlight
  <2>4. ASSUME tk2[u].stage \in Handshake \ {"connect"} PROVE tk2[u].socket \in DOMAIN so2
    BY <2>4, <1>6, Zenon DEF Placed, Handshake
  <2> QED
    BY <2>1, <2>2, <2>3, <2>4, Zenon DEF Placed
<1>8. ASSUME NEW u \in Task, tk2[u].stage \in InFlight, NEW p \in Packets(so2[tk2[u].socket]),
             p.serial = tk2[u].serial
      PROVE  p.call = tk2[u].call
  <2>1. tk[u].stage \in InFlight /\ tk[u].socket \in DOMAIN so
    BY <1>6, <1>8, Zenon DEF Placed
  <2>2. CASE p \in Packets(so[tk[u].socket])
    BY <2>1, <2>2, <1>6, <1>8, ZenonT(60) DEF Answers
  <2>3. CASE p = q /\ tk[u].socket = s
    <3>1. u # t => TasksApart(tk[u], tk[t])
      BY Zenon DEF Calls
    <3>2. u = t
      BY <2>1, <2>3, <3>1, <1>6, <1>8, Zenon DEF TasksApart, InFlight
    <3> QED
      BY <3>2, <2>3, <1>6, Zenon
  <2>4. p \in Packets(so2[tk[u].socket])
    BY <1>6, <1>8, Zenon
  <2> QED
    BY <2>1, <2>2, <2>3, <2>4, <1>4, <1>5, Zenon
<1>9. ASSUME NEW v \in DOMAIN so2 PROVE SocketOK(so2[v], ex, ne)
  <2>1. SocketOK(so[v], ex, ne) /\ Answered(so2[v]) = Answered(so[v]) /\ so2[v].serial = so[v].serial
    BY <1>4, Zenon DEF Calls
  <2>2. CASE v = s
    BY <2>1, <2>2, <1>1, <1>3, <1>5, Zenon DEF SocketOK
  <2>3. CASE v # s
    <3>1. so2[v].requests = so[v].requests /\ Packets(so2[v]) = Packets(so[v])
      BY <2>3, <1>4, Zenon
    <3> QED
      BY <2>1, <3>1, Zenon DEF SocketOK
  <2> QED
    BY <2>2, <2>3, Zenon
<1>10. ASSUME NEW u \in Task, NEW v \in Task, u # v PROVE TasksApart(tk2[u], tk2[v])
  <2>1. TasksApart(tk[u], tk[v])
    BY <1>10, Zenon DEF Calls
  <2> QED
    BY <2>1, <1>6, Zenon DEF TasksApart
<1>11. ASSUME NEW u \in DOMAIN so2, NEW v \in DOMAIN so2, u # v PROVE SocketsApart(so2[u], so2[v])
  <2>1. SocketsApart(so[u], so[v])
    BY <1>11, Zenon DEF Calls
  <2>2. \A w \in DOMAIN so : \A p \in Members(so2[w].requests) : p \in Members(so[w].requests) \/ (w = s /\ p = q)
    BY <1>3, <1>4, Zenon
  <2>3. ASSUME NEW p \in Members(so2[u].requests), NEW o \in Members(so2[v].requests) PROVE p.call # o.call
    <3>1. CASE p \in Members(so[u].requests) /\ o \in Members(so[v].requests)
      BY <3>1, <2>1, Zenon DEF SocketsApart
    <3>2. CASE u = s /\ p = q /\ o \in Members(so[v].requests)
      BY <3>2, <1>2, Zenon
    <3>3. CASE v = s /\ o = q /\ p \in Members(so[u].requests)
      BY <3>3, <1>2, Zenon
    <3> QED
      BY <3>1, <3>2, <3>3, <2>2, <1>11, Zenon
  <2> QED
    BY <2>3, Zenon DEF SocketsApart
<1>12. ASSUME NEW u \in Task, NEW v \in DOMAIN so2, tk2[u].stage = "lock", NEW p \in Members(so2[v].requests)
       PROVE  p.call # tk2[u].call
  <2>1. tk[u].stage = "lock" /\ u # t /\ tk2[u].call = tk[u].call
    BY <1>6, <1>12, Zenon
  <2>2. CASE p \in Members(so[v].requests)
    BY <2>1, <2>2, ZenonT(60) DEF Calls, Unsent
  <2>3. CASE p = q
    <3>1. TasksApart(tk[u], tk[t])
      BY <2>1, Zenon DEF Calls
    <3> QED
      BY <2>1, <2>3, <3>1, Zenon DEF TasksApart, InFlight
  <2> QED
    BY <2>2, <2>3, <1>3, <1>4, <1>12, Zenon
<1>13. \A u \in Task : Reports(tk2[u], ne) /\ Answers(tk2[u], so2)
  BY <1>8, Zenon DEF Calls, Answers
<1>14. \A u \in Task, v \in DOMAIN so2 : Unsent(tk2[u], so2[v])
  BY <1>12, Zenon DEF Unsent
<1>15. \A n \in DOMAIN ex : ex[n] <= 1
  BY Zenon DEF Calls
<1> QED
  BY <1>7, <1>9, <1>10, <1>11, <1>13, <1>14, <1>15, Zenon DEF Calls

-----------------------------------------------------------------------------
(* A request is carried out. *)

\* The daemon carries out the first request of the socket s and answers it
\* with q.
Executes(so, ex, s, q, so2, ex2) ==
  /\ so[s].requests # <<>>
  /\ q.kind = Head(so[s].requests).kind /\ q.serial = Head(so[s].requests).serial
  /\ q.call = Head(so[s].requests).call /\ DOMAIN so2 = DOMAIN so
  /\ \A u \in DOMAIN so : u # s => so2[u] = so[u]
  /\ so2[s].closed = so[s].closed /\ so2[s].serial = so[s].serial
  /\ so2[s].requests = Tail(so[s].requests) /\ so2[s].replies = Append(so[s].replies, q)
  /\ ex2 = [ex EXCEPT ![q.call] = @ + 1]

\* Carrying out a request keeps the calls in order: it was waiting once, so
\* it is carried out for the first time, and the answer has its serial.
LEMMA ExecuteStep ==
  ASSUME NEW tk, NEW so, NEW ex, NEW ne \in SUBSET Ensured, Calls(tk, so, ex, ne), NEW so2, NEW ex2,
         NEW ne2 \in SUBSET Ensured, ne \subseteq ne2, ex \in Seq(Nat),
         \A u \in DOMAIN so : so[u] \in SocketRec,
         NEW s \in DOMAIN so, NEW q \in PacketRec, Shown(q) \subseteq ne2, Executes(so, ex, s, q, so2, ex2)
  PROVE  Calls(tk, so2, ex2, ne2)
<1> USE DEF Executes
<1> DEFINE h == Head(so[s].requests)
<1>1. so[s].requests \in Seq(PacketRec) /\ so[s].replies \in Seq(PacketRec) /\ SocketOK(so[s], ex, ne)
  BY Zenon DEF SocketRec, Calls
<1>2. /\ h \in Members(so[s].requests) /\ Members(so2[s].requests) \subseteq Members(so[s].requests)
      /\ Once(so2[s].requests) /\ \A p \in Members(so2[s].requests) : p.call # q.call
  <2>1. Once(so[s].requests)
    BY <1>1, Zenon DEF SocketOK
  <2> QED
    BY <1>1, <2>1, RpcTail, ZenonT(60)
<1>3. q.kind = "reply" /\ q.call \in DOMAIN ex /\ ex[q.call] = 0 /\ h \in Packets(so[s])
  BY <1>1, <1>2, Zenon DEF SocketOK, Packets
<1>4. /\ DOMAIN ex2 = DOMAIN ex /\ ex2[q.call] = 1
      /\ \A n \in DOMAIN ex : n # q.call => ex2[n] = ex[n]
  BY <1>3, SMT
<1>5. Answered(so2[s]) = Answered(so[s]) \cup {q}
  <2>1. Members(Append(so[s].replies, q)) = Members(so[s].replies) \cup {q}
    BY <1>1, RpcAppend, SMT
  <2> QED
    BY <2>1, <1>3, Zenon DEF Answered
<1>6. ASSUME NEW v \in DOMAIN so, NEW p \in Packets(so2[v])
      PROVE  \E o \in Packets(so[v]) : o.serial = p.serial /\ o.call = p.call
  <2>1. CASE v # s
    BY <2>1, Zenon
  <2>2. CASE v = s /\ p = q
    BY <2>2, <1>3, Zenon
  <2>3. CASE v = s /\ p # q
    BY <2>3, <1>2, <1>5, Zenon DEF Packets
  <2> QED
    BY <2>1, <2>2, <2>3, Zenon
<1>7. ASSUME NEW v \in DOMAIN so, NEW p \in Members(so2[v].requests)
      PROVE  p \in Members(so[v].requests) /\ p.call # q.call
  <2>1. CASE v = s
    BY <2>1, <1>2, Zenon
  <2>2. CASE v # s
    <3>1. p \in Members(so[v].requests)
      BY <2>2, Zenon
    <3>2. SocketsApart(so[v], so[s])
      BY <2>2, Zenon DEF Calls
    <3> QED
      BY <3>1, <3>2, <1>2, Zenon DEF SocketsApart
  <2> QED
    BY <2>1, <2>2, Zenon
<1>8. ASSUME NEW v \in DOMAIN so PROVE so2[v].closed = so[v].closed /\ so2[v].serial = so[v].serial
  BY Zenon
<1>9. ASSUME NEW t \in Task PROVE Reports(tk[t], ne2) /\ Placed(tk[t], so2, ex2) /\ Answers(tk[t], so2)
  <2>1. Reports(tk[t], ne) /\ Placed(tk[t], so, ex) /\ Answers(tk[t], so) /\ Unsent(tk[t], so[s])
    BY Zenon DEF Calls
  <2>2. Reports(tk[t], ne2)
    <3>1. ne = Ensured => ne2 = Ensured
      BY Zenon
    <3>2. ASSUME Known(tk[t].proc) \subseteq ne PROVE Known(tk[t].proc) \subseteq ne2
      BY <3>2, Zenon
    <3> QED
      BY <2>1, <3>1, <3>2, Zenon DEF Reports
  <2>3. ASSUME tk[t].stage = "lock" PROVE ex2[tk[t].call] = 0
    <3>1. tk[t].call # q.call
      BY <2>1, <2>3, <1>2, Zenon DEF Unsent
    <3> QED
      BY <3>1, <2>1, <2>3, <1>4, Zenon DEF Placed, InFlight
  <2>4. Placed(tk[t], so2, ex2)
    <3>1. tk[t].stage = "io_error" => so2[tk[t].socket].closed
      BY <2>1, <1>8, Zenon DEF Placed, InFlight
    <3>2. tk[t].stage \in InFlight => tk[t].serial <= so2[tk[t].socket].serial
      BY <2>1, <1>8, Zenon DEF Placed
    <3> QED
      BY <2>1, <2>3, <3>1, <3>2, <1>4, Zenon DEF Placed
  <2>5. Answers(tk[t], so2)
    <3>1. ASSUME tk[t].stage \in InFlight, NEW p \in Packets(so2[tk[t].socket]), p.serial = tk[t].serial
          PROVE  p.call = tk[t].call
      <4>1. tk[t].socket \in DOMAIN so
        BY <2>1, <3>1, Zenon DEF Placed
      <4>2. PICK o \in Packets(so[tk[t].socket]) : o.serial = p.serial /\ o.call = p.call
        BY <4>1, <3>1, <1>6, Zenon
      <4> QED
        BY <4>2, <2>1, <3>1, Zenon DEF Answers
    <3> QED
      BY <3>1, Zenon DEF Answers
  <2> QED
    BY <2>2, <2>4, <2>5, Zenon
<1>10. ASSUME NEW v \in DOMAIN so2 PROVE SocketOK(so2[v], ex2, ne2)
  <2>1. SocketOK(so[v], ex, ne)
    BY Zenon DEF Calls
  <2>2. ASSUME NEW p \in Packets(so2[v]) PROVE p.serial <= so2[v].serial
    <3>1. PICK o \in Packets(so[v]) : o.serial = p.serial
      BY <1>6, Zenon
    <3> QED
      BY <3>1, <2>1, <1>8, Zenon DEF SocketOK
  <2>3. ASSUME NEW p \in Members(so2[v].requests)
        PROVE  p.kind = "reply" /\ p.call \in DOMAIN ex2 /\ ex2[p.call] = 0
    <3>1. p.kind = "reply" /\ p.call \in DOMAIN ex /\ ex[p.call] = 0 /\ p.call # q.call
      BY <2>1, <1>7, Zenon DEF SocketOK
    <3> QED
      BY <3>1, <1>4, Zenon
  <2>4. Once(so2[v].requests)
    BY <2>1, <1>2, Zenon DEF SocketOK
  <2>5. ASSUME NEW p \in Answered(so2[v]) PROVE Shown(p) \subseteq ne2
    <3>1. p \in Answered(so[v]) \/ p = q
      BY <1>5, Zenon
    <3> QED
      BY <3>1, <2>1, Zenon DEF SocketOK
  <2> QED
    BY <2>2, <2>3, <2>4, <2>5, Zenon DEF SocketOK
<1>11. ASSUME NEW u \in DOMAIN so2, NEW v \in DOMAIN so2, u # v PROVE SocketsApart(so2[u], so2[v])
  <2>1. SocketsApart(so[u], so[v])
    BY <1>11, Zenon DEF Calls
  <2> QED
    BY <2>1, <1>7, Zenon DEF SocketsApart
<1>12. \A t \in Task, v \in DOMAIN so2 : Unsent(tk[t], so2[v])
  BY <1>7, ZenonT(60) DEF Calls, Unsent
<1>13. ASSUME NEW n \in DOMAIN ex2 PROVE ex2[n] <= 1
  <2>1. CASE n = q.call
    BY <2>1, <1>4, SMT
  <2>2. CASE n # q.call
    BY <2>2, <1>4, Zenon DEF Calls
  <2> QED
    BY <2>1, <2>2, Zenon
<1>14. \A t, u \in Task : t # u => TasksApart(tk[t], tk[u])
  BY Zenon DEF Calls
<1> QED
  BY <1>9, <1>10, <1>11, <1>12, <1>13, <1>14, Zenon DEF Calls

-----------------------------------------------------------------------------
(* The steps of a task. *)

\* The fields of the connection have their types.
LEMMA RpcFields ==
  ASSUME rpc \in RpcRec
  PROVE  /\ rpc.task \in [Task -> TaskRec] /\ rpc.sockets \in Seq(SocketRec) /\ rpc.executed \in Seq(Nat)
         /\ rpc.current \in SUBSET Nat /\ rpc.opening \in SUBSET Task /\ rpc.network \in SUBSET Ensured
         /\ rpc.advertised \in Seq({"none", "sasl", "polkit"}) /\ rpc.faults \in Nat
         /\ DOMAIN rpc.sockets = 1 .. Len(rpc.sockets) /\ DOMAIN rpc.executed = 1 .. Len(rpc.executed)
         /\ \A t \in Task : rpc.task[t] \in TaskRec
         /\ \A s \in DOMAIN rpc.sockets : rpc.sockets[s] \in SocketRec
<1>1. /\ rpc.task \in [Task -> TaskRec] /\ rpc.sockets \in Seq(SocketRec) /\ rpc.executed \in Seq(Nat)
      /\ rpc.current \in SUBSET Nat /\ rpc.opening \in SUBSET Task /\ rpc.network \in SUBSET Ensured
      /\ rpc.advertised \in Seq({"none", "sasl", "polkit"}) /\ rpc.faults \in Nat
  BY Zenon DEF RpcRec
<1>2. DOMAIN rpc.sockets = 1 .. Len(rpc.sockets) /\ DOMAIN rpc.executed = 1 .. Len(rpc.executed)
  BY <1>1, SMT
<1>3. \A s \in DOMAIN rpc.sockets : rpc.sockets[s] \in SocketRec
  BY <1>1, SMT
<1>4. \A t \in Task : rpc.task[t] \in TaskRec
  BY <1>1, Zenon
<1> QED
  BY <1>1, <1>2, <1>3, <1>4, Zenon

\* A step of the connection that makes, writes and carries out no call, and
\* opens no socket, keeps the invariant.
LEMMA NothingSent ==
  ASSUME RpcInv, rpc' \in RpcRec, rpc'.executed = rpc.executed, rpc'.network = rpc.network,
         rpc'.current \subseteq rpc.current, rpc'.opening \subseteq rpc.opening,
         \A s \in DOMAIN rpc.sockets :
           s \in DOMAIN rpc'.sockets /\ (rpc'.sockets[s] = rpc.sockets[s] \/ Fewer(rpc.sockets[s], rpc'.sockets[s])),
         \A s \in DOMAIN rpc'.sockets :
           \/ /\ s \in DOMAIN rpc.sockets
              /\ Live(rpc'.sockets[s]) => Live(rpc.sockets[s]) /\ (s \in rpc.current => s \in rpc'.current)
           \/ rpc'.sockets[s] = FreshSocket,
         \A u \in Task :
           \/ rpc'.task[u] = rpc.task[u] /\ (u \in rpc.opening => u \in rpc'.opening)
           \/ /\ Reports(rpc'.task[u], rpc.network) /\ Goes(rpc.task[u], rpc'.task[u], rpc'.sockets)
              /\ rpc'.task[u].stage \in Handshake => rpc.task[u].stage \in Handshake /\ u \in rpc'.opening
  PROVE  RpcInv'
<1>1. /\ Calls(rpc.task, rpc.sockets, rpc.executed, rpc.network)
      /\ Opens(rpc.task, rpc.current, rpc.opening, rpc.sockets)
  BY Zenon DEF RpcInv
<1>2. ASSUME NEW s \in DOMAIN rpc.sockets PROVE Fewer(rpc.sockets[s], rpc'.sockets[s])
  <2>1. Fewer(rpc.sockets[s], rpc.sockets[s])
    BY <1>1, Zenon DEF Fewer, Calls, SocketOK
  <2> QED
    BY <2>1, Zenon
<1>3. ASSUME NEW u \in Task, rpc'.task[u] = rpc.task[u] PROVE Goes(rpc.task[u], rpc'.task[u], rpc'.sockets)
  <2>1. Placed(rpc.task[u], rpc.sockets, rpc.executed)
    BY <1>1, Zenon DEF Calls
  <2>2. ASSUME rpc.task[u].stage = "io_error" PROVE rpc'.sockets[rpc.task[u].socket].closed
    <3>1. rpc.task[u].socket \in DOMAIN rpc.sockets /\ rpc.sockets[rpc.task[u].socket].closed
      BY <2>1, <2>2, Zenon DEF Placed, InFlight
    <3> QED
      BY <3>1, <1>2, Zenon DEF Fewer
  <2> QED
    BY <1>3, <2>1, <2>2, Zenon DEF Goes, Placed
<1>4. \A u \in Task : Reports(rpc'.task[u], rpc.network) /\ Goes(rpc.task[u], rpc'.task[u], rpc'.sockets)
  BY <1>1, <1>3, Zenon DEF Calls
<1>5. Calls(rpc'.task, rpc'.sockets, rpc'.executed, rpc'.network)
  BY <1>1, <1>2, <1>4, QuietStep, Zenon
<1>6. ASSUME NEW u \in Task, rpc'.task[u].stage \in Handshake
      PROVE  rpc.task[u].stage \in Handshake /\ u \in rpc'.opening
  <2>1. CASE rpc'.task[u] = rpc.task[u] /\ (u \in rpc.opening => u \in rpc'.opening)
    BY <2>1, <1>1, <1>6, Zenon DEF Opens
  <2> QED
    BY <2>1, <1>6, Zenon
<1>7. ~Live(FreshSocket)
  BY Zenon DEF Live, FreshSocket
<1>8. ASSUME NEW s \in DOMAIN rpc'.sockets, Live(rpc'.sockets[s])
      PROVE  s \in DOMAIN rpc.sockets /\ Live(rpc.sockets[s]) /\ (s \in rpc.current => s \in rpc'.current)
  BY <1>7, <1>8, Zenon
<1>9. DOMAIN rpc.sockets \subseteq DOMAIN rpc'.sockets
  BY Zenon
<1>10. Opens(rpc'.task, rpc'.current, rpc'.opening, rpc'.sockets)
  BY <1>1, <1>6, <1>8, <1>9, OpensLess, SMTT(30)
<1> QED
  BY <1>5, <1>10, Zenon DEF RpcInv

\* An operation that ends leaves a task at rest, with its outcome.
LEMMA EndedFields ==
  ASSUME NEW r \in RpcRec, NEW t \in Task, NEW o \in Outcome, NEW e, e = Ended(r, t, o)
  PROVE  /\ e \in RpcRec /\ e.sockets = r.sockets /\ e.executed = r.executed /\ e.network = r.network
         /\ e.current = r.current /\ e.opening = r.opening /\ e.advertised = r.advertised /\ e.faults = r.faults
         /\ \A u \in Task : u # t => e.task[u] = r.task[u]
         /\ e.task[t].stage = "idle" /\ e.task[t].outcome = o /\ e.task[t].stray = r.task[t].stray
         /\ e.task[t].op = (IF o = "ok" THEN r.task[t].op ELSE "capabilities")
<1>1. r.task \in [Task -> TaskRec] /\ r.task[t] \in TaskRec
  BY Zenon DEF RpcRec
<1>2. PICK op : op = IF o = "ok" THEN r.task[t].op ELSE "capabilities"
  OBVIOUS
<1>3. PICK me : me = [r.task[t] EXCEPT !.stage = "idle", !.outcome = o, !.call = 0, !.socket = 0,
                                       !.serial = 0, !.proc = "connect_get_capabilities", !.op = op]
  OBVIOUS
<1>4. op \in Operation /\ "idle" \in RpcStage /\ "connect_get_capabilities" \in Procedure /\ 0 \in Nat
  <2>1. r.task[t].op \in Operation /\ "capabilities" \in Operation
    BY <1>1, Zenon DEF TaskRec, Operation
  <2> QED
    BY <2>1, <1>2, SMT DEF RpcStage, Procedure
<1>5. me \in TaskRec
  BY <1>1, <1>3, <1>4, Zenon DEF TaskRec
<1>6. me.stage = "idle" /\ me.outcome = o /\ me.stray = r.task[t].stray /\ me.op = op
  BY <1>1, <1>3, SMT DEF TaskRec
<1>7. e.task = [r.task EXCEPT ![t] = me]
  BY <1>2, <1>3, Zenon DEF Ended, RpcRec
<1>8. [r.task EXCEPT ![t] = me] \in [Task -> TaskRec]
  BY <1>1, <1>5, Zenon
<1>9. e = [r EXCEPT !.task = [r.task EXCEPT ![t] = me]]
  BY <1>2, <1>3, Zenon DEF Ended, RpcRec
<1>10. /\ e \in RpcRec /\ e.sockets = r.sockets /\ e.executed = r.executed /\ e.network = r.network
       /\ e.current = r.current /\ e.opening = r.opening /\ e.advertised = r.advertised /\ e.faults = r.faults
  BY <1>8, <1>9, Zenon DEF RpcRec
<1>11. e.task[t] = me /\ \A u \in Task : u # t => e.task[u] = r.task[u]
  BY <1>1, <1>7, Zenon
<1> QED
  BY <1>2, <1>6, <1>10, <1>11, Zenon

\* A step that changes one task, and makes no call, keeps the invariant.
LEMMA OneTask ==
  ASSUME RpcInv, NEW t \in Task, NEW me \in TaskRec, rpc' = [rpc EXCEPT !.task = [rpc.task EXCEPT ![t] = me]],
         Reports(me, rpc.network), Goes(rpc.task[t], me, rpc.sockets),
         me.stage \in Handshake => rpc.task[t].stage \in Handshake
  PROVE  RpcInv'
<1>1. rpc \in RpcRec /\ rpc.task \in [Task -> TaskRec]
  BY RpcFields, Zenon DEF RpcInv
<1>2. [rpc.task EXCEPT ![t] = me] \in [Task -> TaskRec]
  BY <1>1, Zenon
<1>3. /\ rpc' \in RpcRec /\ rpc'.task = [rpc.task EXCEPT ![t] = me] /\ rpc'.sockets = rpc.sockets
      /\ rpc'.executed = rpc.executed /\ rpc'.network = rpc.network
      /\ rpc'.current = rpc.current /\ rpc'.opening = rpc.opening
  BY <1>1, <1>2, Zenon DEF RpcRec
<1>4. rpc'.task[t] = me /\ \A u \in Task : u # t => rpc'.task[u] = rpc.task[u]
  BY <1>1, <1>3, SMT
<1>5. me.stage \in Handshake => t \in rpc'.opening
  BY <1>3, Zenon DEF RpcInv, Opens
<1>6. ASSUME NEW u \in Task
      PROVE  \/ rpc'.task[u] = rpc.task[u] /\ (u \in rpc.opening => u \in rpc'.opening)
             \/ /\ Reports(rpc'.task[u], rpc.network) /\ Goes(rpc.task[u], rpc'.task[u], rpc'.sockets)
                /\ rpc'.task[u].stage \in Handshake => rpc.task[u].stage \in Handshake /\ u \in rpc'.opening
  BY <1>3, <1>4, <1>5, Zenon
<1> QED
  BY <1>3, <1>6, NothingSent, Zenon

\* A task that goes on to another stage is otherwise the same.
LEMMA StageFields ==
  ASSUME NEW me \in TaskRec, NEW x \in RpcStage, NEW m, m = [me EXCEPT !.stage = x]
  PROVE  /\ m \in TaskRec /\ m.stage = x /\ m.op = me.op /\ m.proc = me.proc /\ m.call = me.call
         /\ m.socket = me.socket /\ m.serial = me.serial /\ m.outcome = me.outcome /\ m.stray = me.stray
<1>1. m \in TaskRec
  BY Zenon DEF TaskRec
<1>2. /\ m.stage = x /\ m.op = me.op /\ m.proc = me.proc /\ m.call = me.call
      /\ m.socket = me.socket /\ m.serial = me.serial /\ m.outcome = me.outcome /\ m.stray = me.stray
  BY SMT DEF TaskRec
<1> QED
  BY <1>1, <1>2, Zenon

\* A step that only takes a task to another stage keeps the invariant.
LEMMA StageStep ==
  ASSUME RpcInv, NEW t \in Task, NEW x \in RpcStage, x # "idle", rpc.task[t].stage # "idle",
         rpc' = [rpc EXCEPT !.task[t].stage = x],
         Goes(rpc.task[t], [rpc.task[t] EXCEPT !.stage = x], rpc.sockets),
         x \in Handshake => rpc.task[t].stage \in Handshake
  PROVE  RpcInv'
<1>1. rpc \in RpcRec /\ rpc.task[t] \in TaskRec
  BY RpcFields, Zenon DEF RpcInv
<1>2. PICK me : me = [rpc.task[t] EXCEPT !.stage = x]
  OBVIOUS
<1>3. me \in TaskRec /\ me.stage = x
  BY <1>1, <1>2, StageFields, Zenon
<1>4. Reports(me, rpc.network)
  <2>1. me.op = rpc.task[t].op /\ me.proc = rpc.task[t].proc /\ me.outcome = rpc.task[t].outcome /\ me.stray = rpc.task[t].stray
    BY <1>1, <1>2, StageFields, SMT
  <2>2. Reports(rpc.task[t], rpc.network)
    BY Zenon DEF RpcInv, Calls
  <2> QED
    BY <2>1, <2>2, <1>3, Zenon DEF Reports
<1>5. rpc' = [rpc EXCEPT !.task = [rpc.task EXCEPT ![t] = me]]
  BY <1>1, <1>2, Zenon DEF RpcRec
<1> QED
  BY <1>2, <1>3, <1>4, <1>5, OneTask, Zenon

\* The beginning of an operation keeps the invariant (client.rs).
LEMMA BeginsStep ==
  ASSUME RpcInv, NEW t \in Task, operation_begins(t)
  PROVE  RpcInv'
<1>1. rpc \in RpcRec /\ rpc.task[t] \in TaskRec
  BY RpcFields, Zenon DEF RpcInv
<1>2. PICK op \in Operation :
        rpc' = [rpc EXCEPT !.task[t] = [@ EXCEPT !.op = op, !.proc = FirstProcedure(op), !.stage = "current",
                                                 !.outcome = "none", !.stray = 0]]
  BY Zenon DEF operation_begins
<1>3. PICK proc : proc = FirstProcedure(op)
  OBVIOUS
<1>4. PICK me : me = [rpc.task[t] EXCEPT !.op = op, !.proc = proc, !.stage = "current", !.outcome = "none", !.stray = 0]
  OBVIOUS
<1>5. rpc' = [rpc EXCEPT !.task = [rpc.task EXCEPT ![t] = me]]
  BY <1>1, <1>2, <1>3, <1>4, Zenon DEF RpcRec
<1>6. proc \in Procedure /\ (op = "ensure_network" => proc = "network_lookup_by_name")
  BY <1>3, SMT DEF FirstProcedure, Procedure, Operation
<1>7. me \in TaskRec
  <2>1. "current" \in RpcStage /\ "none" \in Outcome /\ 0 \in Nat
    BY SMT DEF RpcStage, Outcome
  <2> QED
    BY <2>1, <1>1, <1>4, <1>6, Zenon DEF TaskRec
<1>8. me.stage = "current" /\ me.outcome = "none" /\ me.stray = 0 /\ me.op = op /\ me.proc = proc
  BY <1>1, <1>4, SMT DEF TaskRec
<1>9. Known("network_lookup_by_name") = {} /\ "network_lookup_by_name" \in Ensuring
  BY SMT DEF Known, Ensuring
<1>10. Reports(me, rpc.network)
  BY <1>6, <1>8, <1>9, Zenon DEF Reports
<1>11. Goes(rpc.task[t], me, rpc.sockets) /\ me.stage \notin Handshake
  BY <1>8, Zenon DEF Goes, InFlight, Handshake
<1> QED
  BY <1>5, <1>7, <1>10, <1>11, OneTask, Zenon

-----------------------------------------------------------------------------
(* Calls that are made. *)

\* What taking a serial and a number does to the connection.
LEMMA SendsFields ==
  ASSUME NEW r \in RpcRec, NEW t \in Task, NEW s \in DOMAIN r.sockets, NEW e, e = Sends(r, t, s)
  PROVE  /\ e \in RpcRec /\ e.network = r.network /\ e.current = r.current /\ e.opening = r.opening
         /\ e.executed = Append(r.executed, 0) /\ DOMAIN e.sockets = DOMAIN r.sockets
         /\ \A u \in Task : u # t => e.task[u] = r.task[u]
         /\ e.task[t].stage = "lock" /\ e.task[t].socket = s /\ e.task[t].serial = r.sockets[s].serial + 1
         /\ e.task[t].call = Len(r.executed) + 1 /\ e.task[t].op = r.task[t].op /\ e.task[t].proc = r.task[t].proc
         /\ e.task[t].outcome = r.task[t].outcome /\ e.task[t].stray = r.task[t].stray
         /\ \A u \in DOMAIN r.sockets :
              /\ e.sockets[u].requests = r.sockets[u].requests /\ e.sockets[u].replies = r.sockets[u].replies
              /\ e.sockets[u].closed = r.sockets[u].closed /\ (Live(e.sockets[u]) <=> Live(r.sockets[u]))
              /\ e.sockets[u].serial = IF u = s THEN r.sockets[u].serial + 1 ELSE r.sockets[u].serial
<1>1. /\ r.task \in [Task -> TaskRec] /\ r.task[t] \in TaskRec /\ r.sockets \in Seq(SocketRec) /\ r.executed \in Seq(Nat)
      /\ r.sockets[s] \in SocketRec
  <2>1. r.task \in [Task -> TaskRec] /\ r.sockets \in Seq(SocketRec) /\ r.executed \in Seq(Nat)
    BY Zenon DEF RpcRec
  <2> QED
    BY <2>1, SMT
<1>2. PICK n : n = r.sockets[s].serial + 1
  OBVIOUS
<1>3. PICK c : c = Len(r.executed) + 1
  OBVIOUS
<1>4. n \in Nat /\ c \in Nat /\ s \in Nat /\ Append(r.executed, 0) \in Seq(Nat)
  <2>1. r.sockets[s].serial \in Nat
    BY <1>1, Zenon DEF SocketRec
  <2> QED
    BY <2>1, <1>1, <1>2, <1>3, SMT
<1>5. PICK me : me = [r.task[t] EXCEPT !.socket = s, !.stage = "lock", !.serial = n, !.call = c]
  OBVIOUS
<1>6. PICK k : k = [r.sockets[s] EXCEPT !.serial = n]
  BY Zenon
<1>7. me \in TaskRec
  <2>1. "lock" \in RpcStage
    BY Zenon DEF RpcStage
  <2> QED
    BY <2>1, <1>1, <1>4, <1>5, Zenon DEF TaskRec
<1>8. /\ me.stage = "lock" /\ me.socket = s /\ me.serial = n /\ me.call = c /\ me.op = r.task[t].op
      /\ me.proc = r.task[t].proc /\ me.outcome = r.task[t].outcome /\ me.stray = r.task[t].stray
  BY <1>1, <1>5, SMT DEF TaskRec
<1>9. k \in SocketRec
  BY <1>1, <1>4, <1>6, Zenon DEF SocketRec
<1>10. /\ k.serial = n /\ k.requests = r.sockets[s].requests /\ k.replies = r.sockets[s].replies
       /\ k.closed = r.sockets[s].closed /\ k.opened = r.sockets[s].opened /\ k.ended = r.sockets[s].ended
  BY <1>1, <1>6, SMT DEF SocketRec
<1>11. e.task = [r.task EXCEPT ![t] = me]
  BY <1>2, <1>3, <1>5, Zenon DEF Sends, RpcRec
<1>12. e.sockets = [r.sockets EXCEPT ![s] = k]
  BY <1>2, <1>6, Zenon DEF Sends, RpcRec
<1>13. [r.task EXCEPT ![t] = me] \in [Task -> TaskRec] /\ [r.sockets EXCEPT ![s] = k] \in Seq(SocketRec)
  <2>1. [r.task EXCEPT ![t] = me] \in [Task -> TaskRec]
    BY <1>1, <1>7, Zenon
  <2>2. [r.sockets EXCEPT ![s] = k] \in Seq(SocketRec)
    BY <1>1, <1>9, SMT
  <2> QED
    BY <2>1, <2>2, Zenon
<1>14. e = [r EXCEPT !.task = e.task, !.sockets = e.sockets, !.executed = Append(r.executed, 0)]
  BY <1>2, <1>3, <1>5, <1>6, <1>11, <1>12, Zenon DEF Sends, RpcRec
<1>15. e \in RpcRec
  BY <1>4, <1>11, <1>12, <1>13, <1>14, ZenonT(60) DEF RpcRec
<1>16. e.network = r.network /\ e.current = r.current /\ e.opening = r.opening /\ e.executed = Append(r.executed, 0)
  BY Zenon DEF Sends, RpcRec
<1>17. e.task[t] = me /\ \A u \in Task : u # t => e.task[u] = r.task[u]
  BY <1>1, <1>11, Zenon
<1>18. DOMAIN e.sockets = DOMAIN r.sockets /\ e.sockets[s] = k /\ \A u \in DOMAIN r.sockets : u # s => e.sockets[u] = r.sockets[u]
  BY <1>1, <1>12, Zenon
<1>19. ASSUME NEW u \in DOMAIN r.sockets
       PROVE  /\ e.sockets[u].requests = r.sockets[u].requests /\ e.sockets[u].replies = r.sockets[u].replies
              /\ e.sockets[u].closed = r.sockets[u].closed /\ (Live(e.sockets[u]) <=> Live(r.sockets[u]))
              /\ e.sockets[u].serial = IF u = s THEN r.sockets[u].serial + 1 ELSE r.sockets[u].serial
  <2>1. CASE u = s
    BY <2>1, <1>2, <1>10, <1>18, Zenon DEF Live
  <2>2. CASE u # s
    BY <2>2, <1>18, Zenon
  <2> QED
    BY <2>1, <2>2, Zenon
<1> QED
  BY <1>2, <1>3, <1>8, <1>15, <1>16, <1>17, <1>18, <1>19, Zenon

\* Making a call keeps the invariant, whether the current socket was there or
\* has just been opened.
LEMMA SendsInv ==
  ASSUME NEW r \in RpcRec, Calls(r.task, r.sockets, r.executed, r.network), NEW t \in Task,
         NEW s \in DOMAIN r.sockets, r.task[t].stage # "idle", rpc' = Sends(r, t, s), r.opening = {},
         \A u \in Task : u # t => r.task[u].stage \notin Handshake, \A x, y \in r.current : x = y,
         r.current \subseteq DOMAIN r.sockets, \A x \in DOMAIN r.sockets : Live(r.sockets[x]) => x \in r.current
  PROVE  RpcInv'
<1>1. /\ r.task \in [Task -> TaskRec] /\ r.sockets \in Seq(SocketRec) /\ r.executed \in Seq(Nat)
      /\ \A u \in Task : r.task[u] \in TaskRec
  BY Zenon DEF RpcRec
<1>2. \A u \in DOMAIN r.sockets : r.sockets[u] \in SocketRec
  BY <1>1, SMT
<1>3. PICK e : e = Sends(r, t, s)
  OBVIOUS
<1>4. /\ e \in RpcRec /\ e.network = r.network /\ e.current = r.current /\ e.opening = r.opening
      /\ e.executed = Append(r.executed, 0) /\ DOMAIN e.sockets = DOMAIN r.sockets
      /\ \A u \in Task : u # t => e.task[u] = r.task[u]
      /\ e.task[t].stage = "lock" /\ e.task[t].socket = s /\ e.task[t].serial = r.sockets[s].serial + 1
      /\ e.task[t].call = Len(r.executed) + 1 /\ e.task[t].op = r.task[t].op /\ e.task[t].proc = r.task[t].proc
      /\ e.task[t].outcome = r.task[t].outcome /\ e.task[t].stray = r.task[t].stray
      /\ \A u \in DOMAIN r.sockets :
           /\ e.sockets[u].requests = r.sockets[u].requests /\ e.sockets[u].replies = r.sockets[u].replies
           /\ e.sockets[u].closed = r.sockets[u].closed /\ (Live(e.sockets[u]) <=> Live(r.sockets[u]))
           /\ e.sockets[u].serial = IF u = s THEN r.sockets[u].serial + 1 ELSE r.sockets[u].serial
  BY <1>3, SendsFields, SMTT(30)
<1>5. Reports(e.task[t], r.network)
  <2>1. Reports(r.task[t], r.network)
    BY Zenon DEF Calls
  <2> QED
    BY <2>1, <1>4, Zenon DEF Reports
<1>6. Calls(e.task, e.sockets, e.executed, e.network)
  <2>1. Calls(r.task, r.sockets, r.executed, r.network) /\ t \in Task /\ s \in DOMAIN r.sockets
    BY SMTT(60)
  <2>2. NewCall(r.task, r.sockets, r.executed, r.network, t, s, e.task, e.sockets, e.executed)
    BY <1>4, <1>5, Zenon DEF NewCall
  <2>3. Calls(e.task, e.sockets, e.executed, r.network)
    BY ONLY <2>1, <2>2, <1>1, <1>2, SendStep, Zenon
  <2> QED
    BY <2>3, <1>4, Zenon
<1>7. Opens(e.task, e.current, e.opening, e.sockets)
  <2>1. \A u \in Task : e.task[u].stage \notin Handshake
    BY <1>4, Zenon DEF Handshake
  <2> QED
    BY <2>1, <1>4, SMT DEF Opens
<1> QED
  BY <1>3, <1>4, <1>6, <1>7, Zenon DEF RpcInv

\* RpcApi::request keeps the invariant: a call on the current socket, or the
\* start of a handshake if there is none.
LEMMA RequestStep ==
  ASSUME RpcInv, NEW t \in Task, request(t)
  PROVE  RpcInv'
<1>1. rpc \in RpcRec /\ rpc.task[t] \in TaskRec /\ rpc.task \in [Task -> TaskRec]
  BY RpcFields, Zenon DEF RpcInv
<1>2. rpc.opening = {} /\ rpc.task[t].stage = "current" /\ rpc.task[t].op # "close"
  BY Zenon DEF request, On
<1>3. \A u \in Task : rpc.task[u].stage \notin Handshake
  BY <1>2, Zenon DEF RpcInv, Opens
<1>4. ASSUME NEW s \in rpc.current, rpc' = Sends(rpc, t, s) PROVE RpcInv'
  <2>1. /\ s \in DOMAIN rpc.sockets /\ \A x, y \in rpc.current : x = y
        /\ rpc.current \subseteq DOMAIN rpc.sockets
        /\ \A x \in DOMAIN rpc.sockets : Live(rpc.sockets[x]) => x \in rpc.current
    BY Zenon DEF RpcInv, Opens
  <2>2. Calls(rpc.task, rpc.sockets, rpc.executed, rpc.network)
    BY Zenon DEF RpcInv
  <2>3. rpc.task[t].stage # "idle"
    BY <1>2, Zenon
  <2> QED
    BY <2>1, <2>2, <2>3, <1>1, <1>2, <1>3, <1>4, SendsInv, Zenon
<1>5. ASSUME rpc.current = {}, rpc' = [rpc EXCEPT !.opening = {t}, !.task[t].stage = "connect"] PROVE RpcInv'
  <2>1. PICK me : me = [rpc.task[t] EXCEPT !.stage = "connect"]
    BY Zenon
  <2>2. PICK tk : tk = [rpc.task EXCEPT ![t] = me]
    BY Zenon
  <2>3. rpc' = [rpc EXCEPT !.opening = {t}, !.task = tk]
    BY <2>1, <2>2, <1>1, <1>5, Zenon DEF RpcRec
  <2>4. "connect" \in RpcStage
    BY Zenon DEF RpcStage
  <2>5. /\ me \in TaskRec /\ me.stage = "connect" /\ me.op = rpc.task[t].op /\ me.proc = rpc.task[t].proc
        /\ me.outcome = rpc.task[t].outcome /\ me.stray = rpc.task[t].stray
    BY <2>1, <2>4, <1>1, StageFields, SMT
  <2>6. tk \in [Task -> TaskRec] /\ tk[t] = me /\ \A u \in Task : u # t => tk[u] = rpc.task[u]
    BY <2>2, <2>5, <1>1, Zenon
  <2>7. /\ rpc' \in RpcRec /\ rpc'.task = tk /\ rpc'.sockets = rpc.sockets /\ rpc'.executed = rpc.executed
        /\ rpc'.network = rpc.network /\ rpc'.current = rpc.current /\ rpc'.opening = {t}
    BY <2>3, <2>6, <1>1, Zenon DEF RpcRec
  <2>8. Calls(rpc.task, rpc.sockets, rpc.executed, rpc.network)
    BY Zenon DEF RpcInv
  <2>9. ASSUME NEW u \in Task PROVE Reports(tk[u], rpc.network) /\ Goes(rpc.task[u], tk[u], rpc.sockets)
    <3>1. Reports(rpc.task[u], rpc.network) /\ Placed(rpc.task[u], rpc.sockets, rpc.executed)
      BY <2>8, Zenon DEF Calls
    <3>2. CASE u = t
      <4>1. Reports(me, rpc.network)
        BY <3>1, <3>2, <2>5, <1>2, Zenon DEF Reports
      <4>2. Goes(rpc.task[u], me, rpc.sockets)
        BY <2>5, Zenon DEF Goes, InFlight
      <4> QED
        BY <4>1, <4>2, <3>2, <2>6, Zenon
    <3>3. CASE u # t
      BY <3>1, <3>3, <2>6, Zenon DEF Goes, Placed
    <3> QED
      BY <3>2, <3>3, Zenon
  <2>10. \A s \in DOMAIN rpc.sockets : Fewer(rpc.sockets[s], rpc.sockets[s])
    BY <2>8, Zenon DEF Calls, SocketOK, Fewer
  <2>11. Calls(tk, rpc.sockets, rpc.executed, rpc.network)
    BY <2>8, <2>9, <2>10, QuietStep, SMTT(30)
  <2>12. Opens(tk, rpc.current, {t}, rpc.sockets)
    BY <2>6, <1>3, <1>5, Zenon DEF RpcInv, Opens
  <2> QED
    BY <2>7, <2>11, <2>12, Zenon DEF RpcInv
<1> QED
  BY <1>4, <1>5, Zenon DEF request

\* The socket s is marked as opened or given up; its packets stay.
Marks(s, k, cu, op, r) ==
  /\ k.requests = rpc.sockets[s].requests /\ k.replies = rpc.sockets[s].replies
  /\ k.serial = rpc.sockets[s].serial /\ k.closed = rpc.sockets[s].closed
  /\ r = [rpc EXCEPT !.sockets = [rpc.sockets EXCEPT ![s] = k], !.current = cu, !.opening = op]

\* Marking a socket keeps every call where it is.
LEMMA Marked ==
  ASSUME RpcInv, NEW s \in DOMAIN rpc.sockets, NEW k \in SocketRec, NEW cu \in SUBSET Nat, NEW op \in SUBSET Task,
         NEW r, Marks(s, k, cu, op, r)
  PROVE  /\ r \in RpcRec /\ r.task = rpc.task /\ r.current = cu /\ r.opening = op
         /\ DOMAIN r.sockets = DOMAIN rpc.sockets /\ r.sockets[s] = k
         /\ \A u \in DOMAIN rpc.sockets : u # s => r.sockets[u] = rpc.sockets[u]
         /\ Calls(r.task, r.sockets, r.executed, r.network)
<1> USE DEF Marks
<1>1. rpc \in RpcRec /\ rpc.sockets \in Seq(SocketRec)
  BY RpcFields, Zenon DEF RpcInv
<1>2. [rpc.sockets EXCEPT ![s] = k] \in Seq(SocketRec)
  BY <1>1, SMT
<1>3. /\ r \in RpcRec /\ r.task = rpc.task /\ r.current = cu /\ r.opening = op
      /\ r.sockets = [rpc.sockets EXCEPT ![s] = k] /\ r.executed = rpc.executed /\ r.network = rpc.network
  BY <1>1, <1>2, Zenon DEF RpcRec
<1>4. /\ DOMAIN r.sockets = DOMAIN rpc.sockets /\ r.sockets[s] = k
      /\ \A u \in DOMAIN rpc.sockets : u # s => r.sockets[u] = rpc.sockets[u]
  BY <1>3, ZenonT(60)
<1>5. Calls(rpc.task, rpc.sockets, rpc.executed, rpc.network)
  BY Zenon DEF RpcInv
<1>6. ASSUME NEW u \in DOMAIN rpc.sockets PROVE Fewer(rpc.sockets[u], r.sockets[u])
  <2>1. Once(rpc.sockets[u].requests)
    BY <1>5, Zenon DEF Calls, SocketOK
  <2>2. CASE u = s
    BY <2>1, <2>2, <1>4, Zenon DEF Fewer, Answered
  <2>3. CASE u # s
    BY <2>1, <2>3, <1>4, Zenon DEF Fewer
  <2> QED
    BY <2>2, <2>3, Zenon
<1>7. ASSUME NEW u \in Task PROVE Reports(rpc.task[u], rpc.network) /\ Goes(rpc.task[u], rpc.task[u], r.sockets)
  <2>1. Reports(rpc.task[u], rpc.network) /\ Placed(rpc.task[u], rpc.sockets, rpc.executed)
    BY <1>5, Zenon DEF Calls
  <2>2. rpc.task[u].stage = "io_error" => r.sockets[rpc.task[u].socket].closed
    <3>1. rpc.task[u].stage = "io_error" => rpc.task[u].socket \in DOMAIN rpc.sockets /\ rpc.sockets[rpc.task[u].socket].closed
      BY <2>1, Zenon DEF Placed, InFlight
    <3> QED
      BY <3>1, <1>4, Zenon
  <2> QED
    BY <2>1, <2>2, <1>4, Zenon DEF Goes, Placed
<1>8. Calls(rpc.task, r.sockets, rpc.executed, rpc.network)
  BY <1>4, <1>5, <1>6, <1>7, QuietStep, SMTT(30)
<1> QED
  BY <1>3, <1>4, <1>8, Zenon

\* RpcApi::close keeps the invariant: the current socket is given up before
\* the daemon is asked to close it.
LEMMA CloseStep ==
  ASSUME RpcInv, NEW t \in Task, close(t)
  PROVE  RpcInv'
<1>1. rpc \in RpcRec /\ rpc.task[t] \in TaskRec /\ rpc.task \in [Task -> TaskRec]
  BY RpcFields, Zenon DEF RpcInv
<1>2. rpc.opening = {} /\ rpc.task[t].stage = "current" /\ rpc.task[t].op = "close"
  BY Zenon DEF close, On
<1>3. \A u \in Task : rpc.task[u].stage \notin Handshake
  BY <1>2, Zenon DEF RpcInv, Opens
<1>4. ASSUME rpc' = Ended(rpc, t, "ok") PROVE RpcInv'
  <2>1. "ok" \in Outcome
    BY Zenon DEF Outcome
  <2>2. /\ rpc' \in RpcRec /\ rpc'.sockets = rpc.sockets /\ rpc'.executed = rpc.executed /\ rpc'.network = rpc.network
        /\ rpc'.current = rpc.current /\ rpc'.opening = rpc.opening
        /\ \A u \in Task : u # t => rpc'.task[u] = rpc.task[u]
        /\ rpc'.task[t].stage = "idle" /\ rpc'.task[t].stray = rpc.task[t].stray /\ rpc'.task[t].op = rpc.task[t].op
    BY <2>1, <1>1, <1>4, EndedFields, SMTT(30)
  <2>3. rpc.task[t].stray = 0
    BY <1>2, Zenon DEF RpcInv, Calls, Reports
  <2>4. Reports(rpc'.task[t], rpc.network)
    BY <2>2, <2>3, <1>2, Zenon DEF Reports
  <2>5. Goes(rpc.task[t], rpc'.task[t], rpc'.sockets) /\ rpc'.task[t].stage \notin Handshake
    BY <2>2, Zenon DEF Goes, InFlight, Handshake
  <2>6. ASSUME NEW u \in Task
        PROVE  \/ rpc'.task[u] = rpc.task[u] /\ (u \in rpc.opening => u \in rpc'.opening)
               \/ /\ Reports(rpc'.task[u], rpc.network) /\ Goes(rpc.task[u], rpc'.task[u], rpc'.sockets)
                  /\ rpc'.task[u].stage \in Handshake => rpc.task[u].stage \in Handshake /\ u \in rpc'.opening
    BY <2>2, <2>4, <2>5, Zenon
  <2> QED
    BY <2>2, <2>6, NothingSent, Zenon
<1>5. ASSUME NEW s \in rpc.current, rpc' = Sends([rpc EXCEPT !.current = {}, !.sockets[s].ended = TRUE], t, s)
      PROVE  RpcInv'
  <2>1. PICK r : r = [rpc EXCEPT !.current = {}, !.sockets[s].ended = TRUE]
    OBVIOUS
  <2>2. PICK k : k = [rpc.sockets[s] EXCEPT !.ended = TRUE]
    BY Zenon
  <2>3. s \in DOMAIN rpc.sockets /\ rpc.sockets[s] \in SocketRec
    BY <1>1, RpcFields, Zenon DEF RpcInv, Opens
  <2>4. k \in SocketRec
    BY <2>2, <2>3, Zenon DEF SocketRec
  <2>5. /\ k.requests = rpc.sockets[s].requests /\ k.replies = rpc.sockets[s].replies
        /\ k.serial = rpc.sockets[s].serial /\ k.closed = rpc.sockets[s].closed /\ k.ended = TRUE
    BY <2>2, <2>3, SMT DEF SocketRec
  <2>6. r = [rpc EXCEPT !.sockets = [rpc.sockets EXCEPT ![s] = k], !.current = {}, !.opening = {}]
    BY <2>1, <2>2, <1>1, <1>2, Zenon DEF RpcRec
  <2>7. /\ r \in RpcRec /\ r.task = rpc.task /\ r.current = {} /\ r.opening = {}
        /\ DOMAIN r.sockets = DOMAIN rpc.sockets /\ r.sockets[s] = k
        /\ \A u \in DOMAIN rpc.sockets : u # s => r.sockets[u] = rpc.sockets[u]
        /\ Calls(r.task, r.sockets, r.executed, r.network)
    <3>1. {} \in SUBSET Nat /\ {} \in SUBSET Task
      OBVIOUS
    <3>2. Marks(s, k, {}, {}, r)
      BY <2>5, <2>6, Zenon DEF Marks
    <3> QED
      BY <3>1, <3>2, <2>3, <2>4, Marked, Zenon
  <2>8. ASSUME NEW x \in DOMAIN r.sockets, Live(r.sockets[x]) PROVE FALSE
    <3>1. x # s
      BY <2>5, <2>7, <2>8, Zenon DEF Live
    <3>2. x \in rpc.current
      BY <3>1, <2>7, <2>8, Zenon DEF RpcInv, Opens
    <3> QED
      BY <3>1, <3>2, Zenon DEF RpcInv, Opens
  <2>9. /\ r.task[t].stage # "idle" /\ \A u \in Task : u # t => r.task[u].stage \notin Handshake
        /\ \A x, y \in r.current : x = y /\ r.current \subseteq DOMAIN r.sockets
        /\ \A x \in DOMAIN r.sockets : Live(r.sockets[x]) => x \in r.current
    BY <2>7, <2>8, <1>2, <1>3, Zenon
  <2>10. rpc' = Sends(r, t, s) /\ s \in DOMAIN r.sockets /\ r.current \subseteq DOMAIN r.sockets
    BY <2>1, <2>3, <2>7, <1>5, Zenon
  <2> QED
    BY <2>7, <2>9, <2>10, SendsInv, SMTT(30)
<1> QED
  BY <1>4, <1>5, Zenon DEF close

\* A handshake that fails keeps the invariant: there is no current socket,
\* and the next call opens one (RpcApi::open).
LEMMA OpenFailsStep ==
  ASSUME RpcInv, NEW t \in Task, NEW o \in Outcome, o # "ok", rpc.task[t].stage \in Handshake, OpenFails(t, o)
  PROVE  RpcInv'
<1>1. rpc \in RpcRec /\ rpc.faults \in Nat /\ rpc.faults + 1 \in Nat
  <2>1. rpc \in RpcRec /\ rpc.faults \in Nat
    BY RpcFields, Zenon DEF RpcInv
  <2> QED
    BY <2>1, SMT
<1>2. PICK e : e = Ended(rpc, t, o)
  OBVIOUS
<1>3. /\ e \in RpcRec /\ e.sockets = rpc.sockets /\ e.executed = rpc.executed /\ e.network = rpc.network
      /\ e.current = rpc.current /\ e.faults = rpc.faults
      /\ \A u \in Task : u # t => e.task[u] = rpc.task[u]
      /\ e.task[t].stage = "idle" /\ e.task[t].stray = rpc.task[t].stray /\ e.task[t].op = "capabilities"
  BY <1>1, <1>2, EndedFields, SMTT(30)
<1>4. rpc' = [e EXCEPT !.opening = {}, !.faults = rpc.faults + 1]
  BY <1>2, <1>3, Zenon DEF OpenFails
<1>5. /\ rpc' \in RpcRec /\ rpc'.sockets = rpc.sockets /\ rpc'.executed = rpc.executed /\ rpc'.network = rpc.network
      /\ rpc'.current = rpc.current /\ rpc'.opening = {} /\ rpc'.task = e.task
  <2>1. /\ rpc' \in RpcRec /\ rpc'.sockets = e.sockets /\ rpc'.executed = e.executed /\ rpc'.network = e.network
        /\ rpc'.current = e.current /\ rpc'.opening = {} /\ rpc'.task = e.task
    BY <1>1, <1>3, <1>4, Zenon DEF RpcRec
  <2> QED
    BY <2>1, <1>3, Zenon
<1>6. rpc.opening = {t}
  BY Zenon DEF RpcInv, Opens
<1>7. rpc.task[t].stray = 0
  <2>1. rpc.task[t].stage # "idle"
    BY Zenon DEF Handshake
  <2> QED
    BY <2>1, Zenon DEF RpcInv, Calls, Reports
<1>8. Reports(e.task[t], rpc.network) /\ Goes(rpc.task[t], e.task[t], rpc'.sockets) /\ e.task[t].stage \notin Handshake
  BY <1>3, <1>7, Zenon DEF Reports, Goes, InFlight, Handshake
<1>9. ASSUME NEW u \in Task
      PROVE  \/ rpc'.task[u] = rpc.task[u] /\ (u \in rpc.opening => u \in rpc'.opening)
             \/ /\ Reports(rpc'.task[u], rpc.network) /\ Goes(rpc.task[u], rpc'.task[u], rpc'.sockets)
                /\ rpc'.task[u].stage \in Handshake => rpc.task[u].stage \in Handshake /\ u \in rpc'.opening
  BY <1>3, <1>5, <1>6, <1>8, Zenon
<1> QED
  BY <1>5, <1>9, NothingSent, Zenon

\* Transport::connect keeps the invariant: the new socket has no packets.
LEMMA ConnectStep ==
  ASSUME RpcInv, NEW t \in Task, connect(t)
  PROVE  RpcInv'
<1>1. /\ rpc \in RpcRec /\ rpc.task[t] \in TaskRec /\ rpc.task \in [Task -> TaskRec] /\ rpc.sockets \in Seq(SocketRec)
      /\ DOMAIN rpc.sockets = 1 .. Len(rpc.sockets)
  BY RpcFields, Zenon DEF RpcInv
<1>2. rpc.task[t].stage = "connect" /\ rpc.task[t].stage \in Handshake /\ "io" \in Outcome /\ "io" # "ok"
  BY Zenon DEF connect, On, Handshake, Outcome
<1>3. ASSUME rpc' = [rpc EXCEPT !.sockets = Append(@, FreshSocket),
                                !.task[t] = [@ EXCEPT !.socket = Len(rpc.sockets) + 1, !.stage = "auth_list"]]
      PROVE  RpcInv'
  <2>1. PICK n : n = Len(rpc.sockets) + 1
    OBVIOUS
  <2>2. FreshSocket \in SocketRec
    <3>1. <<>> \in Seq(PacketRec) /\ {} \in SUBSET Task /\ 0 \in Nat
      BY SMT
    <3> QED
      BY <3>1, Zenon DEF FreshSocket, SocketRec
  <2>3. PICK so : so = Append(rpc.sockets, FreshSocket)
    BY Zenon
  <2>4. /\ so \in Seq(SocketRec) /\ n \in DOMAIN so /\ so[n] = FreshSocket /\ n \in Nat
        /\ DOMAIN rpc.sockets \subseteq DOMAIN so /\ \A s \in DOMAIN rpc.sockets : so[s] = rpc.sockets[s]
        /\ \A s \in DOMAIN so : s \in DOMAIN rpc.sockets \/ s = n
    <3>1. /\ so \in Seq(SocketRec) /\ DOMAIN so = 1 .. n /\ so[n] = FreshSocket /\ n \in Nat /\ n = Len(rpc.sockets) + 1
          /\ \A s \in DOMAIN rpc.sockets : so[s] = rpc.sockets[s]
      BY <1>1, <2>1, <2>2, <2>3, SMT
    <3>2. Len(rpc.sockets) \in Nat
      BY <1>1, SMT
    <3>3. n \in 1 .. n /\ 1 .. Len(rpc.sockets) \subseteq 1 .. n /\ \A s \in 1 .. n : s \in 1 .. Len(rpc.sockets) \/ s = n
      BY <3>1, <3>2, SMT
    <3> QED
      BY <3>1, <3>3, <1>1, Zenon
  <2>5. PICK me : me = [rpc.task[t] EXCEPT !.socket = n, !.stage = "auth_list"]
    OBVIOUS
  <2>6. me \in TaskRec
    <3>1. "auth_list" \in RpcStage
      BY Zenon DEF RpcStage
    <3> QED
      BY <3>1, <2>4, <2>5, <1>1, Zenon DEF TaskRec
  <2>7. /\ me.stage = "auth_list" /\ me.socket = n /\ me.op = rpc.task[t].op /\ me.proc = rpc.task[t].proc
        /\ me.outcome = rpc.task[t].outcome /\ me.stray = rpc.task[t].stray
    BY <2>5, <1>1, SMT DEF TaskRec
  <2>8. PICK tk : tk = [rpc.task EXCEPT ![t] = me]
    BY Zenon
  <2>9. tk \in [Task -> TaskRec] /\ tk[t] = me /\ \A u \in Task : u # t => tk[u] = rpc.task[u]
    BY <2>6, <2>8, <1>1, Zenon
  <2>10. rpc' = [rpc EXCEPT !.sockets = so, !.task = tk]
    BY <2>1, <2>3, <2>5, <2>8, <1>1, <1>3, Zenon DEF RpcRec
  <2>11. /\ rpc' \in RpcRec /\ rpc'.sockets = so /\ rpc'.executed = rpc.executed /\ rpc'.network = rpc.network
         /\ rpc'.current = rpc.current /\ rpc'.opening = rpc.opening /\ rpc'.task = tk
    BY <2>4, <2>9, <2>10, <1>1, Zenon DEF RpcRec
  <2>12. Reports(me, rpc.network)
    <3>1. Reports(rpc.task[t], rpc.network)
      BY Zenon DEF RpcInv, Calls
    <3> QED
      BY <3>1, <2>7, <1>2, Zenon DEF Reports
  <2>13. Goes(rpc.task[t], me, so) /\ t \in rpc.opening
    <3>1. Goes(rpc.task[t], me, so)
      BY <2>4, <2>7, Zenon DEF Goes, InFlight
    <3>2. t \in rpc.opening
      BY <1>2, Zenon DEF RpcInv, Opens
    <3> QED
      BY <3>1, <3>2, Zenon
  <2>14. ASSUME NEW u \in Task
         PROVE  \/ rpc'.task[u] = rpc.task[u] /\ (u \in rpc.opening => u \in rpc'.opening)
                \/ /\ Reports(rpc'.task[u], rpc.network) /\ Goes(rpc.task[u], rpc'.task[u], rpc'.sockets)
                   /\ rpc'.task[u].stage \in Handshake => rpc.task[u].stage \in Handshake /\ u \in rpc'.opening
    BY <2>9, <2>11, <2>12, <2>13, <1>2, Zenon
  <2>15. /\ \A s \in DOMAIN rpc.sockets : s \in DOMAIN rpc'.sockets /\ rpc'.sockets[s] = rpc.sockets[s]
         /\ \A s \in DOMAIN rpc'.sockets :
              \/ /\ s \in DOMAIN rpc.sockets
                 /\ Live(rpc'.sockets[s]) => Live(rpc.sockets[s]) /\ (s \in rpc.current => s \in rpc'.current)
              \/ rpc'.sockets[s] = FreshSocket
    BY <2>4, <2>11, Zenon
  <2> QED
    BY <2>11, <2>14, <2>15, NothingSent, Zenon
<1> QED
  BY <1>2, <1>3, OpenFailsStep, Zenon DEF connect

\* A handshake that goes on to its next call keeps the invariant,
LEMMA HandshakeGoesOn ==
  ASSUME RpcInv, NEW t \in Task, NEW x \in {"auth_polkit", "connect_open"}, rpc.task[t].stage \in {"auth_list", "auth_polkit"},
         rpc' = [rpc EXCEPT !.task[t].stage = x]
  PROVE  RpcInv'
<1>1. rpc.task[t] \in TaskRec /\ x \in RpcStage /\ x # "idle" /\ rpc.task[t].stage # "idle"
  <2>1. rpc.task[t] \in TaskRec
    BY RpcFields, Zenon DEF RpcInv
  <2> QED
    BY <2>1, SMT DEF RpcStage
<1>2. rpc.task[t].stage \in Handshake \ {"connect"} /\ x \in Handshake \ {"connect"} /\ x \notin InFlight
  BY SMT DEF Handshake, InFlight
<1>3. rpc.task[t].socket \in DOMAIN rpc.sockets
  BY <1>2, Zenon DEF RpcInv, Calls, Placed
<1>4. PICK me : me = [rpc.task[t] EXCEPT !.stage = x]
  BY Zenon
<1>5. me.stage = x /\ me.socket = rpc.task[t].socket
  BY <1>1, <1>4, StageFields, SMT
<1>6. Goes(rpc.task[t], me, rpc.sockets)
  BY <1>2, <1>3, <1>5, Zenon DEF Goes, InFlight
<1> QED
  BY <1>1, <1>2, <1>4, <1>6, StageStep, Zenon

\* and so do authenticate, whatever types the daemon advertises,
LEMMA AuthenticateStep ==
  ASSUME RpcInv, NEW t \in Task, authenticate(t)
  PROVE  RpcInv'
<1>1. rpc.task[t].stage = "auth_list" /\ rpc.task[t].stage \in Handshake
  BY Zenon DEF authenticate, On, Handshake
<1>2. "io" \in Outcome /\ "protocol" \in Outcome
  BY Zenon DEF Outcome
<1>3. \/ OpenFails(t, "io") \/ OpenFails(t, "protocol")
      \/ rpc' = [rpc EXCEPT !.task[t].stage = "connect_open"]
      \/ rpc' = [rpc EXCEPT !.task[t].stage = "auth_polkit"]
  BY SMT DEF authenticate
<1>4. CASE OpenFails(t, "io")
  BY <1>1, <1>2, <1>4, OpenFailsStep, Zenon
<1>5. CASE OpenFails(t, "protocol")
  BY <1>1, <1>2, <1>5, OpenFailsStep, Zenon
<1>6. CASE rpc' = [rpc EXCEPT !.task[t].stage = "connect_open"]
  BY <1>1, <1>6, HandshakeGoesOn, Zenon
<1>7. CASE rpc' = [rpc EXCEPT !.task[t].stage = "auth_polkit"]
  BY <1>1, <1>7, HandshakeGoesOn, Zenon
<1> QED
  BY <1>3, <1>4, <1>5, <1>6, <1>7, Zenon

\* and auth_polkit.
LEMMA PolkitStep ==
  ASSUME RpcInv, NEW t \in Task, auth_polkit(t)
  PROVE  RpcInv'
<1>1. rpc.task[t].stage = "auth_polkit" /\ rpc.task[t].stage \in Handshake
  BY Zenon DEF auth_polkit, On, Handshake
<1>2. PICK o : o = IF SocketOf(t).closed THEN "io" ELSE "error"
  OBVIOUS
<1>3. o \in Outcome /\ o # "ok"
  BY <1>2, Zenon DEF Outcome
<1>4. OpenFails(t, o) \/ rpc' = [rpc EXCEPT !.task[t].stage = "connect_open"]
  BY <1>2, Zenon DEF auth_polkit
<1>5. CASE OpenFails(t, o)
  BY <1>1, <1>3, <1>5, OpenFailsStep, Zenon
<1>6. CASE rpc' = [rpc EXCEPT !.task[t].stage = "connect_open"]
  BY <1>1, <1>6, HandshakeGoesOn, Zenon
<1> QED
  BY <1>4, <1>5, <1>6, Zenon

\* The end of the handshake keeps the invariant: the socket becomes the
\* current one and the call that asked for it goes out on it
\* (RpcApi::request).
LEMMA OpenStep ==
  ASSUME RpcInv, NEW t \in Task, open(t)
  PROVE  RpcInv'
<1>1. rpc.task[t].stage = "connect_open" /\ rpc.task[t].stage \in Handshake
  BY Zenon DEF open, On, Handshake
<1>2. PICK o : o = IF SocketOf(t).closed THEN "io" ELSE "error"
  OBVIOUS
<1>3. o \in Outcome /\ o # "ok"
  BY <1>2, Zenon DEF Outcome
<1>4. PICK s : s = rpc.task[t].socket
  OBVIOUS
<1>5. ASSUME rpc' = Sends([rpc EXCEPT !.sockets[s].opened = TRUE, !.current = {s}, !.opening = {}], t, s)
      PROVE  RpcInv'
  <2>1. PICK r : r = [rpc EXCEPT !.sockets[s].opened = TRUE, !.current = {s}, !.opening = {}]
    OBVIOUS
  <2>2. PICK k : k = [rpc.sockets[s] EXCEPT !.opened = TRUE]
    BY Zenon
  <2>0. rpc \in RpcRec
    BY Zenon DEF RpcInv
  <2>3. s \in DOMAIN rpc.sockets /\ rpc.sockets[s] \in SocketRec /\ s \in Nat
    <3>1. s \in DOMAIN rpc.sockets
      BY <1>1, <1>4, Zenon DEF RpcInv, Calls, Placed, Handshake
    <3>2. rpc.sockets[s] \in SocketRec
      BY <3>1, <2>0, RpcFields, Zenon
    <3>3. s \in Nat
      BY <3>1, <2>0, RpcFields, SMT
    <3> QED
      BY <3>1, <3>2, <3>3, Zenon
  <2>4. k \in SocketRec
    BY <2>2, <2>3, Zenon DEF SocketRec
  <2>5. /\ k.requests = rpc.sockets[s].requests /\ k.replies = rpc.sockets[s].replies
        /\ k.serial = rpc.sockets[s].serial /\ k.closed = rpc.sockets[s].closed
    BY <2>2, <2>3, SMT DEF SocketRec
  <2>6. Marks(s, k, {s}, {}, r)
    <3>1. r = [rpc EXCEPT !.sockets = [rpc.sockets EXCEPT ![s] = k], !.current = {s}, !.opening = {}]
      BY <2>0, <2>1, <2>2, Zenon DEF RpcRec
    <3> QED
      BY <3>1, <2>5, Zenon DEF Marks
  <2>7. /\ r \in RpcRec /\ r.task = rpc.task /\ r.current = {s} /\ r.opening = {}
        /\ DOMAIN r.sockets = DOMAIN rpc.sockets /\ r.sockets[s] = k
        /\ \A u \in DOMAIN rpc.sockets : u # s => r.sockets[u] = rpc.sockets[u]
        /\ Calls(r.task, r.sockets, r.executed, r.network)
    <3>1. {s} \in SUBSET Nat /\ {} \in SUBSET Task
      BY <2>3
    <3> QED
      BY <3>1, <2>3, <2>4, <2>6, Marked, Zenon
  <2>8. rpc.opening = {t} /\ rpc.current = {}
    BY <1>1, Zenon DEF RpcInv, Opens
  <2>9. ASSUME NEW x \in DOMAIN r.sockets, Live(r.sockets[x]), x # s PROVE FALSE
    BY <2>7, <2>8, <2>9, Zenon DEF RpcInv, Opens
  <2>10. /\ r.task[t].stage # "idle" /\ \A u \in Task : u # t => r.task[u].stage \notin Handshake
         /\ \A x, y \in r.current : x = y /\ r.current \subseteq DOMAIN r.sockets
         /\ \A x \in DOMAIN r.sockets : Live(r.sockets[x]) => x \in r.current
    <3>1. ASSUME NEW u \in Task, u # t PROVE rpc.task[u].stage \notin Handshake
      BY <3>1, <2>8, Zenon DEF RpcInv, Opens
    <3> QED
      BY <3>1, <2>3, <2>7, <2>9, <1>1, Zenon
  <2>11. rpc' = Sends(r, t, s) /\ s \in DOMAIN r.sockets /\ r.current \subseteq DOMAIN r.sockets
    BY <2>1, <2>3, <2>7, <1>5, Zenon
  <2> QED
    BY <2>7, <2>10, <2>11, SendsInv, SMTT(30)
<1>6. CASE OpenFails(t, o)
  BY <1>1, <1>3, <1>6, OpenFailsStep, Zenon
<1> QED
  BY <1>2, <1>4, <1>5, <1>6, Zenon DEF open

-----------------------------------------------------------------------------
(* Calls on a socket. *)

\* Transport::request keeps the invariant: the request is written while the
\* task holds the socket, or the socket is found closed.
LEMMA WritesStep ==
  ASSUME RpcInv, NEW t \in Task, write(t)
  PROVE  RpcInv'
<1>1. /\ rpc \in RpcRec /\ rpc.task[t] \in TaskRec /\ rpc.task \in [Task -> TaskRec] /\ rpc.sockets \in Seq(SocketRec)
      /\ \A s \in DOMAIN rpc.sockets : rpc.sockets[s] \in SocketRec
  BY RpcFields, Zenon DEF RpcInv
<1>2. rpc.task[t].stage = "lock"
  BY Zenon DEF write, On
<1>3. PICK s : s = rpc.task[t].socket
  OBVIOUS
<1>4. s \in DOMAIN rpc.sockets /\ rpc.sockets[s] \in SocketRec
  <2>1. s \in DOMAIN rpc.sockets
    BY <1>2, <1>3, Zenon DEF RpcInv, Calls, Placed, InFlight
  <2> QED
    BY <2>1, <1>1, Zenon
<1>5. ASSUME rpc.sockets[s].closed, rpc' = [rpc EXCEPT !.task[t].stage = "io_error"] PROVE RpcInv'
  <2>1. "io_error" \in RpcStage /\ "io_error" \notin Handshake
    BY Zenon DEF RpcStage, Handshake
  <2>2. PICK me : me = [rpc.task[t] EXCEPT !.stage = "io_error"]
    BY Zenon
  <2>3. /\ me.stage = "io_error" /\ me.socket = rpc.task[t].socket /\ me.serial = rpc.task[t].serial
        /\ me.call = rpc.task[t].call
    BY <2>1, <2>2, <1>1, StageFields, SMT
  <2>4. Goes(rpc.task[t], me, rpc.sockets)
    BY <2>3, <1>2, <1>3, <1>5, Zenon DEF Goes, InFlight, Handshake
  <2>5. rpc.task[t].stage # "idle" /\ "io_error" # "idle"
    BY <1>2, Zenon
  <2> QED
    BY <2>1, <2>2, <2>4, <2>5, <1>5, StageStep, Zenon
<1>6. ASSUME rpc' = [rpc EXCEPT !.task[t].stage = "read",
                       !.sockets[s] = [@ EXCEPT !.stream = {t}, !.requests = Append(rpc.sockets[s].requests, RequestOf(rpc.task[t]))]]
      PROVE RpcInv'
  <2>1. PICK q : q = RequestOf(rpc.task[t])
    OBVIOUS
  <2>2. q \in PacketRec /\ q.kind = "reply" /\ q.serial = rpc.task[t].serial /\ q.call = rpc.task[t].call
    <3>1. rpc.task[t].serial \in Nat /\ rpc.task[t].proc \in Procedure /\ rpc.task[t].call \in Nat
      BY <1>1, Zenon DEF TaskRec
    <3>2. "reply" \in {"reply", "message"} /\ "ok" \in Says
      BY Zenon DEF Says
    <3>3. q \in PacketRec
      BY <3>1, <3>2, <2>1, Zenon DEF RequestOf, PacketRec
    <3> QED
      BY <3>3, <2>1, Zenon DEF RequestOf
  <2>3. PICK me : me = [rpc.task[t] EXCEPT !.stage = "read"]
    BY Zenon
  <2>4. "read" \in RpcStage
    BY Zenon DEF RpcStage
  <2>5. /\ me \in TaskRec /\ me.stage = "read" /\ me.op = rpc.task[t].op /\ me.proc = rpc.task[t].proc
        /\ me.call = rpc.task[t].call /\ me.socket = rpc.task[t].socket /\ me.serial = rpc.task[t].serial
        /\ me.outcome = rpc.task[t].outcome /\ me.stray = rpc.task[t].stray
    BY <2>3, <2>4, <1>1, StageFields, SMT
  <2>6. rpc.sockets[s].requests \in Seq(PacketRec)
    BY <1>4, Zenon DEF SocketRec
  <2>7. PICK rq : rq = Append(rpc.sockets[s].requests, q)
    BY Zenon
  <2>8. rq \in Seq(PacketRec)
    BY <2>2, <2>6, <2>7, SMT
  <2>9. PICK k : k = [rpc.sockets[s] EXCEPT !.stream = {t}, !.requests = rq]
    OBVIOUS
  <2>10. k \in SocketRec
    <3>1. {t} \in SUBSET Task
      OBVIOUS
    <3> QED
      BY <3>1, <2>8, <2>9, <1>4, Zenon DEF SocketRec
  <2>11. /\ k.requests = rq /\ k.replies = rpc.sockets[s].replies /\ k.serial = rpc.sockets[s].serial
         /\ k.closed = rpc.sockets[s].closed /\ (Live(k) <=> Live(rpc.sockets[s]))
    <3>1. /\ k.requests = rq /\ k.replies = rpc.sockets[s].replies /\ k.serial = rpc.sockets[s].serial
          /\ k.closed = rpc.sockets[s].closed /\ k.opened = rpc.sockets[s].opened /\ k.ended = rpc.sockets[s].ended
      BY <2>9, <1>4, SMT DEF SocketRec
    <3> QED
      BY <3>1, Zenon DEF Live
  <2>12. PICK tk : tk = [rpc.task EXCEPT ![t] = me]
    BY Zenon
  <2>13. tk \in [Task -> TaskRec] /\ tk[t] = me /\ \A u \in Task : u # t => tk[u] = rpc.task[u]
    BY <2>5, <2>12, <1>1, Zenon
  <2>14. PICK so : so = [rpc.sockets EXCEPT ![s] = k]
    BY Zenon
  <2>15. /\ so \in Seq(SocketRec) /\ DOMAIN so = DOMAIN rpc.sockets /\ so[s] = k
         /\ \A u \in DOMAIN rpc.sockets : u # s => so[u] = rpc.sockets[u]
    <3>1. so \in Seq(SocketRec)
      BY <2>10, <2>14, <1>1, <1>4, SMT
    <3> QED
      BY <3>1, <2>14, <1>4, Zenon
  <2>16. rpc' = [rpc EXCEPT !.task = tk, !.sockets = so]
    <3>1. k = [rpc.sockets[s] EXCEPT !.stream = {t}, !.requests = Append(rpc.sockets[s].requests, RequestOf(rpc.task[t]))]
      BY <2>1, <2>7, <2>9, <1>4, Zenon DEF SocketRec
    <3> QED
      BY <3>1, <2>3, <2>12, <2>14, <1>1, <1>6, Zenon DEF RpcRec
  <2>17. /\ rpc' \in RpcRec /\ rpc'.sockets = so /\ rpc'.executed = rpc.executed /\ rpc'.network = rpc.network
         /\ rpc'.current = rpc.current /\ rpc'.opening = rpc.opening /\ rpc'.task = tk
    BY <2>13, <2>15, <2>16, <1>1, Zenon DEF RpcRec
  <2>18. Calls(rpc.task, rpc.sockets, rpc.executed, rpc.network)
    BY Zenon DEF RpcInv
  <2>19. Reports(me, rpc.network)
    <3>1. Reports(rpc.task[t], rpc.network)
      BY <2>18, Zenon DEF Calls
    <3> QED
      BY <3>1, <2>5, <1>2, Zenon DEF Reports
  <2>20. Writes(rpc.task, rpc.sockets, rpc.network, t, q, tk, so)
    <3>1. ASSUME NEW u \in DOMAIN rpc.sockets
          PROVE  /\ so[u].replies = rpc.sockets[u].replies /\ so[u].closed = rpc.sockets[u].closed
                 /\ so[u].serial = rpc.sockets[u].serial
                 /\ u # rpc.task[t].socket => so[u].requests = rpc.sockets[u].requests
      BY <2>11, <2>15, <1>3, Zenon
    <3> QED
      BY <3>1, <2>2, <2>5, <2>7, <2>11, <2>13, <2>15, <2>19, <1>3, Zenon DEF Writes
  <2>21. Calls(tk, so, rpc.executed, rpc.network)
    BY <2>2, <2>18, <2>20, <1>1, <1>2, WriteStep, Zenon
  <2>22. Opens(tk, rpc.current, rpc.opening, so)
    <3>1. \A u \in Task : tk[u].stage \in Handshake => rpc.task[u].stage \in Handshake
      BY <2>5, <2>13, Zenon DEF Handshake
    <3>2. \A u \in DOMAIN so : Live(so[u]) => Live(rpc.sockets[u])
      BY <2>11, <2>15, Zenon
    <3> QED
      BY <3>1, <3>2, <2>15, Zenon DEF RpcInv, Opens
  <2> QED
    BY <2>17, <2>21, <2>22, Zenon DEF RpcInv
<1> QED
  BY <1>3, <1>5, <1>6, Zenon DEF write, SocketOf

\* A socket from which something is read, or nothing.
ReadFrom(l, k) ==
  /\ k.requests = l.requests /\ k.serial = l.serial /\ k.closed = l.closed
  /\ Live(k) <=> Live(l)
  /\ Answered(k) \subseteq Answered(l)

\* A step that reads from one socket, and lets tasks go on, keeps the
\* invariant.
LEMMA OneSocket ==
  ASSUME RpcInv, NEW s \in DOMAIN rpc.sockets, NEW k, ReadFrom(rpc.sockets[s], k), rpc' \in RpcRec,
         rpc'.sockets = [rpc.sockets EXCEPT ![s] = k], rpc'.executed = rpc.executed, rpc'.network = rpc.network,
         rpc'.current = rpc.current, rpc'.opening = rpc.opening,
         \A u \in Task :
           \/ rpc'.task[u] = rpc.task[u]
           \/ /\ Reports(rpc'.task[u], rpc.network) /\ Goes(rpc.task[u], rpc'.task[u], rpc'.sockets)
              /\ rpc'.task[u].stage \notin Handshake
  PROVE  RpcInv'
<1>1. /\ DOMAIN rpc'.sockets = DOMAIN rpc.sockets /\ rpc'.sockets[s] = k
      /\ \A u \in DOMAIN rpc.sockets : u # s => rpc'.sockets[u] = rpc.sockets[u]
  BY SMT
<1>2. Once(rpc.sockets[s].requests)
  BY Zenon DEF RpcInv, Calls, SocketOK
<1>3. Fewer(rpc.sockets[s], k) /\ (Live(k) <=> Live(rpc.sockets[s]))
  BY <1>2, Zenon DEF Fewer, ReadFrom
<1>4. /\ \A u \in DOMAIN rpc.sockets :
           u \in DOMAIN rpc'.sockets /\ (rpc'.sockets[u] = rpc.sockets[u] \/ Fewer(rpc.sockets[u], rpc'.sockets[u]))
      /\ \A u \in DOMAIN rpc'.sockets :
           \/ /\ u \in DOMAIN rpc.sockets
              /\ Live(rpc'.sockets[u]) => Live(rpc.sockets[u]) /\ (u \in rpc.current => u \in rpc'.current)
           \/ rpc'.sockets[u] = FreshSocket
  BY <1>1, <1>3, Zenon
<1>5. \A u \in Task :
        \/ rpc'.task[u] = rpc.task[u] /\ (u \in rpc.opening => u \in rpc'.opening)
        \/ /\ Reports(rpc'.task[u], rpc.network) /\ Goes(rpc.task[u], rpc'.task[u], rpc'.sockets)
           /\ rpc'.task[u].stage \in Handshake => rpc.task[u].stage \in Handshake /\ u \in rpc'.opening
  BY Zenon
<1> QED
  BY <1>4, <1>5, NothingSent, Zenon

\* A task that waits for its reply has a socket.
LEMMA ReadingTask ==
  ASSUME RpcInv, NEW t \in Task, rpc.task[t].stage = "read"
  PROVE  /\ rpc \in RpcRec /\ rpc.task[t] \in TaskRec /\ rpc.task \in [Task -> TaskRec]
         /\ rpc.sockets \in Seq(SocketRec) /\ rpc.task[t].socket \in DOMAIN rpc.sockets
         /\ rpc.sockets[rpc.task[t].socket] \in SocketRec
<1>1. /\ rpc \in RpcRec /\ rpc.task[t] \in TaskRec /\ rpc.task \in [Task -> TaskRec] /\ rpc.sockets \in Seq(SocketRec)
      /\ \A s \in DOMAIN rpc.sockets : rpc.sockets[s] \in SocketRec
  BY RpcFields, Zenon DEF RpcInv
<1>2. rpc.task[t].socket \in DOMAIN rpc.sockets
  BY Zenon DEF RpcInv, Calls, Placed, InFlight
<1> QED
  BY <1>1, <1>2, Zenon

\* The end of the stream keeps the invariant (Transport::read_packet).
LEMMA ReadEndsStep ==
  ASSUME RpcInv, NEW t \in Task, read_ends(t)
  PROVE  RpcInv'
<1>1. rpc.task[t].stage = "read"
  BY Zenon DEF read_ends, On
<1>2. PICK s : s = rpc.task[t].socket
  OBVIOUS
<1>3. /\ rpc \in RpcRec /\ rpc.task[t] \in TaskRec /\ rpc.task \in [Task -> TaskRec]
      /\ rpc.sockets \in Seq(SocketRec) /\ s \in DOMAIN rpc.sockets /\ rpc.sockets[s] \in SocketRec
  BY <1>1, <1>2, ReadingTask, Zenon
<1>4. rpc.sockets[s].closed /\ rpc' = [rpc EXCEPT !.task[t].stage = "io_error", !.sockets[s].stream = {}]
  BY <1>2, Zenon DEF read_ends, SocketOf
<1>5. PICK me : me = [rpc.task[t] EXCEPT !.stage = "io_error"]
  BY Zenon
<1>6. PICK k : k = [rpc.sockets[s] EXCEPT !.stream = {}]
  BY Zenon
<1>7. "io_error" \in RpcStage /\ "io_error" \notin Handshake
  BY Zenon DEF RpcStage, Handshake
<1>8. /\ me \in TaskRec /\ me.stage = "io_error" /\ me.op = rpc.task[t].op /\ me.proc = rpc.task[t].proc
      /\ me.call = rpc.task[t].call /\ me.socket = rpc.task[t].socket /\ me.serial = rpc.task[t].serial
      /\ me.outcome = rpc.task[t].outcome /\ me.stray = rpc.task[t].stray
  BY <1>3, <1>5, <1>7, StageFields, SMT
<1>9. k \in SocketRec
  BY <1>3, <1>6, Zenon DEF SocketRec
<1>10. /\ k.requests = rpc.sockets[s].requests /\ k.replies = rpc.sockets[s].replies
       /\ k.serial = rpc.sockets[s].serial /\ k.closed = rpc.sockets[s].closed
       /\ k.opened = rpc.sockets[s].opened /\ k.ended = rpc.sockets[s].ended
  BY <1>3, <1>6, SMT DEF SocketRec
<1>11. ReadFrom(rpc.sockets[s], k)
  BY <1>10, Zenon DEF Live, Answered, ReadFrom
<1>12. PICK tk : tk = [rpc.task EXCEPT ![t] = me]
  BY Zenon
<1>13. tk \in [Task -> TaskRec] /\ tk[t] = me /\ \A u \in Task : u # t => tk[u] = rpc.task[u]
  BY <1>3, <1>8, <1>12, Zenon
<1>14. PICK so : so = [rpc.sockets EXCEPT ![s] = k]
  BY Zenon
<1>15. so \in Seq(SocketRec) /\ so[s] = k
  BY <1>3, <1>9, <1>14, SMT
<1>16. rpc' = [rpc EXCEPT !.task = tk, !.sockets = so]
  BY <1>3, <1>4, <1>5, <1>6, <1>12, <1>14, Zenon DEF RpcRec
<1>17. /\ rpc' \in RpcRec /\ rpc'.sockets = so /\ rpc'.executed = rpc.executed /\ rpc'.network = rpc.network
       /\ rpc'.current = rpc.current /\ rpc'.opening = rpc.opening /\ rpc'.task = tk
  BY <1>3, <1>13, <1>15, <1>16, Zenon DEF RpcRec
<1>18. Reports(me, rpc.network)
  <2>1. Reports(rpc.task[t], rpc.network)
    BY Zenon DEF RpcInv, Calls
  <2> QED
    BY <2>1, <1>1, <1>8, Zenon DEF Reports
<1>19. Goes(rpc.task[t], me, so)
  BY <1>1, <1>2, <1>4, <1>8, <1>10, <1>15, Zenon DEF Goes, InFlight, Handshake
<1>20. ASSUME NEW u \in Task
       PROVE \/ rpc'.task[u] = rpc.task[u]
             \/ /\ Reports(rpc'.task[u], rpc.network) /\ Goes(rpc.task[u], rpc'.task[u], rpc'.sockets)
                /\ rpc'.task[u].stage \notin Handshake
  BY <1>7, <1>8, <1>13, <1>17, <1>18, <1>19, Zenon
<1>21. rpc'.sockets = [rpc.sockets EXCEPT ![s] = k]
  BY <1>14, <1>17, Zenon
<1> QED
  BY <1>3, <1>11, <1>17, <1>20, <1>21, OneSocket, Zenon

\* Skipping a notification keeps the invariant: it is nobody's reply.
LEMMA SkipStep ==
  ASSUME RpcInv, NEW t \in Task, skip_message(t)
  PROVE  RpcInv'
<1>1. rpc.task[t].stage = "read"
  BY Zenon DEF skip_message, On
<1>2. PICK s : s = rpc.task[t].socket
  OBVIOUS
<1>3. /\ rpc \in RpcRec /\ rpc.sockets \in Seq(SocketRec) /\ s \in DOMAIN rpc.sockets /\ rpc.sockets[s] \in SocketRec
  BY <1>1, <1>2, ReadingTask, Zenon
<1>4. rpc.sockets[s].replies # <<>> /\ rpc' = [rpc EXCEPT !.sockets[s].replies = Tail(@)]
  BY <1>2, Zenon DEF skip_message, SocketOf
<1>5. PICK rs : rs = Tail(rpc.sockets[s].replies)
  BY Zenon
<1>6. rs \in Seq(PacketRec) /\ Members(rs) \subseteq Members(rpc.sockets[s].replies)
  <2>1. rpc.sockets[s].replies \in Seq(PacketRec)
    BY <1>3, Zenon DEF SocketRec
  <2> QED
    BY <2>1, <1>4, <1>5, RpcTail, SMT
<1>7. PICK k : k = [rpc.sockets[s] EXCEPT !.replies = rs]
  BY Zenon
<1>9. k \in SocketRec
  BY <1>3, <1>6, <1>7, Zenon DEF SocketRec
<1>10. /\ k.requests = rpc.sockets[s].requests /\ k.replies = rs
       /\ k.serial = rpc.sockets[s].serial /\ k.closed = rpc.sockets[s].closed
       /\ k.opened = rpc.sockets[s].opened /\ k.ended = rpc.sockets[s].ended
  BY <1>3, <1>7, SMT DEF SocketRec
<1>11. ReadFrom(rpc.sockets[s], k)
  BY <1>6, <1>10, Zenon DEF Live, Answered, ReadFrom
<1>14. PICK so : so = [rpc.sockets EXCEPT ![s] = k]
  BY Zenon
<1>15. so \in Seq(SocketRec)
  BY <1>3, <1>9, <1>14, SMT
<1>16. rpc' = [rpc EXCEPT !.sockets = so]
  BY <1>3, <1>4, <1>5, <1>7, <1>14, Zenon DEF RpcRec
<1>17. /\ rpc' \in RpcRec /\ rpc'.sockets = so /\ rpc'.executed = rpc.executed /\ rpc'.network = rpc.network
       /\ rpc'.current = rpc.current /\ rpc'.opening = rpc.opening /\ rpc'.task = rpc.task
  BY <1>3, <1>15, <1>16, Zenon DEF RpcRec
<1> QED
  BY <1>3, <1>11, <1>14, <1>17, OneSocket, SMTT(30)

\* What ensure_network calls next needs no more than the reply has shown, and
\* its end needs the whole network.
LEMMA FollowsKnown ==
  ASSUME NEW ne \in SUBSET Ensured, NEW p, p.proc \in Ensuring, Known(p.proc) \subseteq ne, Shown(p) \subseteq ne
  PROVE  /\ \A next \in Follows(p.proc, p.says) : next \in Ensuring /\ Known(next) \subseteq ne
         /\ Follows(p.proc, p.says) = {} => ne = Ensured
<1>1. CASE p.proc = "network_lookup_by_name" /\ p.says = "no_network"
  <2>1. Known("network_define_xml") = {} /\ "network_define_xml" \in Ensuring
    BY SMT DEF Known, Ensuring
  <2>2. Follows(p.proc, p.says) = {"network_define_xml"}
    BY <1>1, SMT DEF Follows
  <2> QED
    BY <2>1, <2>2, Zenon
<1>2. CASE p.proc = "network_lookup_by_name" /\ p.says # "no_network"
  <2>1. "defined" \in ne
    BY <1>2, SMT DEF Shown
  <2> QED
    BY <2>1, <1>2, SMT DEF Follows, Ensuring, Known
<1>3. CASE p.proc = "network_define_xml"
  <2>1. "defined" \in ne
    BY <1>3, SMT DEF Shown
  <2> QED
    BY <2>1, <1>3, SMT DEF Follows, Ensuring, Known
<1>4. CASE p.proc = "network_set_autostart"
  <2>1. "autostart" \in ne /\ "defined" \in ne
    BY <1>4, SMT DEF Shown, Known
  <2> QED
    BY <2>1, <1>4, SMT DEF Follows, Ensuring, Known
<1>5. CASE p.proc = "network_is_active" /\ p.says = "inactive"
  <2>1. "autostart" \in ne /\ "defined" \in ne
    BY <1>5, SMT DEF Known
  <2> QED
    BY <2>1, <1>5, SMT DEF Follows, Ensuring, Known
<1>6. CASE p.proc = "network_is_active" /\ p.says # "inactive"
  <2>1. "autostart" \in ne /\ "defined" \in ne /\ "active" \in ne
    BY <1>6, SMT DEF Known, Shown
  <2>2. Follows(p.proc, p.says) = {}
    BY <1>6, SMT DEF Follows
  <2> QED
    BY <2>1, <2>2, Zenon DEF Ensured
<1>7. CASE p.proc = "network_create"
  <2>1. "autostart" \in ne /\ "defined" \in ne /\ "active" \in ne
    BY <1>7, SMT DEF Known, Shown
  <2>2. Follows(p.proc, p.says) = {}
    BY <1>7, SMT DEF Follows
  <2> QED
    BY <2>1, <2>2, Zenon DEF Ensured
<1> QED
  BY <1>1, <1>2, <1>3, <1>4, <1>5, <1>6, <1>7, Zenon DEF Ensuring

\* The sockets after a read from s.
SocketRead(s, so) == \E k : ReadFrom(rpc.sockets[s], k) /\ so = [rpc.sockets EXCEPT ![s] = k]

\* The connection after the task t took the reply off the socket, which
\* releases it.
Reading(t, s, x) ==
  [rpc EXCEPT !.sockets[s] = [rpc.sockets[s] EXCEPT !.replies = Tail(@), !.stream = {}], !.task[t].stray = x]

\* What taking a reply off the socket changes.
LEMMA ReplyRead ==
  ASSUME RpcInv, NEW t \in Task, rpc.task[t].stage = "read", NEW s, s = rpc.task[t].socket,
         rpc.sockets[s].replies # <<>>, NEW x \in Nat, NEW r, r = Reading(t, s, x)
  PROVE  /\ r \in RpcRec /\ r.executed = rpc.executed /\ r.network = rpc.network
         /\ r.current = rpc.current /\ r.opening = rpc.opening
         /\ \A u \in Task : u # t => r.task[u] = rpc.task[u]
         /\ r.task[t] \in TaskRec /\ r.task[t].stray = x
         /\ r.task[t].op = rpc.task[t].op /\ r.task[t].outcome = rpc.task[t].outcome
         /\ SocketRead(s, r.sockets)
<1>3. /\ rpc \in RpcRec /\ rpc.task[t] \in TaskRec /\ rpc.task \in [Task -> TaskRec]
      /\ rpc.sockets \in Seq(SocketRec) /\ s \in DOMAIN rpc.sockets /\ rpc.sockets[s] \in SocketRec
  BY ReadingTask, Zenon
<1>5. PICK rs : rs = Tail(rpc.sockets[s].replies)
  BY Zenon
<1>6. rs \in Seq(PacketRec) /\ Members(rs) \subseteq Members(rpc.sockets[s].replies)
  <2>1. rpc.sockets[s].replies \in Seq(PacketRec) /\ rpc.sockets[s].replies # <<>>
    BY <1>3, Zenon DEF SocketRec
  <2> QED
    BY ONLY <2>1, <1>5, RpcTail, SMT
<1>7. PICK k : k = [rpc.sockets[s] EXCEPT !.replies = rs, !.stream = {}]
  BY SMTT(60)
<1>9. k \in SocketRec
  BY <1>3, <1>6, <1>7, Zenon DEF SocketRec
<1>10. /\ k.requests = rpc.sockets[s].requests /\ k.replies = rs
       /\ k.serial = rpc.sockets[s].serial /\ k.closed = rpc.sockets[s].closed
       /\ k.opened = rpc.sockets[s].opened /\ k.ended = rpc.sockets[s].ended
  BY <1>3, <1>7, SMT DEF SocketRec
<1>11. ReadFrom(rpc.sockets[s], k)
  BY <1>6, <1>10, Zenon DEF Live, Answered, ReadFrom
<1>12. PICK so : so = [rpc.sockets EXCEPT ![s] = k]
  BY Zenon
<1>13. so \in Seq(SocketRec)
  BY <1>3, <1>9, <1>12, SMT
<1>14. PICK me : me = [rpc.task[t] EXCEPT !.stray = x]
  BY Zenon
<1>15. me \in TaskRec
  BY <1>3, <1>14, Zenon DEF TaskRec
<1>16. me.stray = x /\ me.op = rpc.task[t].op /\ me.outcome = rpc.task[t].outcome
  BY <1>3, <1>14, SMT DEF TaskRec
<1>17. PICK tk : tk = [rpc.task EXCEPT ![t] = me]
  BY Zenon
<1>18. tk \in [Task -> TaskRec] /\ tk[t] = me /\ \A u \in Task : u # t => tk[u] = rpc.task[u]
  BY <1>3, <1>15, <1>17, Zenon
<1>19. r = [rpc EXCEPT !.sockets = so, !.task = tk]
  <2>1. k = [rpc.sockets[s] EXCEPT !.replies = Tail(@), !.stream = {}]
    BY <1>3, <1>5, <1>7, Zenon DEF SocketRec
  <2> QED
    BY <2>1, <1>3, <1>12, <1>14, <1>17, Zenon DEF RpcRec, Reading
<1>20. /\ r \in RpcRec /\ r.sockets = so /\ r.executed = rpc.executed /\ r.network = rpc.network
       /\ r.current = rpc.current /\ r.opening = rpc.opening /\ r.task = tk
  BY <1>3, <1>13, <1>18, <1>19, Zenon DEF RpcRec
<1>21. SocketRead(s, r.sockets)
  BY <1>11, <1>12, <1>20, ZenonT(60) DEF SocketRead
<1> QED
  BY <1>15, <1>16, <1>18, <1>20, <1>21, Zenon

\* The task that took it ends its operation or goes on to its next call: the
\* invariant is kept.
LEMMA ReplyTaken ==
  ASSUME RpcInv, NEW t \in Task, rpc.task[t].stage = "read", NEW s, s = rpc.task[t].socket,
         rpc' \in RpcRec, rpc'.executed = rpc.executed, rpc'.network = rpc.network,
         rpc'.current = rpc.current, rpc'.opening = rpc.opening,
         SocketRead(s, rpc'.sockets),
         \A u \in Task : u # t => rpc'.task[u] = rpc.task[u],
         Reports(rpc'.task[t], rpc.network), rpc'.task[t].stage \in {"idle", "current"}
  PROVE  RpcInv'
<1>1. s \in DOMAIN rpc.sockets
  BY ReadingTask, Zenon
<1>2. Goes(rpc.task[t], rpc'.task[t], rpc'.sockets) /\ rpc'.task[t].stage \notin Handshake
  BY Zenon DEF Goes, InFlight, Handshake
<1>3. \A u \in Task :
        \/ rpc'.task[u] = rpc.task[u]
        \/ /\ Reports(rpc'.task[u], rpc.network) /\ Goes(rpc.task[u], rpc'.task[u], rpc'.sockets)
           /\ rpc'.task[u].stage \notin Handshake
  BY <1>2, Zenon
<1>4. PICK k : ReadFrom(rpc.sockets[s], k) /\ rpc'.sockets = [rpc.sockets EXCEPT ![s] = k]
  BY Zenon DEF SocketRead
<1> QED
  BY <1>1, <1>3, <1>4, OneSocket, SMTT(30)

\* process_reply keeps the invariant: a reply with the task's serial is the
\* reply to its own call, even when replies to dropped tasks' calls come
\* before it, and any other ends the operation with a protocol error.
LEMMA ProcessStep ==
  ASSUME RpcInv, NEW t \in Task, process_reply(t)
  PROVE  RpcInv'
<1>1. rpc.task[t].stage = "read"
  BY Zenon DEF process_reply, On
<1>2. PICK s : s = rpc.task[t].socket
  OBVIOUS
<1>3. PICK p : p = Head(rpc.sockets[s].replies)
  OBVIOUS
<1>4. PICK x : x = IF p.call = rpc.task[t].call THEN 0 ELSE s
  OBVIOUS
<1>5. PICK r : r = Reading(t, s, x)
  OBVIOUS
<1>6. /\ rpc.sockets[s].replies # <<>> /\ p.kind = "reply"
      /\ \/ ~Matches(p, rpc.task[t]) /\ rpc' = Ended(r, t, "protocol")
         \/ Matches(p, rpc.task[t]) /\ p.says = "error" /\ rpc' = Ended(r, t, "error")
         \/ Matches(p, rpc.task[t]) /\ Follows(rpc.task[t].proc, p.says) = {} /\ rpc' = Ended(r, t, "ok")
         \/ /\ Matches(p, rpc.task[t])
            /\ \E next \in Follows(rpc.task[t].proc, p.says) :
                 rpc' = [r EXCEPT !.task[t] = [@ EXCEPT !.proc = next, !.stage = "current", !.call = 0,
                                                        !.socket = 0, !.serial = 0]]
  BY <1>2, <1>3, <1>4, <1>5, Zenon DEF process_reply, SocketOf, Reading
<1>7. /\ rpc \in RpcRec /\ rpc.task[t] \in TaskRec /\ s \in DOMAIN rpc.sockets /\ rpc.sockets[s] \in SocketRec
      /\ rpc.sockets \in Seq(SocketRec)
  BY <1>1, <1>2, ReadingTask, Zenon
<1>8. x \in Nat
  <2>1. rpc.task[t].socket \in Nat
    BY <1>7, Zenon DEF TaskRec
  <2> QED
    BY <2>1, <1>2, <1>4, SMTT(60)
<1>9. /\ r \in RpcRec /\ r.executed = rpc.executed /\ r.network = rpc.network
      /\ r.current = rpc.current /\ r.opening = rpc.opening
      /\ \A u \in Task : u # t => r.task[u] = rpc.task[u]
      /\ r.task[t] \in TaskRec /\ r.task[t].stray = x
      /\ r.task[t].op = rpc.task[t].op /\ r.task[t].outcome = rpc.task[t].outcome
      /\ SocketRead(s, r.sockets)
  <2>1. rpc.sockets[s].replies # <<>>
    BY <1>6, Zenon
  <2> QED
    BY <2>1, <1>1, <1>2, <1>5, <1>8, ReplyRead, SMTT(30)
<1>10. p \in Answered(rpc.sockets[s])
  <2>1. rpc.sockets[s].replies \in Seq(PacketRec) /\ rpc.sockets[s].replies # <<>>
    BY <1>6, <1>7, Zenon DEF SocketRec
  <2>2. Head(rpc.sockets[s].replies) \in Members(rpc.sockets[s].replies)
    BY ONLY <2>1, RpcTail, SMT
  <2> QED
    BY <2>2, <1>3, <1>6, Zenon DEF Answered
<1>11. Matches(p, rpc.task[t]) => x = 0
  <2>1. Answers(rpc.task[t], rpc.sockets)
    BY Zenon DEF RpcInv, Calls
  <2> QED
    BY <2>1, <1>1, <1>2, <1>4, <1>10, Zenon DEF Answers, InFlight, Packets, Matches
<1>12. Shown(p) \subseteq rpc.network
  BY <1>7, <1>10, Zenon DEF RpcInv, Calls, SocketOK
<1>13. /\ rpc.task[t].outcome = "none"
       /\ rpc.task[t].op = "ensure_network" => rpc.task[t].proc \in Ensuring /\ Known(rpc.task[t].proc) \subseteq rpc.network
  BY <1>1, Zenon DEF RpcInv, Calls, Reports
<1>14. ASSUME Matches(p, rpc.task[t]), rpc.task[t].op = "ensure_network"
       PROVE  /\ \A next \in Follows(rpc.task[t].proc, p.says) : next \in Ensuring /\ Known(next) \subseteq rpc.network
              /\ Follows(rpc.task[t].proc, p.says) = {} => rpc.network = Ensured
  <2>1. rpc.network \in SUBSET Ensured
    BY <1>7, RpcFields, Zenon
  <2>2. p.proc = rpc.task[t].proc
    BY <1>14, Zenon DEF Matches
  <2> QED
    BY <2>1, <2>2, <1>12, <1>13, <1>14, FollowsKnown, Zenon
<1>15. ASSUME NEW o \in Outcome, rpc' = Ended(r, t, o), o = "protocol" \/ x = 0,
              o = "ok" /\ rpc.task[t].op = "ensure_network" => rpc.network = Ensured
       PROVE  RpcInv'
  <2>1. /\ rpc' \in RpcRec /\ rpc'.sockets = r.sockets /\ rpc'.executed = r.executed /\ rpc'.network = r.network
        /\ rpc'.current = r.current /\ rpc'.opening = r.opening
        /\ \A u \in Task : u # t => rpc'.task[u] = r.task[u]
        /\ rpc'.task[t].stage = "idle" /\ rpc'.task[t].outcome = o /\ rpc'.task[t].stray = r.task[t].stray
        /\ rpc'.task[t].op = (IF o = "ok" THEN r.task[t].op ELSE "capabilities")
    BY <1>9, <1>15, EndedFields, SMTT(30)
  <2>2. Reports(rpc'.task[t], rpc.network)
    <3>1. rpc'.task[t].stray # 0 => rpc'.task[t].outcome = "protocol"
      BY <2>1, <1>9, <1>15, Zenon
    <3>2. rpc'.task[t].op = "ensure_network" /\ rpc'.task[t].outcome = "ok" => rpc.network = Ensured
      BY <2>1, <1>9, <1>15, Zenon
    <3> QED
      BY <3>1, <3>2, <2>1, Zenon DEF Reports
  <2>3. /\ rpc'.executed = rpc.executed /\ rpc'.network = rpc.network /\ rpc'.current = rpc.current
        /\ rpc'.opening = rpc.opening /\ \A u \in Task : u # t => rpc'.task[u] = rpc.task[u]
        /\ SocketRead(s, rpc'.sockets)
        /\ rpc'.task[t].stage \in {"idle", "current"}
    BY <2>1, <1>9, Zenon
  <2> QED
    BY <2>1, <2>2, <2>3, <1>1, <1>2, ReplyTaken, Zenon
<1>16. ASSUME Matches(p, rpc.task[t]), NEW next \in Follows(rpc.task[t].proc, p.says),
              rpc' = [r EXCEPT !.task[t] = [@ EXCEPT !.proc = next, !.stage = "current", !.call = 0,
                                                     !.socket = 0, !.serial = 0]]
       PROVE  RpcInv'
  <2>1. PICK me : me = [r.task[t] EXCEPT !.proc = next, !.stage = "current", !.call = 0, !.socket = 0, !.serial = 0]
    OBVIOUS
  <2>2. next \in Procedure
    BY <1>16, SMT DEF Follows, Procedure
  <2>3. me \in TaskRec
    <3>1. "current" \in RpcStage /\ 0 \in Nat
      BY SMT DEF RpcStage
    <3> QED
      BY <3>1, <2>1, <2>2, <1>9, Zenon DEF TaskRec
  <2>4. /\ me.stage = "current" /\ me.proc = next /\ me.op = r.task[t].op /\ me.stray = r.task[t].stray
        /\ me.outcome = r.task[t].outcome
    BY <2>1, <1>9, SMT DEF TaskRec
  <2>5. PICK tk : tk = [r.task EXCEPT ![t] = me]
    BY Zenon
  <2>6. tk \in [Task -> TaskRec] /\ tk[t] = me /\ \A u \in Task : u # t => tk[u] = r.task[u]
    <3>1. r.task \in [Task -> TaskRec]
      BY <1>9, Zenon DEF RpcRec
    <3> QED
      BY <3>1, <2>3, <2>5, Zenon
  <2>7. rpc' = [r EXCEPT !.task = tk]
    BY <2>1, <2>5, <1>9, <1>16, Zenon DEF RpcRec
  <2>8. /\ rpc' \in RpcRec /\ rpc'.sockets = r.sockets /\ rpc'.executed = r.executed /\ rpc'.network = r.network
        /\ rpc'.current = r.current /\ rpc'.opening = r.opening /\ rpc'.task = tk
    BY <2>6, <2>7, <1>9, Zenon DEF RpcRec
  <2>9. Reports(me, rpc.network)
    BY <2>4, <1>9, <1>11, <1>13, <1>14, <1>16, Zenon DEF Reports
  <2>10. /\ rpc'.executed = rpc.executed /\ rpc'.network = rpc.network /\ rpc'.current = rpc.current
         /\ rpc'.opening = rpc.opening /\ \A u \in Task : u # t => rpc'.task[u] = rpc.task[u]
         /\ SocketRead(s, rpc'.sockets)
         /\ rpc'.task[t].stage \in {"idle", "current"} /\ Reports(rpc'.task[t], rpc.network)
    BY <2>4, <2>6, <2>8, <2>9, <1>9, Zenon
  <2> QED
    BY <2>8, <2>10, <1>1, <1>2, ReplyTaken, Zenon
<1>17. "protocol" \in Outcome /\ "error" \in Outcome /\ "ok" \in Outcome
  BY Zenon DEF Outcome
<1>18. CASE ~Matches(p, rpc.task[t]) /\ rpc' = Ended(r, t, "protocol")
  BY <1>15, <1>17, <1>18, Zenon
<1>19. CASE Matches(p, rpc.task[t]) /\ rpc' = Ended(r, t, "error")
  BY <1>11, <1>15, <1>17, <1>19, Zenon
<1>20. CASE Matches(p, rpc.task[t]) /\ Follows(rpc.task[t].proc, p.says) = {} /\ rpc' = Ended(r, t, "ok")
  BY <1>11, <1>14, <1>15, <1>17, <1>20, Zenon
<1> QED
  BY <1>6, <1>16, <1>18, <1>19, <1>20, Zenon

\* The end of an operation keeps the invariant: nothing is left of it.
LEMMA EndsStep ==
  ASSUME RpcInv, NEW t \in Task, NEW o \in Outcome, rpc.task[t].stage # "idle",
         o = "ok" => rpc.task[t].op # "ensure_network", NEW e, e = Ended(rpc, t, o), rpc' \in RpcRec,
         rpc'.task = e.task, rpc'.executed = rpc.executed, rpc'.network = rpc.network,
         rpc'.current \subseteq rpc.current, rpc'.opening \subseteq rpc.opening, rpc.opening \subseteq rpc'.opening \cup {t},
         \A s \in DOMAIN rpc.sockets :
           s \in DOMAIN rpc'.sockets /\ (rpc'.sockets[s] = rpc.sockets[s] \/ Fewer(rpc.sockets[s], rpc'.sockets[s])),
         \A s \in DOMAIN rpc'.sockets :
           /\ s \in DOMAIN rpc.sockets
           /\ Live(rpc'.sockets[s]) => Live(rpc.sockets[s]) /\ (s \in rpc.current => s \in rpc'.current)
  PROVE  RpcInv'
<1>1. rpc \in RpcRec
  BY Zenon DEF RpcInv
<1>2. /\ \A u \in Task : u # t => e.task[u] = rpc.task[u]
      /\ e.task[t].stage = "idle" /\ e.task[t].outcome = o /\ e.task[t].stray = rpc.task[t].stray
      /\ e.task[t].op = (IF o = "ok" THEN rpc.task[t].op ELSE "capabilities")
  BY <1>1, EndedFields, SMTT(30)
<1>3. rpc.task[t].stray = 0
  BY Zenon DEF RpcInv, Calls, Reports
<1>4. Reports(e.task[t], rpc.network)
  BY <1>2, <1>3, Zenon DEF Reports
<1>5. Goes(rpc.task[t], e.task[t], rpc'.sockets) /\ e.task[t].stage \notin Handshake
  BY <1>2, Zenon DEF Goes, InFlight, Handshake
<1>6. ASSUME NEW u \in Task
      PROVE  \/ rpc'.task[u] = rpc.task[u] /\ (u \in rpc.opening => u \in rpc'.opening)
             \/ /\ Reports(rpc'.task[u], rpc.network) /\ Goes(rpc.task[u], rpc'.task[u], rpc'.sockets)
                /\ rpc'.task[u].stage \in Handshake => rpc.task[u].stage \in Handshake /\ u \in rpc'.opening
  <2>1. CASE u = t
    BY <2>1, <1>4, <1>5, Zenon
  <2>2. CASE u # t
    BY <2>2, <1>2, Zenon
  <2> QED
    BY <2>1, <2>2, Zenon
<1> QED
  BY <1>6, NothingSent, Zenon

\* The end after an I/O error keeps the invariant: only the socket that
\* failed is given up, not one that another task has opened since
\* (RpcApi::request, RpcApi::close).
LEMMA IoErrorStep ==
  ASSUME RpcInv, NEW t \in Task, io_error(t)
  PROVE  RpcInv'
<1>1. rpc \in RpcRec /\ rpc.task[t].stage = "io_error" /\ rpc.task[t].stage # "idle" /\ "ok" \in Outcome /\ "io" \in Outcome
  BY Zenon DEF io_error, On, Outcome, RpcInv
<1>2. PICK o : o = IF rpc.task[t].op = "close" THEN "ok" ELSE "io"
  OBVIOUS
<1>3. PICK e : e = Ended(rpc, t, o)
  OBVIOUS
<1>4. o \in Outcome /\ (o = "ok" => rpc.task[t].op # "ensure_network")
  BY <1>1, <1>2, Zenon
<1>5. /\ e \in RpcRec /\ e.sockets = rpc.sockets /\ e.executed = rpc.executed /\ e.network = rpc.network
      /\ e.current = rpc.current /\ e.opening = rpc.opening
  BY <1>1, <1>3, <1>4, EndedFields, SMTT(30)
<1>6. rpc.sockets[rpc.task[t].socket].closed
  BY <1>1, Zenon DEF RpcInv, Calls, Placed
<1>7. CASE rpc.task[t].op = "close"
  <2>1. rpc' = e
    BY <1>2, <1>3, <1>7, Zenon DEF io_error
  <2>2. /\ rpc' \in RpcRec /\ rpc'.task = e.task /\ rpc'.sockets = rpc.sockets /\ rpc'.executed = rpc.executed
        /\ rpc'.network = rpc.network /\ rpc'.current = rpc.current /\ rpc'.opening = rpc.opening
    BY <2>1, <1>5, Zenon
  <2> QED
    BY <2>2, <1>1, <1>3, <1>4, EndsStep, SMTT(30)
<1>8. CASE rpc.task[t].op # "close"
  <2>1. rpc' = [e EXCEPT !.current = Discards(t)]
    BY <1>2, <1>3, <1>8, Zenon DEF io_error
  <2>2. Discards(t) \in SUBSET Nat
    <3>1. rpc.current \in SUBSET Nat
      BY <1>1, RpcFields, Zenon
    <3> QED
      BY <3>1, Zenon DEF Discards
  <2>3. /\ rpc' \in RpcRec /\ rpc'.task = e.task /\ rpc'.sockets = e.sockets /\ rpc'.executed = e.executed
        /\ rpc'.network = e.network /\ rpc'.current = Discards(t) /\ rpc'.opening = e.opening
    BY <2>1, <2>2, <1>5, Zenon DEF RpcRec
  <2>4. ASSUME NEW s \in DOMAIN rpc.sockets, Live(rpc.sockets[s]), s \in rpc.current PROVE s \in Discards(t)
    BY <2>4, <1>6, Zenon DEF Live, Discards
  <2>5. rpc'.current \subseteq rpc.current
    BY <2>3, Zenon DEF Discards
  <2>6. /\ rpc'.sockets = rpc.sockets /\ rpc'.executed = rpc.executed /\ rpc'.network = rpc.network
        /\ rpc'.opening \subseteq rpc.opening /\ rpc.opening \subseteq rpc'.opening \cup {t}
    BY <2>3, <1>5, Zenon
  <2>7. /\ \A s \in DOMAIN rpc.sockets :
             s \in DOMAIN rpc'.sockets /\ (rpc'.sockets[s] = rpc.sockets[s] \/ Fewer(rpc.sockets[s], rpc'.sockets[s]))
        /\ \A s \in DOMAIN rpc'.sockets :
             /\ s \in DOMAIN rpc.sockets
             /\ Live(rpc'.sockets[s]) => Live(rpc.sockets[s]) /\ (s \in rpc.current => s \in rpc'.current)
    BY <2>3, <2>4, <2>6, Zenon
  <2> QED
    BY <2>3, <2>5, <2>6, <2>7, <1>1, <1>3, <1>4, EndsStep, SMTT(30)
<1> QED
  BY <1>7, <1>8, Zenon

\* Dropping a task at any await keeps the invariant: the guards release the
\* socket and the handshake, and its packets stay under a serial nobody else
\* takes.
LEMMA DroppedStep ==
  ASSUME RpcInv, NEW t \in Task, dropped(t)
  PROVE  RpcInv'
<1>1. /\ rpc \in RpcRec /\ rpc.task[t].stage # "idle" /\ rpc.sockets \in Seq(SocketRec) /\ rpc.faults \in Nat
      /\ DOMAIN rpc.sockets = 1 .. Len(rpc.sockets) /\ \A s \in DOMAIN rpc.sockets : rpc.sockets[s] \in SocketRec
      /\ rpc.opening \in SUBSET Task
  BY RpcFields, Zenon DEF dropped, RpcInv
<1>2. "dropped" \in Outcome /\ rpc.faults + 1 \in Nat
  <2>1. "dropped" \in Outcome
    BY Zenon DEF Outcome
  <2> QED
    BY <2>1, <1>1, SMT
<1>3. PICK e : e = Ended(rpc, t, "dropped")
  OBVIOUS
<1>4. /\ e \in RpcRec /\ e.sockets = rpc.sockets /\ e.executed = rpc.executed /\ e.network = rpc.network
      /\ e.current = rpc.current /\ e.opening = rpc.opening /\ e.faults = rpc.faults
  BY <1>1, <1>2, <1>3, EndedFields, SMTT(30)
<1>5. PICK so : so = [s \in 1 .. Len(rpc.sockets) |-> [rpc.sockets[s] EXCEPT !.stream = @ \ {t}]]
  BY Zenon
<1>6. rpc' = [e EXCEPT !.opening = e.opening \ {t}, !.faults = e.faults + 1, !.sockets = so]
  BY <1>3, <1>4, <1>5, Zenon DEF dropped, RpcRec
<1>7. ASSUME NEW s \in DOMAIN rpc.sockets
      PROVE  /\ s \in DOMAIN so /\ so[s] \in SocketRec /\ Fewer(rpc.sockets[s], so[s])
             /\ (Live(so[s]) <=> Live(rpc.sockets[s]))
  <2>1. PICK st : st = rpc.sockets[s].stream \ {t}
    BY Zenon
  <2>2. s \in DOMAIN so /\ so[s] = [rpc.sockets[s] EXCEPT !.stream = st] /\ rpc.sockets[s] \in SocketRec
    BY <2>1, <1>1, <1>5, Zenon DEF SocketRec
  <2>3. st \in SUBSET Task
    <3>1. rpc.sockets[s].stream \in SUBSET Task
      BY <2>2, Zenon DEF SocketRec
    <3> QED
      BY <3>1, <2>1, Zenon
  <2>4. so[s] \in SocketRec
    BY <2>2, <2>3, Zenon DEF SocketRec
  <2>5. /\ so[s].requests = rpc.sockets[s].requests /\ so[s].replies = rpc.sockets[s].replies
        /\ so[s].serial = rpc.sockets[s].serial /\ so[s].closed = rpc.sockets[s].closed
        /\ so[s].opened = rpc.sockets[s].opened /\ so[s].ended = rpc.sockets[s].ended
    BY <2>2, SMT DEF SocketRec
  <2>6. Once(rpc.sockets[s].requests)
    BY Zenon DEF RpcInv, Calls, SocketOK
  <2> QED
    BY <2>2, <2>4, <2>5, <2>6, Zenon DEF Fewer, Answered, Live
<1>8. so \in Seq(SocketRec) /\ DOMAIN so = DOMAIN rpc.sockets
  <2>1. DOMAIN so = 1 .. Len(rpc.sockets) /\ Len(rpc.sockets) \in Nat
    BY <1>1, <1>5, SMT
  <2>2. so \in [1 .. Len(rpc.sockets) -> SocketRec]
    BY <1>1, <1>5, <1>7, Zenon
  <2> QED
    BY <2>1, <2>2, <1>1, SMT
<1>9. /\ rpc' \in RpcRec /\ rpc'.task = e.task /\ rpc'.sockets = so /\ rpc'.executed = e.executed
      /\ rpc'.network = e.network /\ rpc'.current = e.current /\ rpc'.opening = e.opening \ {t}
  <2>1. e.opening \ {t} \in SUBSET Task /\ e.faults + 1 \in Nat
    BY <1>1, <1>2, <1>4, Zenon
  <2> QED
    BY <2>1, <1>4, <1>6, <1>8, Zenon DEF RpcRec
<1>10. /\ rpc'.executed = rpc.executed /\ rpc'.network = rpc.network /\ rpc'.current \subseteq rpc.current
       /\ rpc'.opening \subseteq rpc.opening /\ rpc.opening \subseteq rpc'.opening \cup {t}
       /\ rpc'.task = e.task /\ rpc' \in RpcRec
  BY <1>4, <1>9, Zenon
<1>11. /\ \A s \in DOMAIN rpc.sockets :
            s \in DOMAIN rpc'.sockets /\ (rpc'.sockets[s] = rpc.sockets[s] \/ Fewer(rpc.sockets[s], rpc'.sockets[s]))
       /\ \A s \in DOMAIN rpc'.sockets :
            /\ s \in DOMAIN rpc.sockets
            /\ Live(rpc'.sockets[s]) => Live(rpc.sockets[s]) /\ (s \in rpc.current => s \in rpc'.current)
  BY <1>4, <1>7, <1>8, <1>9, Zenon
<1>12. "dropped" # "ok"
  OBVIOUS
<1> QED
  BY <1>1, <1>2, <1>3, <1>10, <1>11, <1>12, EndsStep, SMTT(30)

-----------------------------------------------------------------------------
(* The daemon. *)

\* What the daemon answers is true of the network once the request is carried
\* out.
LEMMA SaysTrue ==
  ASSUME rpc.network \in SUBSET Ensured, NEW p, p.proc \in Procedure, p.says = SaysOf(p.proc)
  PROVE  /\ SaysOf(p.proc) \in Says /\ NetworkAfter(p.proc) \in SUBSET Ensured
         /\ rpc.network \subseteq NetworkAfter(p.proc) /\ Shown(p) \subseteq NetworkAfter(p.proc)
<1>1. SaysOf(p.proc) \in Says
  BY SMT DEF SaysOf, Says
<1>2. NetworkAfter(p.proc) \in SUBSET Ensured /\ rpc.network \subseteq NetworkAfter(p.proc)
  BY SMT DEF NetworkAfter, Ensured
<1>3. CASE p.proc = "network_lookup_by_name"
  <2>1. p.says = "no_network" \/ "defined" \in rpc.network
    BY <1>3, SMT DEF SaysOf
  <2>2. Shown(p) \subseteq {"defined"} /\ (p.says = "no_network" => Shown(p) = {})
    BY <1>3, SMT DEF Shown
  <2> QED
    BY <2>1, <2>2, <1>1, <1>2, Zenon
<1>4. CASE p.proc = "network_define_xml"
  <2>1. "defined" \in NetworkAfter(p.proc) /\ Shown(p) = {"defined"}
    BY <1>4, SMT DEF NetworkAfter, Shown
  <2> QED
    BY <2>1, <1>1, <1>2, Zenon
<1>5. CASE p.proc = "network_set_autostart"
  <2>1. "autostart" \in NetworkAfter(p.proc) /\ Shown(p) = {"autostart"}
    BY <1>5, SMT DEF NetworkAfter, Shown
  <2> QED
    BY <2>1, <1>1, <1>2, Zenon
<1>6. CASE p.proc = "network_is_active"
  <2>1. p.says = "inactive" \/ "active" \in rpc.network
    BY <1>6, SMT DEF SaysOf
  <2>2. Shown(p) \subseteq {"active"} /\ (p.says = "inactive" => Shown(p) = {})
    BY <1>6, SMT DEF Shown
  <2> QED
    BY <2>1, <2>2, <1>1, <1>2, Zenon
<1>7. CASE p.proc = "network_create"
  <2>1. "active" \in NetworkAfter(p.proc) /\ Shown(p) = {"active"}
    BY <1>7, SMT DEF NetworkAfter, Shown
  <2> QED
    BY <2>1, <1>1, <1>2, Zenon
<1>8. CASE p.proc \in {"connect_get_capabilities", "connect_close"}
  <2>1. Shown(p) = {}
    BY <1>8, SMT DEF Shown
  <2> QED
    BY <2>1, <1>1, <1>2, Zenon
<1> QED
  BY <1>3, <1>4, <1>5, <1>6, <1>7, <1>8, Zenon DEF Procedure

\* The daemon's next request keeps the invariant.
LEMMA DaemonExecutesStep ==
  ASSUME RpcInv, DaemonExecutes
  PROVE  RpcInv'
<1>1. /\ rpc \in RpcRec /\ rpc.sockets \in Seq(SocketRec) /\ rpc.executed \in Seq(Nat) /\ rpc.network \in SUBSET Ensured
      /\ DOMAIN rpc.sockets = 1 .. Len(rpc.sockets) /\ \A s \in DOMAIN rpc.sockets : rpc.sockets[s] \in SocketRec
  BY RpcFields, Zenon DEF RpcInv
<1>2. PICK s \in DOMAIN rpc.sockets :
        /\ rpc.sockets[s].requests # <<>>
        /\ rpc' = [rpc EXCEPT
             !.sockets[s] = [rpc.sockets[s] EXCEPT
                !.requests = Tail(@),
                !.replies = Append(rpc.sockets[s].replies, [Head(rpc.sockets[s].requests) EXCEPT
                                     !.says = SaysOf(Head(rpc.sockets[s].requests).proc)])],
             !.network = NetworkAfter(Head(rpc.sockets[s].requests).proc),
             !.executed[Head(rpc.sockets[s].requests).call] = rpc.executed[Head(rpc.sockets[s].requests).call] + 1]
  BY <1>1, Zenon DEF DaemonExecutes
<1>3. PICK h : h = Head(rpc.sockets[s].requests)
  OBVIOUS
<1>4. rpc.sockets[s].requests \in Seq(PacketRec) /\ rpc.sockets[s].replies \in Seq(PacketRec) /\ rpc.sockets[s] \in SocketRec
  BY <1>1, Zenon DEF SocketRec
<1>5. PICK rq : rq = Tail(rpc.sockets[s].requests)
  BY Zenon
<1>6. h \in PacketRec /\ rq \in Seq(PacketRec) /\ h \in Members(rpc.sockets[s].requests)
  <2>1. rpc.sockets[s].requests \in Seq(PacketRec) /\ rpc.sockets[s].requests # <<>>
    BY <1>2, <1>4, Zenon
  <2> QED
    BY ONLY <2>1, <1>3, <1>5, RpcTail, SMT
<1>7. PICK y : y = SaysOf(h.proc)
  OBVIOUS
<1>8. PICK q : q = [h EXCEPT !.says = y]
  BY Zenon
<1>9. q.kind = h.kind /\ q.serial = h.serial /\ q.call = h.call /\ q.proc = h.proc /\ q.says = y
  BY <1>6, <1>8, SMT DEF PacketRec
<1>10. PICK ne : ne = NetworkAfter(h.proc)
  OBVIOUS
<1>11. y \in Says /\ ne \in SUBSET Ensured /\ rpc.network \subseteq ne /\ Shown(q) \subseteq ne
  <2>1. h.proc \in Procedure
    BY <1>6, Zenon DEF PacketRec
  <2>2. q.proc \in Procedure /\ q.says = SaysOf(q.proc)
    BY <2>1, <1>7, <1>9, Zenon
  <2> QED
    BY <2>2, <1>1, <1>7, <1>9, <1>10, SaysTrue, SMT
<1>12. q \in PacketRec
  BY <1>6, <1>8, <1>11, Zenon DEF PacketRec
<1>13. PICK rp : rp = Append(rpc.sockets[s].replies, q)
  BY Zenon
<1>14. rp \in Seq(PacketRec)
  BY <1>4, <1>12, <1>13, SMT
<1>15. PICK k : k = [rpc.sockets[s] EXCEPT !.requests = rq, !.replies = rp]
  OBVIOUS
<1>16. k \in SocketRec
  BY <1>4, <1>6, <1>14, <1>15, Zenon DEF SocketRec
<1>17. /\ k.requests = rq /\ k.replies = rp /\ k.serial = rpc.sockets[s].serial /\ k.closed = rpc.sockets[s].closed
       /\ k.opened = rpc.sockets[s].opened /\ k.ended = rpc.sockets[s].ended
  BY <1>4, <1>15, SMT DEF SocketRec
<1>18. PICK so : so = [rpc.sockets EXCEPT ![s] = k]
  BY Zenon
<1>19. so \in Seq(SocketRec)
  BY <1>1, <1>16, <1>18, SMT
<1>20. DOMAIN so = DOMAIN rpc.sockets /\ so[s] = k /\ \A u \in DOMAIN rpc.sockets : u # s => so[u] = rpc.sockets[u]
  BY <1>18, Zenon
<1>21. PICK ex : ex = [rpc.executed EXCEPT ![h.call] = rpc.executed[h.call] + 1]
  BY Zenon
<1>22. h.call \in DOMAIN rpc.executed
  BY <1>6, Zenon DEF RpcInv, Calls, SocketOK
<1>23. ex \in Seq(Nat)
  <2>1. rpc.executed[h.call] + 1 \in Nat
    BY <1>1, <1>22, SMT
  <2> QED
    BY <2>1, <1>1, <1>21, <1>22, SMT
<1>24. rpc' = [rpc EXCEPT !.sockets = so, !.network = ne, !.executed = ex]
  <2>1. k = [rpc.sockets[s] EXCEPT !.requests = Tail(@), !.replies = rp]
    BY <1>4, <1>5, <1>15, Zenon DEF SocketRec
  <2> QED
    BY <2>1, <1>1, <1>2, <1>3, <1>7, <1>8, <1>10, <1>13, <1>18, <1>21, Zenon DEF RpcRec
<1>25. /\ rpc' \in RpcRec /\ rpc'.sockets = so /\ rpc'.executed = ex /\ rpc'.network = ne
       /\ rpc'.current = rpc.current /\ rpc'.opening = rpc.opening /\ rpc'.task = rpc.task
  BY <1>1, <1>11, <1>19, <1>23, <1>24, Zenon DEF RpcRec
<1>26. Executes(rpc.sockets, rpc.executed, s, q, so, ex)
  <2>1. ex = [rpc.executed EXCEPT ![q.call] = @ + 1]
    BY <1>9, <1>21, Zenon
  <2> QED
    BY <2>1, <1>2, <1>3, <1>5, <1>9, <1>13, <1>17, <1>20, Zenon DEF Executes
<1>27. Calls(rpc.task, so, ex, ne)
  <2>1. Calls(rpc.task, rpc.sockets, rpc.executed, rpc.network)
    BY Zenon DEF RpcInv
  <2> QED
    BY <2>1, <1>1, <1>11, <1>12, <1>26, ExecuteStep, Zenon
<1>28. Opens(rpc.task, rpc.current, rpc.opening, so)
  <2>1. \A u \in DOMAIN so : Live(so[u]) => Live(rpc.sockets[u])
    BY <1>17, <1>20, Zenon DEF Live
  <2> QED
    BY <2>1, <1>20, Zenon DEF RpcInv, Opens
<1> QED
  BY <1>25, <1>27, <1>28, Zenon DEF RpcInv

\* A notification keeps the invariant.
LEMMA DaemonNotifiesStep ==
  ASSUME RpcInv, DaemonNotifies
  PROVE  RpcInv'
<1>1. /\ rpc \in RpcRec /\ rpc.sockets \in Seq(SocketRec) /\ rpc.faults \in Nat
      /\ \A s \in DOMAIN rpc.sockets : rpc.sockets[s] \in SocketRec
  BY RpcFields, Zenon DEF RpcInv
<1>2. PICK q : q = [kind |-> "message", serial |-> 0, call |-> 0, proc |-> "connect_close", says |-> "ok"]
  BY Zenon
<1>3. q \in PacketRec /\ q.kind # "reply"
  <2>1. "connect_close" \in Procedure /\ "ok" \in Says /\ 0 \in Nat
    BY SMT DEF Procedure, Says
  <2>2. q \in PacketRec
    BY <2>1, <1>2, Zenon DEF PacketRec
  <2> QED
    BY <2>2, <1>2, SMT
<1>4. PICK s \in rpc.current : rpc' = [rpc EXCEPT !.faults = @ + 1, !.sockets[s].replies = Append(@, q)]
  BY <1>2, Zenon DEF DaemonNotifies
<1>5. s \in DOMAIN rpc.sockets /\ rpc.sockets[s] \in SocketRec
  BY <1>1, Zenon DEF RpcInv, Opens
<1>6. PICK rp : rp = Append(rpc.sockets[s].replies, q)
  BY Zenon
<1>7. rp \in Seq(PacketRec) /\ Members(rp) = Members(rpc.sockets[s].replies) \cup {q}
  <2>1. rpc.sockets[s].replies \in Seq(PacketRec)
    BY <1>5, Zenon DEF SocketRec
  <2> QED
    BY ONLY <2>1, <1>3, <1>6, RpcAppend, SMT
<1>8. PICK k : k = [rpc.sockets[s] EXCEPT !.replies = rp]
  BY Zenon
<1>9. k \in SocketRec
  BY <1>5, <1>7, <1>8, Zenon DEF SocketRec
<1>10. /\ k.requests = rpc.sockets[s].requests /\ k.replies = rp
       /\ k.serial = rpc.sockets[s].serial /\ k.closed = rpc.sockets[s].closed
       /\ k.opened = rpc.sockets[s].opened /\ k.ended = rpc.sockets[s].ended
  BY <1>5, <1>8, SMT DEF SocketRec
<1>11. ReadFrom(rpc.sockets[s], k)
  <2>1. Answered(k) \subseteq Answered(rpc.sockets[s])
    BY <1>3, <1>7, <1>10, Zenon DEF Answered
  <2> QED
    BY <2>1, <1>10, Zenon DEF Live, ReadFrom
<1>12. PICK so : so = [rpc.sockets EXCEPT ![s] = k]
  BY ZenonT(60)
<1>13. so \in Seq(SocketRec)
  BY <1>1, <1>5, <1>9, <1>12, SMT
<1>14. PICK n : n = rpc.faults + 1
  OBVIOUS
<1>15. n \in Nat
  BY <1>1, <1>14, SMT
<1>16. rpc' = [rpc EXCEPT !.faults = n, !.sockets = so]
  BY <1>1, <1>4, <1>6, <1>8, <1>12, <1>14, Zenon DEF RpcRec
<1>17. /\ rpc' \in RpcRec /\ rpc'.sockets = so /\ rpc'.executed = rpc.executed /\ rpc'.network = rpc.network
       /\ rpc'.current = rpc.current /\ rpc'.opening = rpc.opening /\ rpc'.task = rpc.task
  BY <1>1, <1>13, <1>15, <1>16, Zenon DEF RpcRec
<1>18. rpc'.sockets = [rpc.sockets EXCEPT ![s] = k] /\ \A u \in Task : rpc'.task[u] = rpc.task[u]
  BY <1>12, <1>17, Zenon
<1> QED
  BY <1>5, <1>11, <1>17, <1>18, OneSocket, Zenon

\* A restart of the daemon keeps the invariant: every socket is closed, and
\* the requests on it are lost, not repeated.
LEMMA DaemonRestartsStep ==
  ASSUME RpcInv, DaemonRestarts
  PROVE  RpcInv'
<1>1. /\ rpc \in RpcRec /\ rpc.sockets \in Seq(SocketRec) /\ rpc.faults \in Nat
      /\ DOMAIN rpc.sockets = 1 .. Len(rpc.sockets) /\ \A s \in DOMAIN rpc.sockets : rpc.sockets[s] \in SocketRec
  BY RpcFields, Zenon DEF RpcInv
<1>2. PICK n : n = rpc.faults + 1
  OBVIOUS
<1>3. n \in Nat
  BY <1>1, <1>2, SMTT(60)
<1>4. PICK so : so = [s \in 1 .. Len(rpc.sockets) |-> [rpc.sockets[s] EXCEPT !.closed = TRUE, !.requests = <<>>]]
  BY Zenon
<1>5. rpc' = [rpc EXCEPT !.faults = n, !.sockets = so]
  BY <1>1, <1>2, <1>4, Zenon DEF DaemonRestarts, RpcRec
<1>6. ASSUME NEW s \in DOMAIN rpc.sockets
      PROVE  s \in DOMAIN so /\ so[s] \in SocketRec /\ Fewer(rpc.sockets[s], so[s]) /\ ~Live(so[s])
  <2>1. s \in DOMAIN so /\ so[s] = [rpc.sockets[s] EXCEPT !.closed = TRUE, !.requests = <<>>] /\ rpc.sockets[s] \in SocketRec
    BY <1>1, <1>4, Zenon
  <2>2. <<>> \in Seq(PacketRec)
    BY RpcEmpty, Zenon
  <2>3. so[s] \in SocketRec
    BY <2>1, <2>2, Zenon DEF SocketRec
  <2>4. /\ so[s].requests = <<>> /\ so[s].replies = rpc.sockets[s].replies
        /\ so[s].serial = rpc.sockets[s].serial /\ so[s].closed = TRUE
    BY <2>1, SMT DEF SocketRec
  <2>5. Fewer(rpc.sockets[s], so[s]) /\ ~Live(so[s])
    BY <2>4, RpcEmpty, Zenon DEF Fewer, Answered, Live
  <2> QED
    BY <2>1, <2>3, <2>5, Zenon
<1>7. so \in Seq(SocketRec) /\ DOMAIN so = DOMAIN rpc.sockets
  <2>1. DOMAIN so = 1 .. Len(rpc.sockets) /\ Len(rpc.sockets) \in Nat
    <3>1. DOMAIN so = 1 .. Len(rpc.sockets)
      BY <1>4, Zenon
    <3>2. Len(rpc.sockets) \in Nat
      BY <1>1, SMT
    <3> QED
      BY <3>1, <3>2, Zenon
  <2>2. so \in [1 .. Len(rpc.sockets) -> SocketRec]
    BY <1>1, <1>4, <1>6, Zenon
  <2> QED
    BY <2>1, <2>2, <1>1, SMT
<1>8. /\ rpc' \in RpcRec /\ rpc'.sockets = so /\ rpc'.executed = rpc.executed /\ rpc'.network = rpc.network
      /\ rpc'.current = rpc.current /\ rpc'.opening = rpc.opening /\ rpc'.task = rpc.task
  BY <1>1, <1>3, <1>5, <1>7, Zenon DEF RpcRec
<1>9. /\ \A s \in DOMAIN rpc.sockets :
           s \in DOMAIN rpc'.sockets /\ (rpc'.sockets[s] = rpc.sockets[s] \/ Fewer(rpc.sockets[s], rpc'.sockets[s]))
      /\ \A s \in DOMAIN rpc'.sockets :
           \/ /\ s \in DOMAIN rpc.sockets
              /\ Live(rpc'.sockets[s]) => Live(rpc.sockets[s]) /\ (s \in rpc.current => s \in rpc'.current)
           \/ rpc'.sockets[s] = FreshSocket
      /\ \A u \in Task : rpc'.task[u] = rpc.task[u] /\ (u \in rpc.opening => u \in rpc'.opening)
  BY <1>6, <1>7, <1>8, Zenon
<1> QED
  BY <1>8, <1>9, NothingSent, Zenon

-----------------------------------------------------------------------------

\* The invariant holds when RpcApi::connect has opened the first socket.
LEMMA RpcInitOK ==
  RpcInit => RpcInv
<1> SUFFICES ASSUME RpcInit PROVE RpcInv
  OBVIOUS
<1>1. PICK ad, ne, tk, so :
        /\ ad \in {<<>>, <<"none">>, <<"sasl">>, <<"sasl", "polkit">>} /\ ne \in {{}, {"defined", "autostart"}}
        /\ tk = [t \in Task |-> [op |-> "capabilities", stage |-> "idle", proc |-> "connect_get_capabilities",
                                 call |-> 0, socket |-> 0, serial |-> 0, outcome |-> "none", stray |-> 0]]
        /\ so = <<[FreshSocket EXCEPT !.opened = TRUE]>>
        /\ rpc = [task |-> tk, current |-> {1}, opening |-> {}, sockets |-> so,
                  network |-> ne, executed |-> <<>>, advertised |-> ad, faults |-> 0]
  BY Zenon DEF RpcInit
<1>2. PICK k : k = [FreshSocket EXCEPT !.opened = TRUE]
  BY Zenon
<1>3. k = [opened |-> TRUE, closed |-> FALSE, ended |-> FALSE, stream |-> {}, serial |-> 0, requests |-> <<>>, replies |-> <<>>]
  BY <1>2, Zenon DEF FreshSocket
<1>4. k \in SocketRec
  <2>1. <<>> \in Seq(PacketRec) /\ {} \in SUBSET Task /\ 0 \in Nat
    BY SMT
  <2> QED
    BY <2>1, <1>3, Zenon DEF SocketRec
<1>5. so \in Seq(SocketRec) /\ DOMAIN so = {1} /\ so[1] = k
  BY <1>1, <1>2, <1>4, SMT
<1>6. tk \in [Task -> TaskRec]
  <2>1. "capabilities" \in Operation /\ "idle" \in RpcStage /\ "connect_get_capabilities" \in Procedure
        /\ "none" \in Outcome /\ 0 \in Nat
    BY SMT DEF Operation, RpcStage, Procedure, Outcome
  <2> QED
    BY <2>1, <1>1, Zenon DEF TaskRec
<1>7. rpc \in RpcRec
  <2>1. ad \in Seq({"none", "sasl", "polkit"}) /\ <<>> \in Seq(Nat) /\ 0 \in Nat /\ {1} \in SUBSET Nat
    <3>1. /\ <<>> \in Seq({"none", "sasl", "polkit"}) /\ <<"none">> \in Seq({"none", "sasl", "polkit"})
          /\ <<"sasl">> \in Seq({"none", "sasl", "polkit"}) /\ <<"sasl", "polkit">> \in Seq({"none", "sasl", "polkit"})
      OBVIOUS
    <3>2. <<>> \in Seq(Nat) /\ 0 \in Nat /\ {1} \in SUBSET Nat
      BY SMT
    <3> QED
      BY <3>1, <3>2, <1>1, Zenon
  <2>2. ne \in SUBSET Ensured /\ {} \in SUBSET Task
    BY <1>1, Zenon DEF Ensured
  <2> QED
    BY <2>1, <2>2, <1>1, <1>5, <1>6, Zenon DEF RpcRec
<1>8. /\ rpc.task = tk /\ rpc.sockets = so /\ rpc.executed = <<>> /\ rpc.network = ne /\ rpc.current = {1} /\ rpc.opening = {}
  BY <1>1, Zenon
<1>9. ASSUME NEW t \in Task
      PROVE  tk[t].stage = "idle" /\ tk[t].stray = 0 /\ tk[t].outcome = "none"
  BY <1>1, SMT
<1>10. k.requests = <<>> /\ k.replies = <<>>
  BY <1>3, SMT
<1>11. Calls(tk, so, <<>>, ne)
  <2>1. ASSUME NEW t \in Task PROVE Reports(tk[t], ne) /\ Placed(tk[t], so, <<>>) /\ Answers(tk[t], so)
    BY <1>9, Zenon DEF Reports, Placed, Answers, Handshake, InFlight
  <2>2. Members(k.requests) = {} /\ Answered(k) = {} /\ Packets(k) = {} /\ Once(k.requests)
    BY <1>10, RpcEmpty, Zenon DEF Answered, Packets
  <2>3. SocketOK(k, <<>>, ne)
    BY <2>2, Zenon DEF SocketOK
  <2>4. ASSUME NEW t \in Task, NEW u \in Task PROVE TasksApart(tk[t], tk[u])
    BY <1>9, Zenon DEF TasksApart, InFlight
  <2>5. ASSUME NEW t \in Task, NEW s \in DOMAIN so PROVE Unsent(tk[t], so[s])
    BY <1>9, Zenon DEF Unsent
  <2>6. \A n \in DOMAIN <<>> : <<>>[n] <= 1
    BY SMT
  <2>7. \A s \in DOMAIN so : s = 1 /\ SocketOK(so[s], <<>>, ne)
    BY <2>3, <1>5, Zenon
  <2> QED
    BY <2>1, <2>4, <2>5, <2>6, <2>7, Zenon DEF Calls
<1>12. Opens(tk, {1}, {}, so)
  <2>1. \A t \in Task : tk[t].stage \notin Handshake
    BY <1>9, Zenon DEF Handshake
  <2> QED
    BY <2>1, <1>5, Zenon DEF Opens
<1> QED
  BY <1>7, <1>8, <1>11, <1>12, Zenon DEF RpcInv

\* Every step of the connection keeps the invariant.
LEMMA RpcNextOK ==
  RpcInv /\ [RpcNext]_rpc => RpcInv'
<1> SUFFICES ASSUME RpcInv, [RpcNext]_rpc PROVE RpcInv'
  OBVIOUS
<1>1. CASE UNCHANGED rpc
  BY <1>1, Zenon DEF RpcInv
<1>2. CASE DaemonExecutes
  BY <1>2, DaemonExecutesStep, Zenon
<1>3. CASE DaemonNotifies
  BY <1>3, DaemonNotifiesStep, Zenon
<1>4. CASE DaemonRestarts
  BY <1>4, DaemonRestartsStep, Zenon
<1>5. ASSUME NEW t \in Task, operation_begins(t) \/ request(t) \/ close(t) \/ connect(t) PROVE RpcInv'
  BY <1>5, BeginsStep, RequestStep, CloseStep, ConnectStep, Zenon
<1>6. ASSUME NEW t \in Task, authenticate(t) \/ auth_polkit(t) \/ open(t) \/ write(t) PROVE RpcInv'
  BY <1>6, AuthenticateStep, PolkitStep, OpenStep, WritesStep, Zenon
<1>7. ASSUME NEW t \in Task, read_ends(t) \/ skip_message(t) \/ process_reply(t) \/ io_error(t) \/ dropped(t) PROVE RpcInv'
  BY <1>7, ReadEndsStep, SkipStep, ProcessStep, IoErrorStep, DroppedStep, Zenon
<1> QED
  BY <1>1, <1>2, <1>3, <1>4, <1>5, <1>6, <1>7, Zenon DEF RpcNext

\* The invariant gives what the connection promises.
LEMMA RpcInvSound ==
  RpcInv => CallsAnsweredOnce
<1> SUFFICES ASSUME RpcInv PROVE CallsAnsweredOnce
  OBVIOUS
<1>1. DOMAIN rpc.sockets = 1 .. Len(rpc.sockets) /\ DOMAIN rpc.executed = 1 .. Len(rpc.executed)
  BY RpcFields, Zenon DEF RpcInv
<1>2. ASSUME NEW t \in Task
      PROVE  /\ rpc.task[t].stray # 0 => rpc.task[t].outcome = "protocol"
             /\ rpc.task[t].op = "ensure_network" /\ rpc.task[t].outcome = "ok" => rpc.network = Ensured
  BY Zenon DEF RpcInv, Calls, Reports
<1>3. \A n \in DOMAIN rpc.executed : rpc.executed[n] <= 1
  BY Zenon DEF RpcInv, Calls
<1>4. \A s \in DOMAIN rpc.sockets : Live(rpc.sockets[s]) => s \in rpc.current
  BY Zenon DEF RpcInv, Opens
<1> QED
  BY <1>1, <1>2, <1>3, <1>4, Zenon DEF CallsAnsweredOnce, Ensured, Live

\* For any number of tasks, calls, sockets, restarts, notifications and
\* dropped tasks: an operation of RpcApi::request that succeeds was told so
\* by the reply to its own call, a network ensured is defined, autostarted
\* and active, no request is carried out twice, and a failure never costs the
\* process a socket that another call has opened.
THEOREM AnsweredOnce ==
  RpcSpec => []CallsAnsweredOnce
<1>1. RpcInit => RpcInv
  BY RpcInitOK
<1>2. RpcInv /\ [RpcNext]_rpc => RpcInv'
  BY RpcNextOK
<1>3. RpcInv => CallsAnsweredOnce
  BY RpcInvSound
<1> QED
  BY <1>1, <1>2, <1>3, PTL DEF RpcSpec

-----------------------------------------------------------------------------
(* NetworkSync.                                                            *)

(* What the two maps of the controller know about the machine. *)
KnownFacts ==
  /\ boots # Nothing => boots <= boot
  /\ sweep.boot <= boot
  /\ boots = Nothing => applied = Nothing /\ sweep.pc \in {"idle", "polled"}

(* An order in progress: its steps so far are in place, unless a reboot undid them. *)
OrderFacts ==
  order # Nothing =>
    /\ unsure
    /\ sweep.pc \in {"idle", "waiting"}
    /\ order.state = "sent" => order.done = 0
    /\ boots = boot => \A j \in 1..order.done : machine[Steps[j]] = order.description

(* No later in either part of a description. *)
Below(d, e) == d.slots <= e.slots /\ d.users <= e.users

(* While the database does not go back, what is installed is no later than what is sent. *)
GrowthFacts ==
  /\ \A p \in Parts : machine[p] # Nothing => Below(machine[p], db)
  /\ sweep.pc = "users" =>
       /\ sweep.slots <= db.slots
       /\ \A p \in Parts : machine[p] # Nothing => machine[p].slots <= sweep.slots
  /\ order # Nothing =>
       /\ Below(order.description, db)
       /\ \A p \in Parts : machine[p] # Nothing => Below(machine[p], order.description)
       /\ order.done \in {2, 3} => machine["routes"] = order.description
  /\ ArpFollowsRoutes

(* The inductive invariant of NetworkSync. *)
IInv == TypeOK /\ KnownFacts /\ OrderFacts /\ CacheIsTrue /\ (~Reverts => GrowthFacts)
------------------------------------------------------------------------------
(* A description and an order are not Nothing. *)
LEMMA NotNothing ==
  /\ Nothing \notin Nat /\ Nothing \notin Description /\ Nothing \notin OrderRecord
  BY NetworkAssumption, Zenon DEF Description, OrderRecord

(* The initial state satisfies the inductive invariant. *)
LEMMA InitOK == Init => IInv
<1> SUFFICES ASSUME Init PROVE IInv
  OBVIOUS
<1>1. TypeOK
  BY NetworkAssumption, Zenon DEF Init, TypeOK, Description, SweepRecord, AtRest, Parts
<1> QED
  BY <1>1, NotNothing
     DEF Init, IInv, KnownFacts, OrderFacts, CacheIsTrue, GrowthFacts, ArpFollowsRoutes,
         AtRest, Parts

(* Every step keeps the types. *)
LEMMA TypeStep == TypeOK /\ [Next]_vars => TypeOK'
<1> SUFFICES ASSUME TypeOK, [Next]_vars PROVE TypeOK'
  OBVIOUS
<1> USE NetworkAssumption
<1>1. AtRest \in SweepRecord
  BY DEF AtRest, SweepRecord
<1>2. ASSUME NEW half \in {"slots", "users"}, NEW v \in Versions, Edit(half, v) PROVE TypeOK'
  <2>1. db' \in Description
    BY <1>2 DEF Edit, TypeOK, Description
  <2> QED
    BY <1>2, <2>1 DEF Edit, TypeOK
<1>3. CASE Poll
  <2>1. sweep' \in SweepRecord
    BY <1>3, Zenon DEF Poll, TypeOK, AtRest, SweepRecord
  <2> QED
    BY <1>3, <2>1 DEF Poll, TypeOK
<1>4. CASE NoteBoot
  <2>1. sweep' \in SweepRecord
    BY <1>4 DEF NoteBoot, TypeOK, SweepRecord
  <2>2. boots' \in Nat
    BY <1>4 DEF NoteBoot, TypeOK, SweepRecord
  <2> QED
    BY <1>4, <2>1, <2>2 DEF NoteBoot, TypeOK
<1>5. CASE ReadSlots
  <2>1. sweep' \in SweepRecord
    BY <1>5, Zenon DEF ReadSlots, TypeOK, SweepRecord, Description
  <2> QED
    BY <1>5, <2>1 DEF ReadSlots, TypeOK
<1>6. CASE ReadUsersAndSend
  <2> DEFINE d == [slots |-> sweep.slots, users |-> db.users]
  <2>1. d \in Description
    BY DEF TypeOK, SweepRecord, Description
  <2>2. [state |-> "sent", description |-> d, done |-> 0] \in OrderRecord
    BY <2>1 DEF OrderRecord
  <2>3. [sweep EXCEPT !.pc = "waiting"] \in SweepRecord
    BY DEF TypeOK, SweepRecord
  <2> QED
    BY <1>1, <1>6, <2>2, <2>3, Zenon DEF ReadUsersAndSend, Dispatch, TypeOK
<1>7. CASE Apply
  <2>1. order \in OrderRecord
    BY <1>7 DEF Apply, TypeOK
  <2>2. CASE /\ order.state = "sent" /\ order' = [order EXCEPT !.state = "applying"]
             /\ UNCHANGED machine
    <3>1. order' \in OrderRecord
      BY <2>1, <2>2 DEF OrderRecord
    <3> QED
      BY <1>7, <2>2, <3>1 DEF Apply, TypeOK
  <2>3. CASE /\ order.state = "applying" /\ order.done < 4
             /\ machine' = [machine EXCEPT ![Steps[order.done + 1]] = order.description]
             /\ order' = [order EXCEPT !.done = @ + 1]
    <3>1. order' \in OrderRecord
      BY <2>1, <2>3, SMTT(60) DEF OrderRecord
    <3>2. machine' \in [Parts -> Description \cup {Nothing}]
      BY <2>1, <2>3, Zenon DEF OrderRecord, TypeOK
    <3> QED
      BY <1>7, <3>1, <3>2 DEF Apply, TypeOK
  <2> QED
    BY <1>7, <2>2, <2>3 DEF Apply
<1>8. CASE Acknowledge
  <2>1. order.description \in Description
    BY <1>8 DEF Acknowledge, TypeOK, OrderRecord
  <2> QED
    BY <1>1, <1>8, <2>1, ZenonT(60) DEF Acknowledge, TypeOK
<1>9. CASE Fail
  BY <1>1, <1>9 DEF Fail, TypeOK
<1>10. CASE GiveUp
  BY <1>1, <1>10 DEF GiveUp, TypeOK
<1>11. CASE Abandoned
  BY <1>11 DEF Abandoned, TypeOK
<1>12. CASE Reboot
  <2>1. machine' \in [Parts -> Description \cup {Nothing}]
    BY <1>12 DEF Reboot, TypeOK
  <2> QED
    BY <1>1, <1>12, <2>1 DEF Reboot, TypeOK
<1>13. CASE RestartController
  BY <1>1, <1>13 DEF RestartController, TypeOK
<1>14. CASE UNCHANGED vars
  BY <1>14 DEF vars, TypeOK
<1> QED
  BY <1>2, <1>3, <1>4, <1>5, <1>6, <1>7, <1>8, <1>9, <1>10, <1>11, <1>12, <1>13, <1>14 DEF Next

(* The maps of boot ids and digests stay in step with the machine. *)
LEMMA KnownStep == IInv /\ [Next]_vars => KnownFacts'
<1> SUFFICES ASSUME IInv, [Next]_vars PROVE KnownFacts'
  OBVIOUS
<1> USE NotNothing DEF IInv, KnownFacts
<1>1. boot \in Nat /\ boots \in Nat \cup {Nothing} /\ sweep \in SweepRecord
  BY DEF TypeOK
<1>2. CASE NoteBoot
  <2>1. boots' = sweep.boot /\ sweep'.boot = sweep.boot /\ boot' = boot /\ sweep.boot \in Nat
    BY <1>1, <1>2 DEF NoteBoot, SweepRecord
  <2> QED
    BY <2>1
<1>3. CASE Reboot
  <2>1. sweep' \in {sweep, AtRest} /\ UNCHANGED <<applied, boots>> /\ boot' = boot + 1
    BY <1>3 DEF Reboot
  <2> QED
    BY <1>1, <2>1, SMTT(60) DEF SweepRecord, AtRest
<1>4. CASE Poll
  <2>1. sweep'.boot = boot /\ sweep'.pc = "polled" /\ UNCHANGED <<applied, boots, boot>>
    BY <1>4 DEF Poll, AtRest
  <2> QED
    BY <1>1, <2>1
<1>5. CASE ReadSlots
  <2>1. /\ sweep'.boot = sweep.boot /\ sweep.pc = "slots"
        /\ UNCHANGED <<applied, boots, boot>>
    BY <1>1, <1>5 DEF ReadSlots, SweepRecord
  <2> QED
    BY <1>1, <2>1
<1>6. CASE ReadUsersAndSend
  BY <1>1, <1>6, SMTT(60) DEF ReadUsersAndSend, Dispatch, SweepRecord, AtRest
<1>7. CASE Acknowledge \/ Fail \/ GiveUp \/ RestartController
  BY <1>1, <1>7 DEF Acknowledge, Fail, GiveUp, RestartController, SweepRecord, AtRest
<1>8. CASE \/ Apply \/ Abandoned \/ UNCHANGED vars
           \/ \E half \in {"slots", "users"}, v \in Versions : Edit(half, v)
  <2>1. UNCHANGED <<applied, boots, sweep, boot>>
    BY <1>8, ZenonT(60) DEF Apply, Abandoned, Edit, vars
  <2> QED
    BY <2>1
<1> QED
  BY <1>2, <1>3, <1>4, <1>5, <1>6, <1>7, <1>8 DEF Next

(* An order's finished steps stay in place while it goes on. *)
LEMMA OrderStep == IInv /\ [Next]_vars => OrderFacts'
<1> SUFFICES ASSUME IInv, [Next]_vars, order' # Nothing PROVE OrderFacts'
  BY SMTT(60) DEF OrderFacts
<1> USE NotNothing DEF IInv, OrderFacts
<1>1. /\ boot \in Nat /\ boots \in Nat \cup {Nothing} /\ sweep \in SweepRecord
      /\ order \in OrderRecord \cup {Nothing}
      /\ machine \in [Parts -> Description \cup {Nothing}]
  BY SMTT(60) DEF TypeOK
<1>2. CASE ReadUsersAndSend
  <2>1. CASE sweep' = AtRest /\ UNCHANGED <<order, applied, unsure>>
    BY <1>1, <1>2, <2>1 DEF ReadUsersAndSend
  <2>2. CASE Dispatch([slots |-> sweep.slots, users |-> db.users])
    <3>1. /\ order'.done = 0 /\ unsure' = TRUE /\ sweep' = [sweep EXCEPT !.pc = "waiting"]
      BY <2>2 DEF Dispatch
    <3>2. sweep'.pc = "waiting"
      BY <1>1, <3>1 DEF SweepRecord
    <3> QED
      BY <3>1, <3>2
  <2> QED
    BY <1>2, <2>1, <2>2, SMTT(60) DEF ReadUsersAndSend
<1>3. CASE Apply
  <2>1. UNCHANGED <<boots, sweep, boot, unsure>> /\ order # Nothing /\ order \in OrderRecord
    BY <1>1, <1>3 DEF Apply
  <2>2. CASE order.state = "sent" /\ order' = [order EXCEPT !.state = "applying"] /\ UNCHANGED machine
    <3>1. order'.done = order.done /\ order'.description = order.description
          /\ order'.state = "applying"
      BY <2>1, <2>2 DEF OrderRecord
    <3> QED
      BY <2>1, <2>2, <3>1, SMTT(60)
  <2>3. CASE /\ order.state = "applying" /\ order.done < 4
             /\ machine' = [machine EXCEPT ![Steps[order.done + 1]] = order.description]
             /\ order' = [order EXCEPT !.done = @ + 1]
    <3>1. /\ order'.done = order.done + 1 /\ order'.description = order.description
          /\ order'.state = "applying" /\ order.done \in 0..3
      BY <2>1, <2>3, SMTT(60) DEF OrderRecord
    <3>2. ASSUME boots = boot, NEW j \in 1..order'.done
          PROVE  machine'[Steps[j]] = order.description
      <4>1. j \in 1..4 /\ j <= order.done + 1
        BY <3>1
      <4>2. Steps[j] \in Parts
        BY <4>1 DEF Steps, Parts
      <4>3. CASE j = order.done + 1
        BY <1>1, <2>3, <4>2, <4>3
      <4>4. CASE j # order.done + 1
        <5>1. j \in 1..order.done
          BY <3>1, <4>1, <4>4
        <5>2. machine[Steps[j]] = order.description
          BY <2>1, <3>2, <5>1
        <5>3. Steps[j] # Steps[order.done + 1]
          BY <3>1, <4>1, <4>4, SMTT(60) DEF Steps
        <5> QED
          BY <1>1, <2>3, <4>2, <5>2, <5>3, SMTT(60)
      <4> QED
        BY <4>3, <4>4
    <3> QED
      BY <2>1, <3>1, <3>2
  <2> QED
    BY <1>3, <2>2, <2>3 DEF Apply
<1>4. CASE Reboot
  <2>1. UNCHANGED <<order, sweep, boots, unsure>> /\ boot' = boot + 1
    BY <1>4 DEF Reboot, OnTheWire
  <2>2. boots' # boot'
    BY <1>1, <2>1, SMTT(60) DEF KnownFacts
  <2> QED
    BY <2>1, <2>2
<1>5. CASE RestartController
  BY <1>1, <1>5, SMTT(60) DEF RestartController, AtRest
<1>6. CASE GiveUp
  BY <1>6, SMTT(60) DEF GiveUp, AtRest
<1>7. CASE Poll \/ NoteBoot \/ ReadSlots
  <2>1. order = Nothing /\ UNCHANGED order
    BY <1>7 DEF Poll, NoteBoot, ReadSlots
  <2> QED
    BY <2>1, SMTT(60)
<1>8. CASE Acknowledge \/ Fail \/ Abandoned
  BY <1>8 DEF Acknowledge, Fail, Abandoned
<1>9. CASE UNCHANGED vars \/ \E half \in {"slots", "users"}, v \in Versions : Edit(half, v)
  <2>1. UNCHANGED <<order, boots, sweep, boot, machine, unsure>>
    BY <1>9, Zenon DEF Edit, vars
  <2> QED
    BY <2>1
<1> QED
  BY <1>2, <1>3, <1>4, <1>5, <1>6, <1>7, <1>8, <1>9 DEF Next

(* The cache stays true. *)
LEMMA CacheStep == IInv /\ [Next]_vars => CacheIsTrue'
<1> SUFFICES ASSUME IInv, [Next]_vars PROVE CacheIsTrue'
  OBVIOUS
<1> USE NotNothing DEF IInv, CacheIsTrue
<1>1. /\ boot \in Nat /\ boots \in Nat \cup {Nothing} /\ sweep \in SweepRecord
      /\ order \in OrderRecord \cup {Nothing}
  BY DEF TypeOK
<1>2. CASE NoteBoot
  BY <1>1, <1>2 DEF NoteBoot, KnownFacts
<1>3. CASE Acknowledge
  <2>1. order # Nothing /\ order.done = 4 /\ applied' = order.description
        /\ UNCHANGED <<boots, boot, machine>>
    BY <1>3 DEF Acknowledge
  <2>2. ASSUME boots = boot, NEW p \in Parts PROVE machine[p] = order.description
    <3>1. PICK j \in 1..4 : Steps[j] = p
      BY DEF Parts, Steps
    <3> QED
      BY <2>1, <2>2, <3>1 DEF OrderFacts
  <2> QED
    BY <2>1, <2>2
<1>4. CASE Reboot
  <2>1. UNCHANGED boots /\ boot' = boot + 1
    BY <1>4 DEF Reboot
  <2> QED
    BY <1>1, <2>1 DEF KnownFacts
<1>5. CASE Apply
  BY <1>5 DEF Apply, OrderFacts
<1>6. CASE ReadUsersAndSend
  BY <1>6 DEF ReadUsersAndSend, Dispatch
<1>7. CASE RestartController
  BY <1>7 DEF RestartController
<1>8. CASE \/ Poll \/ ReadSlots \/ Fail \/ GiveUp \/ Abandoned \/ UNCHANGED vars
           \/ \E half \in {"slots", "users"}, v \in Versions : Edit(half, v)
  <2>1. UNCHANGED <<applied, boots, boot, machine, unsure>>
    BY <1>8, Zenon DEF Poll, ReadSlots, Fail, GiveUp, Abandoned, Edit, vars
  <2> QED
    BY <2>1
<1> QED
  BY <1>2, <1>3, <1>4, <1>5, <1>6, <1>7, <1>8, SMTT(60) DEF Next

(* Both halves of a description are numbers. *)
LEMMA Halves ==
  ASSUME NEW d \in Description
  PROVE  d.slots \in Nat /\ d.users \in Nat
<1>1. Versions \subseteq Nat
  BY NetworkAssumption
<1> QED
  BY <1>1, Zenon DEF Description

(* What is below something is below what it grows to. *)
LEMMA BelowGrows ==
  ASSUME NEW d \in Description, NEW e \in Description, NEW f \in Description,
         Below(d, e), Below(e, f)
  PROVE  Below(d, f)
<1>1. \A x \in {d, e, f} : x.slots \in Nat /\ x.users \in Nat
  BY Halves
<1> QED
  BY <1>1 DEF Below

(* A database that does not go back keeps what is installed behind what is sent. *)
LEMMA GrowthStep == IInv /\ ~Reverts /\ [Next]_vars => GrowthFacts'
<1> SUFFICES ASSUME IInv, ~Reverts, [Next]_vars PROVE GrowthFacts'
  OBVIOUS
<1> USE NotNothing
<1>1. /\ db \in Description /\ sweep \in SweepRecord
      /\ order \in OrderRecord \cup {Nothing}
      /\ machine \in [Parts -> Description \cup {Nothing}]
      /\ GrowthFacts
  BY DEF IInv, TypeOK
<1>2. ASSUME NEW half \in {"slots", "users"}, NEW v \in Versions, Edit(half, v)
      PROVE  GrowthFacts'
  <2>1. db' \in Description /\ Below(db, db')
    <3>1. v > db[half] /\ db' = [db EXCEPT ![half] = v]
      BY <1>2 DEF Edit
    <3>2. db' \in Description
      BY <1>1, <3>1 DEF Description
    <3>3. \A x \in {db, db'} : x.slots \in Nat /\ x.users \in Nat
      BY <1>1, <3>2, Halves, SMTT(60)
    <3>5. CASE half = "slots"
      <4>1. db'.slots = v /\ db'.users = db.users /\ v > db.slots
        BY <1>1, <3>1, <3>5 DEF Description
      <4> QED
        BY <3>2, <3>3, <4>1 DEF Below
    <3>6. CASE half = "users"
      <4>1. db'.users = v /\ db'.slots = db.slots /\ v > db.users
        BY <1>1, <3>1, <3>6, SMTT(60) DEF Description
      <4> QED
        BY <3>2, <3>3, <4>1, SMTT(60) DEF Below
    <3> QED
      BY <3>5, <3>6
  <2>2. UNCHANGED <<sweep, order, machine>>
    BY <1>2 DEF Edit
  <2>3. \A p \in Parts : machine[p] # Nothing => Below(machine[p], db')
    BY <1>1, <2>1, BelowGrows, SMTT(60) DEF GrowthFacts
  <2>4. sweep.pc = "users" => sweep.slots <= db'.slots
    <3>1. db.slots \in Nat /\ db'.slots \in Nat
      BY <1>1, <2>1, Halves
    <3>2. sweep.slots \in Nat
      BY <1>1, NetworkAssumption, Zenon DEF SweepRecord
    <3> QED
      BY <1>1, <2>1, <3>1, <3>2 DEF GrowthFacts, Below
  <2>5. order # Nothing => Below(order.description, db')
    BY <1>1, <2>1, BelowGrows DEF GrowthFacts, OrderRecord
  <2> QED
    BY <1>1, <2>2, <2>3, <2>4, <2>5 DEF GrowthFacts, ArpFollowsRoutes
<1>3. CASE ReadSlots
  <2>1. /\ sweep'.slots = db.slots /\ UNCHANGED <<db, order, machine>>
    BY <1>1, <1>3, SMTT(60) DEF ReadSlots, SweepRecord
  <2>2. db.slots \in Nat
    BY <1>1, Halves, SMTT(60)
  <2> QED
    BY <1>1, <2>1, <2>2 DEF GrowthFacts, Below, ArpFollowsRoutes
<1>4. CASE ReadUsersAndSend
  <2> DEFINE d == [slots |-> sweep.slots, users |-> db.users]
  <2>1. CASE sweep' = AtRest /\ UNCHANGED <<order, applied, unsure>>
    BY <1>1, <1>4, <2>1 DEF ReadUsersAndSend, GrowthFacts, ArpFollowsRoutes, AtRest
  <2>2. CASE Dispatch(d)
    <3>1. /\ order'.done = 0 /\ order'.description = d /\ UNCHANGED <<db, machine>>
          /\ sweep' = [sweep EXCEPT !.pc = "waiting"] /\ sweep.pc = "users"
      BY <1>4, <2>2 DEF Dispatch, ReadUsersAndSend
    <3>2. sweep'.pc = "waiting"
      BY <1>1, <3>1 DEF SweepRecord
    <3>3. Below(d, db)
      BY <1>1, <3>1, Halves DEF GrowthFacts, Below
    <3>4. \A p \in Parts : machine[p] # Nothing => Below(machine[p], d)
      BY <1>1, <3>1 DEF GrowthFacts, Below
    <3> HIDE DEF d
    <3> QED
      BY <1>1, <3>1, <3>2, <3>3, <3>4 DEF GrowthFacts, ArpFollowsRoutes
  <2> QED
    BY <1>4, <2>1, <2>2, SMTT(60) DEF ReadUsersAndSend
<1>5. CASE Apply
  <2>1. UNCHANGED <<db, sweep>> /\ order # Nothing /\ order \in OrderRecord
    BY <1>1, <1>5 DEF Apply
  <2>2. sweep.pc # "users"
    BY <2>1 DEF IInv, OrderFacts
  <2>3. CASE /\ order.state = "sent" /\ order' = [order EXCEPT !.state = "applying"]
             /\ UNCHANGED machine
    <3>1. order'.done = order.done /\ order'.description = order.description
      BY <2>1, <2>3, SMTT(60) DEF OrderRecord
    <3> QED
      BY <1>1, <2>1, <2>3, <3>1 DEF GrowthFacts, ArpFollowsRoutes
  <2>4. CASE /\ order.state = "applying" /\ order.done < 4
             /\ machine' = [machine EXCEPT ![Steps[order.done + 1]] = order.description]
             /\ order' = [order EXCEPT !.done = @ + 1]
    <3> DEFINE d == order.description
               q == Steps[order.done + 1]
    <3>1. /\ order'.done = order.done + 1 /\ order'.description = d
          /\ order.done \in 0..3 /\ d \in Description
      BY <2>1, <2>4 DEF OrderRecord
    <3>2. q \in Parts /\ machine' = [machine EXCEPT ![q] = d]
      BY <2>4, <3>1 DEF Steps, Parts
    <3>3. Below(d, d) /\ Below(d, db)
      <4>1. d.slots \in Nat /\ d.users \in Nat
        BY <3>1, Halves, SMTT(60)
      <4> HIDE DEF d
      <4>2. Below(d, d)
        BY <4>1 DEF Below
      <4> QED
        BY <1>1, <2>1, <4>2 DEF GrowthFacts, d
    <3>4. (order.done = 1 => q = "routes") /\ (q = "routes" => order.done = 1)
          /\ (q = "arp" => order.done = 2)
      BY <3>1 DEF Steps
    <3> HIDE DEF d, q
    <3>5. \A p \in Parts : machine'[p] # Nothing => Below(machine'[p], db) /\ Below(machine'[p], d)
      BY <1>1, <2>1, <3>2, <3>3, SMTT(60) DEF GrowthFacts, d
    <3>6. order'.done \in {2, 3} => machine'["routes"] = d
      BY <1>1, <2>1, <3>1, <3>2, <3>4 DEF GrowthFacts, d, Parts
    <3>7. ArpFollowsRoutes'
      <4>1. CASE q = "arp"
        <5>1. machine["routes"] = d
          BY <1>1, <2>1, <3>4, <4>1 DEF GrowthFacts, d
        <5>2. machine'["routes"] = d /\ machine'["arp"] = d
          BY <1>1, <3>2, <4>1, <5>1 DEF Parts
        <5> QED
          BY <3>1, <3>3, <5>2, SMTT(60) DEF ArpFollowsRoutes, Below
      <4>2. CASE q = "routes"
        <5>1. machine'["routes"] = d /\ machine'["arp"] = machine["arp"]
          BY <1>1, <3>2, <4>2, SMTT(60) DEF Parts
        <5>2. machine["arp"] # Nothing => Below(machine["arp"], d)
          BY <1>1, <2>1 DEF GrowthFacts, d, Parts
        <5> QED
          BY <3>1, <5>1, <5>2, SMTT(60) DEF ArpFollowsRoutes, Below
      <4>3. CASE q \notin {"arp", "routes"}
        <5>1. machine'["routes"] = machine["routes"] /\ machine'["arp"] = machine["arp"]
          BY <1>1, <3>2, <4>3 DEF Parts
        <5> QED
          BY <1>1, <5>1, SMTT(60) DEF GrowthFacts, ArpFollowsRoutes
      <4> QED
        BY <4>1, <4>2, <4>3
    <3> QED
      BY <2>1, <2>2, <3>1, <3>3, <3>5, <3>6, <3>7 DEF GrowthFacts
  <2> QED
    BY <1>5, <2>3, <2>4 DEF Apply
<1>6. CASE Reboot
  <2>1. /\ UNCHANGED db
        /\ machine' = [p \in Parts |-> IF p = "bridges" THEN machine[p] ELSE Nothing]
        /\ \/ order' = order /\ sweep' = sweep /\ OnTheWire
           \/ order' = Nothing /\ sweep' \in {sweep, AtRest}
    BY <1>6 DEF Reboot
  <2>2. \A p \in Parts : machine'[p] # Nothing => machine'[p] = machine[p]
    BY <2>1
  <2>3. ArpFollowsRoutes'
    BY <2>1, SMTT(60) DEF ArpFollowsRoutes, Parts
  <2>4. OnTheWire => order.done \notin {2, 3}
    BY <1>1 DEF OnTheWire, IInv, OrderFacts
  <2> QED
    BY <1>1, <2>1, <2>2, <2>3, <2>4, SMTT(60) DEF GrowthFacts, AtRest
<1>7. CASE Poll \/ NoteBoot \/ RestartController \/ GiveUp \/ Fail \/ Acknowledge
  <2>1. UNCHANGED <<db, machine>> /\ order' \in {order, Nothing} /\ sweep'.pc # "users"
    <3>1. CASE Poll
      BY <3>1 DEF Poll, AtRest
    <3>2. CASE NoteBoot
      BY <1>1, <3>2 DEF NoteBoot, SweepRecord
    <3>3. CASE RestartController \/ GiveUp \/ Fail \/ Acknowledge
      BY <3>3, SMTT(60) DEF RestartController, GiveUp, Fail, Acknowledge, AtRest
    <3> QED
      BY <1>7, <3>1, <3>2, <3>3
  <2> QED
    BY <1>1, <2>1 DEF GrowthFacts, ArpFollowsRoutes
<1>8. CASE Abandoned \/ UNCHANGED vars
  <2>1. UNCHANGED <<db, machine, sweep>> /\ order' \in {order, Nothing}
    BY <1>8 DEF Abandoned, vars
  <2> QED
    BY <1>1, <2>1 DEF GrowthFacts, ArpFollowsRoutes
<1> QED
  BY <1>2, <1>3, <1>4, <1>5, <1>6, <1>7, <1>8 DEF Next

(* The inductive invariant holds always. *)
THEOREM Invariance == Spec => []IInv
<1>1. IInv /\ [Next]_vars => IInv'
  <2> SUFFICES ASSUME IInv, [Next]_vars PROVE IInv'
    OBVIOUS
  <2>1. TypeOK' /\ KnownFacts' /\ OrderFacts' /\ CacheIsTrue'
    BY TypeStep, KnownStep, OrderStep, CacheStep DEF IInv
  <2>2. ~Reverts => GrowthFacts'
    BY GrowthStep
  <2> QED
    BY <2>1, <2>2 DEF IInv
<1> QED
  BY InitOK, <1>1, PTL DEF Spec

(* The controller's maps, the order and the machine keep their types. *)
THEOREM TypesHold == Spec => []TypeOK
<1>1. IInv => TypeOK
  BY DEF IInv
<1> QED
  BY Invariance, <1>1, PTL

(***************************************************************************)
(* A digest that note_boot leaves in the cache of sync_host, with every    *)
(* order since answered, is installed on the machine in full.              *)
(***************************************************************************)
THEOREM CacheTellsTheTruth == Spec => []CacheIsTrue
<1>1. IInv => CacheIsTrue
  BY DEF IInv
<1> QED
  BY Invariance, <1>1, PTL

(***************************************************************************)
(* apply_network never leaves a machine that answers ARP for users whose   *)
(* routes it lacks, as long as the database does not go back.              *)
(***************************************************************************)
THEOREM ArpStaysBehind ==
  ASSUME ~Reverts
  PROVE  Spec => []ArpFollowsRoutes
<1>1. IInv => ArpFollowsRoutes
  BY DEF IInv, GrowthFacts
<1> QED
  BY Invariance, <1>1, PTL
==============================================================================
