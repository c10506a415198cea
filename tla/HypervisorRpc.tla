--------------------------- MODULE HypervisorRpc ---------------------------
(***************************************************************************)
(* The libvirt connection of one process: crates/hypervisor/src/rpc.rs,    *)
(* and the operations of client.rs that take several calls.  Tasks share   *)
(* one RpcApi.  The first call after an I/O error opens a socket with the  *)
(* whole handshake; a call takes a serial, waits for the socket, writes,   *)
(* and reads until its reply comes.  The daemon executes the requests of a *)
(* socket in order, and may restart at any moment, which closes them all.  *)
(* A task may be dropped at any await: the HTTP server of a runner drops   *)
(* the handler of a request whose client has gone.                         *)
(*                                                                         *)
(* A packet is its serial, its procedure, the call it answers and what the *)
(* answer says; lengths and encoding are in module Wire.                   *)
(***************************************************************************)
EXTENDS Naturals, Sequences

CONSTANTS Task,          \* callers of the one connection
          MaxCalls,      \* bound: calls made
          MaxSockets,    \* bound: sockets opened
          MaxRpcFaults   \* bound: restarts, refusals, notifications and dropped tasks

VARIABLE rpc

Operation == {"ensure_network", "capabilities", "close"}
RpcStage == {"idle", "current", "connect", "auth_list", "auth_polkit", "connect_open", "lock", "read", "io_error"}
Procedure == {"network_lookup_by_name", "network_define_xml", "network_set_autostart", "network_is_active",
              "network_create", "connect_get_capabilities", "connect_close"}
Says == {"ok", "no_network", "active", "inactive", "error"}
Outcome == {"none", "ok", "error", "io", "protocol", "dropped"}

\* One task: its call (a number, 0 for none), the socket and serial of the
\* call, and how its last operation ended.  stray is kept for the properties:
\* the socket on which the task last read the reply to another call.
Caller == [op : Operation, stage : RpcStage, proc : Procedure, call : 0..MaxCalls, socket : 0..MaxSockets,
           serial : 0..MaxCalls, outcome : Outcome, stray : 0..MaxSockets]

Packet == [kind : {"reply", "message"}, serial : 0..MaxCalls, proc : Procedure, call : 0..MaxCalls, says : Says]

\* One socket (Transport).  opened: the handshake is done; closed: the
\* daemon's end is closed; ended: the client asked for the close.
Socket == [opened : BOOLEAN, closed : BOOLEAN, ended : BOOLEAN, stream : SUBSET Task,
           serial : 0..MaxCalls, requests : Seq(Packet), replies : Seq(Packet)]

FreshSocket == [opened |-> FALSE, closed |-> FALSE, ended |-> FALSE, stream |-> {}, serial |-> 0,
                requests |-> <<>>, replies |-> <<>>]

\* RpcApi::connect has opened the first socket.
RpcInit ==
  \E advertised \in {<<>>, <<"none">>, <<"sasl">>, <<"sasl", "polkit">>},
     network \in {{}, {"defined", "autostart"}} :
    /\ network = {} <=> advertised = <<"sasl">>
    /\ rpc = [task |-> [t \in Task |-> [op |-> "capabilities", stage |-> "idle", proc |-> "connect_get_capabilities",
                                        call |-> 0, socket |-> 0, serial |-> 0,
                                        outcome |-> "none", stray |-> 0]],
              current |-> {1}, opening |-> {}, sockets |-> <<[FreshSocket EXCEPT !.opened = TRUE]>>,
              network |-> network, executed |-> <<>>, advertised |-> advertised, faults |-> 0]

On(t, stage) == rpc.task[t].stage = stage
SocketOf(t) == rpc.sockets[rpc.task[t].socket]
MayFault == rpc.faults < MaxRpcFaults

Ended(r, t, outcome) ==
  [r EXCEPT !.task[t] = [@ EXCEPT !.stage = "idle", !.outcome = outcome, !.call = 0, !.socket = 0,
                                  !.serial = 0, !.proc = "connect_get_capabilities",
                                  !.op = IF outcome = "ok" THEN r.task[t].op ELSE "capabilities"]]

-----------------------------------------------------------------------------
(* RpcApi::request and close: the current socket, or a new one.            *)

\* A call takes its serial before it waits for the socket.
Sends(r, t, s) ==
  [r EXCEPT !.task[t] = [@ EXCEPT !.socket = s, !.stage = "lock", !.serial = r.sockets[s].serial + 1,
                                  !.call = Len(r.executed) + 1],
            !.sockets[s].serial = @ + 1, !.executed = Append(@, 0)]

FirstProcedure(op) ==
  CASE op = "ensure_network" -> "network_lookup_by_name"
    [] op = "capabilities" -> "connect_get_capabilities"
    [] op = "close" -> "connect_close"

operation_begins(t) ==
  /\ On(t, "idle") /\ Len(rpc.executed) < MaxCalls
  /\ \E op \in Operation :
       rpc' = [rpc EXCEPT !.task[t] = [@ EXCEPT !.op = op, !.proc = FirstProcedure(op), !.stage = "current",
                                                !.outcome = "none", !.stray = 0]]

\* The lock on the current socket is held through a handshake.
request(t) ==
  /\ On(t, "current") /\ rpc.opening = {} /\ rpc.task[t].op # "close" /\ Len(rpc.executed) < MaxCalls
  /\ \/ \E s \in rpc.current : rpc' = Sends(rpc, t, s)
     \/ rpc.current = {} /\ rpc' = [rpc EXCEPT !.opening = {t}, !.task[t].stage = "connect"]

close(t) ==
  /\ On(t, "current") /\ rpc.opening = {} /\ rpc.task[t].op = "close" /\ Len(rpc.executed) < MaxCalls
  /\ \/ rpc.current = {} /\ rpc' = Ended(rpc, t, "ok")
     \/ \E s \in rpc.current : rpc' = Sends([rpc EXCEPT !.current = {}, !.sockets[s].ended = TRUE], t, s)

\* A failed handshake leaves no current socket.
OpenFails(t, outcome) == rpc' = [Ended(rpc, t, outcome) EXCEPT !.opening = {}, !.faults = @ + 1]

connect(t) ==
  /\ On(t, "connect")
  /\ \/ /\ Len(rpc.sockets) < MaxSockets
        /\ rpc' = [rpc EXCEPT !.sockets = Append(@, FreshSocket),
                              !.task[t] = [@ EXCEPT !.socket = Len(rpc.sockets) + 1, !.stage = "auth_list"]]
     \/ MayFault /\ OpenFails(t, "io")

\* The first advertised type that Bento can satisfy wins; an empty list needs none.
authenticate(t) ==
  LET usable == {i \in 1..Len(rpc.advertised) : rpc.advertised[i] \in {"none", "polkit"}}
      First == CHOOSE i \in usable : \A j \in usable : i <= j IN
  /\ On(t, "auth_list")
  /\ IF SocketOf(t).closed THEN MayFault /\ OpenFails(t, "io")
     ELSE IF rpc.advertised = <<>> THEN rpc' = [rpc EXCEPT !.task[t].stage = "connect_open"]
     ELSE IF usable = {} THEN MayFault /\ OpenFails(t, "protocol")
     ELSE rpc' = [rpc EXCEPT !.task[t].stage = IF rpc.advertised[First] = "none" THEN "connect_open" ELSE "auth_polkit"]

\* A refusal comes as an error reply.
auth_polkit(t) ==
  /\ On(t, "auth_polkit")
  /\ \/ ~SocketOf(t).closed /\ rpc' = [rpc EXCEPT !.task[t].stage = "connect_open"]
     \/ MayFault /\ OpenFails(t, IF SocketOf(t).closed THEN "io" ELSE "error")

open(t) ==
  /\ On(t, "connect_open") /\ Len(rpc.executed) < MaxCalls
  /\ \/ /\ ~SocketOf(t).closed
        /\ \E s \in {rpc.task[t].socket} :
             rpc' = Sends([rpc EXCEPT !.sockets[s].opened = TRUE, !.current = {s}, !.opening = {}], t, s)
     \/ MayFault /\ OpenFails(t, IF SocketOf(t).closed THEN "io" ELSE "error")

-----------------------------------------------------------------------------
(* Transport::request.                                                     *)

RequestOf(me) == [kind |-> "reply", serial |-> me.serial, proc |-> me.proc, call |-> me.call, says |-> "ok"]

write(t) ==
  LET me == rpc.task[t] IN
  /\ On(t, "lock") /\ SocketOf(t).stream = {}
  /\ \/ SocketOf(t).closed /\ rpc' = [rpc EXCEPT !.task[t].stage = "io_error"]
     \/ /\ ~SocketOf(t).closed
        /\ rpc' = [rpc EXCEPT !.task[t].stage = "read",
                     !.sockets[me.socket] = [@ EXCEPT !.stream = {t}, !.requests = Append(SocketOf(t).requests, RequestOf(me))]]

\* read_packet on a socket with nothing left to read: the daemon has gone.
read_ends(t) ==
  /\ On(t, "read") /\ SocketOf(t).replies = <<>> /\ SocketOf(t).closed
  /\ rpc' = [rpc EXCEPT !.task[t].stage = "io_error", !.sockets[rpc.task[t].socket].stream = {}]

\* A notification is consumed while a reply is awaited.
skip_message(t) ==
  /\ On(t, "read") /\ SocketOf(t).replies # <<>> /\ Head(SocketOf(t).replies).kind = "message"
  /\ rpc' = [rpc EXCEPT !.sockets[rpc.task[t].socket].replies = Tail(@)]

\* Mutant of Follows: a network that was there before is left as it is.
FollowsDefined(proc, says) ==
  CASE proc = "network_lookup_by_name" /\ says = "no_network" -> {"network_define_xml"}
    [] proc = "network_define_xml" -> {"network_set_autostart"}
    [] proc = "network_set_autostart" -> {"network_is_active"}
    [] proc = "network_is_active" /\ says = "inactive" -> {"network_create"}
    [] OTHER -> {}

\* ensure_network goes on with what the reply says (client.rs); the other
\* operations are one call.  {} is the end of the operation.
Follows(proc, says) ==
  CASE proc = "network_lookup_by_name" -> {IF says = "no_network" THEN "network_define_xml" ELSE "network_set_autostart"}
    [] proc = "network_define_xml" -> {"network_set_autostart"}
    [] proc = "network_set_autostart" -> {"network_is_active"}
    [] proc = "network_is_active" /\ says = "inactive" -> {"network_create"}
    [] OTHER -> {}

Matches(packet, me) == packet.serial = me.serial /\ packet.proc = me.proc

process_reply(t) ==
  LET me == rpc.task[t]
      packet == Head(SocketOf(t).replies)
      read == [rpc EXCEPT !.sockets[me.socket] = [SocketOf(t) EXCEPT !.replies = Tail(@), !.stream = {}],
                          !.task[t].stray = IF packet.call = me.call THEN 0 ELSE me.socket] IN
  /\ On(t, "read") /\ SocketOf(t).replies # <<>> /\ packet.kind = "reply"
  /\ IF ~Matches(packet, me) THEN rpc' = Ended(read, t, "protocol")
     ELSE IF packet.says = "error" THEN rpc' = Ended(read, t, "error")
     ELSE IF Follows(me.proc, packet.says) = {} THEN rpc' = Ended(read, t, "ok")
     ELSE \E next \in Follows(me.proc, packet.says) :
            rpc' = [read EXCEPT !.task[t] = [@ EXCEPT !.proc = next, !.stage = "current", !.call = 0,
                                                      !.socket = 0, !.serial = 0]]

\* Mutant of Discards: the current socket is dropped whichever it is.
DiscardsAny(t) == {}

\* Only the socket that failed is given up; another call may have opened a new one.
Discards(t) == rpc.current \ {rpc.task[t].socket}

\* close takes an I/O error for a closed connection.
io_error(t) ==
  /\ On(t, "io_error") /\ (rpc.task[t].op = "close" \/ rpc.opening = {})
  /\ rpc' = IF rpc.task[t].op = "close" THEN Ended(rpc, t, "ok")
            ELSE [Ended(rpc, t, "io") EXCEPT !.current = Discards(t)]

-----------------------------------------------------------------------------
(* The daemon, and the task's own end.                                     *)

\* Whoever awaits the task drops it: its locks are released where they are.
dropped(t) ==
  /\ rpc.task[t].stage # "idle" /\ MayFault
  /\ rpc' = [Ended(rpc, t, "dropped") EXCEPT
               !.opening = @ \ {t}, !.faults = @ + 1,
               !.sockets = [s \in 1..Len(rpc.sockets) |-> [rpc.sockets[s] EXCEPT !.stream = @ \ {t}]]]

SaysOf(proc) ==
  CASE proc = "network_lookup_by_name" -> IF "defined" \in rpc.network THEN "ok" ELSE "no_network"
    [] proc = "network_is_active" -> IF "active" \in rpc.network THEN "active" ELSE "inactive"
    [] proc = "network_create" -> IF "active" \in rpc.network THEN "error" ELSE "ok"
    [] OTHER -> "ok"

NetworkAfter(proc) ==
  rpc.network \cup CASE proc = "network_define_xml" -> {"defined"}
                     [] proc = "network_set_autostart" -> {"autostart"}
                     [] proc = "network_create" -> {"active"}
                     [] OTHER -> {}

DaemonExecutes ==
  \E s \in 1..Len(rpc.sockets) :
    LET socket == rpc.sockets[s]
        packet == Head(socket.requests)
        reply == [packet EXCEPT !.says = SaysOf(packet.proc)] IN
    /\ socket.requests # <<>>
    /\ rpc' = [rpc EXCEPT !.sockets[s] = [socket EXCEPT !.requests = Tail(@), !.replies = Append(socket.replies, reply)],
                          !.network = NetworkAfter(packet.proc), !.executed[packet.call] = rpc.executed[packet.call] + 1]

DaemonNotifies ==
  \E s \in rpc.current :
    /\ MayFault /\ ~rpc.sockets[s].closed
    /\ rpc' = [rpc EXCEPT !.faults = @ + 1,
                          !.sockets[s].replies = Append(@, [kind |-> "message", serial |-> 0, call |-> 0,
                                                            proc |-> "connect_close", says |-> "ok"])]

\* Replies already sent can still be read; requests not yet executed are lost.
DaemonRestarts ==
  /\ MayFault
  /\ rpc' = [rpc EXCEPT !.faults = @ + 1,
                        !.sockets = [s \in 1..Len(rpc.sockets) |-> [rpc.sockets[s] EXCEPT !.closed = TRUE, !.requests = <<>>]]]

RpcNext ==
  \/ DaemonExecutes \/ DaemonNotifies \/ DaemonRestarts
  \/ \E t \in Task :
       \/ operation_begins(t) \/ request(t) \/ close(t) \/ connect(t) \/ authenticate(t) \/ auth_polkit(t) \/ open(t)
       \/ write(t) \/ read_ends(t) \/ skip_message(t) \/ process_reply(t) \/ io_error(t)
       \/ dropped(t)

RpcSpec == RpcInit /\ [][RpcNext]_rpc

-----------------------------------------------------------------------------
\* Callers, sockets, packets and the network have their types (rpc.rs RpcApi,
\* Transport).
RpcTypeOK ==
  /\ rpc.task \in [Task -> Caller] /\ rpc.current \subseteq 1..Len(rpc.sockets) /\ rpc.opening \subseteq Task
  /\ \A s \in 1..Len(rpc.sockets) : rpc.sockets[s] \in Socket
  /\ rpc.network \subseteq {"defined", "autostart", "active"} /\ rpc.faults \in 0..MaxRpcFaults

\* Every call is answered by its own reply and carried out at most once
\* (rpc.rs RpcApi::request, Transport::request), whatever restarts,
\* notifications and dropped tasks come between: an operation that succeeds
\* was told so by the reply to its own last call, a network ensured is
\* defined, autostarted and active, no request is sent twice, and a
\* failure never costs the process a socket that another call has opened.
CallsAnsweredOnce ==
  /\ \A t \in Task : rpc.task[t].stray # 0 => rpc.task[t].outcome = "protocol"
  /\ \A t \in Task : (rpc.task[t].op = "ensure_network" /\ rpc.task[t].outcome = "ok") =>
                       rpc.network = {"defined", "autostart", "active"}
  /\ \A n \in 1..Len(rpc.executed) : rpc.executed[n] <= 1
  /\ \A s \in 1..Len(rpc.sockets) :
       rpc.sockets[s].opened /\ ~rpc.sockets[s].closed /\ ~rpc.sockets[s].ended => s \in rpc.current

\* A socket whose replies are out of step is not used again (rpc.rs:260, "it
\* stopped mid-packet and the next reply would be read out of step.  Either
\* way it is unusable."): once a call has read another call's reply, the
\* socket it came on is no longer the current one.
OutOfStepDropped == \A t \in Task : rpc.task[t].stray \notin rpc.current
=============================================================================
