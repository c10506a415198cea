----------------------------- MODULE RouteApply -----------------------------
(***************************************************************************)
(* A runner applies a description of its network, command by command       *)
(* (bentod/src/runnerd.rs apply_network over crates/network/src            *)
(* machine.rs, routes.rs and apply.rs), on a machine that has routes of    *)
(* its operator.  A command may fail, and the handler may be dropped with  *)
(* its connection at any of them; the next order starts from what is left. *)
(*                                                                         *)
(* A user network is a /24 of the private range, by its index; its         *)
(* addresses are told apart by quarter, the slots of the narrowest prefix  *)
(* in use here (/26).  A route without next hop is a connected one.        *)
(***************************************************************************)
EXTENDS Integers, Sequences, SequencesExt

CONSTANTS NetDescription,   \* the descriptions that may be sent
          OperatorRoutes,   \* routes of the machine that are not Bento's
          LeftRoutes,       \* slot routes left by an earlier configuration
          Inside,           \* a next hop or frontend inside the private range
          MaxOrders, MaxRtFaults

VARIABLE net

rtvars == <<net>>

Quarter == 0..3
Connected == "connected"
\* [inside the private range, index of the /24, number of the prefix in it, its length, next hop]
Route(inside, index, number, bits, via) ==
  [inside |-> inside, index |-> index, number |-> number, bits |-> bits, via |-> via]
SameDestination(r, q) == [r EXCEPT !.via = q.via] = q

RtStage == {"idle", "bridges", "read", "remove", "add", "flags", "rules", "done", "failed"}

Init == net = [stage |-> "idle", desc |-> {}, ensure |-> {}, remove |-> {}, add |-> {}, flags |-> {},
               table |-> OperatorRoutes \cup LeftRoutes, arp |-> {}, rules |-> {}, warned |-> FALSE,
               orders |-> 0, faults |-> 0]

-----------------------------------------------------------------------------
(* The plan: MachineNetwork::check, networks, routes, and Ruleset::render.  *)

SlotCount(d) == 2 ^ (d.prefix - 24)

check(d) ==
  /\ \A u \in d.users : u.bits = 24 /\ u.inside
  /\ \A i \in 1..Len(d.remote) :
       /\ d.remote[i].slot < SlotCount(d) /\ d.remote[i].hop # Inside
       /\ \A j \in 1..i-1 : d.remote[j].slot # d.remote[i].slot
  /\ Inside \notin d.frontends

networks(d) == {u.index : u \in d.users}
proxy_arp_bridges(d) == networks(d)

routes(d) ==
  IF SlotCount(d) = 1 THEN {}
  ELSE {Route(TRUE, u.index, r.slot, d.prefix, r.hop) : u \in d.users, r \in ToSet(d.remote)}

\* What is refused beyond check: by render an instance outside its user's
\* subnet, and by nft the empty set of a machine that owns no slot.
renders(d) ==
  \A u \in d.users : ~u.stray /\ \E s \in 0..(SlotCount(d) - 1) : \A r \in ToSet(d.remote) : r.slot # s

-----------------------------------------------------------------------------
(* The commands.                                                           *)

\* Mutant of parse_routes: only slots of the prefix in use are recognised.
parse_current(table) ==
  {r \in table : r.inside /\ r.via # Connected /\ \E d \in net.desc : r.bits = d.prefix}

\* ip -4 route show, and the lines that are guest routes.
parse_routes(table) == {r \in table : r.inside /\ r.bits \in 24..27 /\ r.via # Connected}

\* ip route replace: any other route to the same destination goes.
replaced(table, r) == {q \in table : ~SameDestination(q, r)} \cup {r}

Runs(stage) == net.stage = stage
CanFail == net.faults < MaxRtFaults

\* A command fails, or the handler is dropped at it, with or without effect.
Gives_up(new) ==
  /\ CanFail
  /\ \E after \in {net, new} : net' = [after EXCEPT !.stage = "failed", !.faults = net.faults + 1]

Command(stage, new) == Runs(stage) /\ (net' = new \/ Gives_up(new))

-----------------------------------------------------------------------------
(* apply_network.                                                          *)

receive(d) ==
  /\ net.stage \in {"idle", "done", "failed"} /\ net.orders < MaxOrders
  /\ net' = [net EXCEPT !.orders = @ + 1, !.stage = IF check(d) THEN "bridges" ELSE "failed", !.desc = {d},
                        !.ensure = networks(d), !.remove = {}, !.add = {}, !.flags = {}, !.warned = FALSE]

\* A network that runs is left alone; its bridge brings the connected route.
ensure_network ==
  \/ \E i \in net.ensure :
       Command("bridges", [net EXCEPT !.ensure = @ \ {i},
                                      !.table = @ \cup {Route(TRUE, i, 0, 24, Connected)}])
  \/ Runs("bridges") /\ net.ensure = {} /\ net' = [net EXCEPT !.stage = "read"]

\* converge: what is installed is read once, then the differences are made good.
installed ==
  \E d \in net.desc :
    LET found == parse_routes(net.table) IN
    Command("read", [net EXCEPT !.stage = "remove", !.remove = found \ routes(d), !.add = routes(d) \ found])

remove_route ==
  \/ \E r \in net.remove : Command("remove", [net EXCEPT !.remove = @ \ {r}, !.table = @ \ {r}])
  \/ Runs("remove") /\ net.remove = {} /\ net' = [net EXCEPT !.stage = "add"]

add_route ==
  \/ \E r \in net.add : Command("add", [net EXCEPT !.add = @ \ {r}, !.table = replaced(@, r)])
  \/ Runs("add") /\ net.add = {}
     /\ \E d \in net.desc : net' = [net EXCEPT !.stage = "flags", !.flags = proxy_arp_bridges(d)]

\* Forwarding and proxy ARP, on the user bridges.
set_interface_flag ==
  \/ \E i \in net.flags : Command("flags", [net EXCEPT !.flags = @ \ {i}, !.arp = @ \cup {i}])
  \/ Runs("flags") /\ net.flags = {} /\ net' = [net EXCEPT !.stage = "rules"]

\* The table is replaced whole or not at all.  Only with remote slots are the
\* other tables looked at, and what is found, or failing to, changes nothing.
reload ==
  \E d \in net.desc, foreign \in BOOLEAN :
    /\ foreign => d.remote # <<>>
    /\ IF renders(d) THEN Command("rules", [net EXCEPT !.stage = "done", !.rules = {d}, !.warned = foreign])
       ELSE Runs("rules") /\ net' = [net EXCEPT !.stage = "failed"]

Next == \/ \E d \in NetDescription : receive(d)
        \/ ensure_network \/ installed \/ remove_route \/ add_route \/ set_interface_flag \/ reload

-----------------------------------------------------------------------------
RouteTypeOK ==
  /\ net.stage \in RtStage /\ net.desc \subseteq NetDescription /\ net.rules \subseteq NetDescription
  /\ net.orders \in 0..MaxOrders /\ net.faults \in 0..MaxRtFaults
  /\ net.remove \cup net.add \subseteq parse_routes(net.remove \cup net.add)

\* Where the kernel sends a quarter of a user network: the longest prefix.
Covers(r, index, q) ==
  r.inside /\ r.index = index /\ r.bits \in 24..26 /\ q \div (2 ^ (26 - r.bits)) = r.number
Lookup(index, q) ==
  {r.via : r \in {r \in net.table : /\ Covers(r, index, q)
                                    /\ \A o \in net.table : Covers(o, index, q) => o.bits <= r.bits}}

\* Where it belongs: to the machine that owns the quarter's slot, else the bridge.
Belongs(d, q) ==
  LET hops == {r.hop : r \in {r \in ToSet(d.remote) : q \div (2 ^ (26 - d.prefix)) = r.slot}}
  IN IF hops = {} THEN {Connected} ELSE hops

\* Whatever orders failed half way or were dropped before, an order that is
\* acknowledged leaves every address of every user network going where the
\* description says, with proxy ARP on and the rules of the same description
\* (runnerd.rs apply_network, routes.rs converge).  No order, finished or not,
\* touches a route of the operator, hides a bridge behind a route as wide, or
\* sends guests to a next hop inside the range; and a bridge answers for
\* remote addresses only when it exists.
RoutesExact ==
  /\ OperatorRoutes \subseteq net.table
  /\ \A r \in parse_routes(net.table) : r.bits > 24 /\ r.via # Inside
  /\ \A i \in net.arp : Route(TRUE, i, 0, 24, Connected) \in net.table
  /\ net.stage = "done" =>
       \A d \in net.desc :
         /\ \A u \in d.users, q \in Quarter : Lookup(u.index, q) = Belongs(d, q)
         /\ networks(d) \subseteq net.arp /\ net.rules = {d}
=============================================================================
