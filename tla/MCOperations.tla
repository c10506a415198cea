---------------------------- MODULE MCOperations ----------------------------
(***************************************************************************)
(* Running the deployment, for TLC: the sweep that keeps the network of a  *)
(* machine, its packet filter and how a description is applied, startup,   *)
(* placement, charts and the operator's tool.  They share no state that    *)
(* their properties depend on, so one behaviour exercises one of them,     *)
(* chosen at the start: the state space is the sum of theirs.              *)
(***************************************************************************)
EXTENDS NetworkSync, FirewallPolicy

-----------------------------------------------------------------------------
(* The network of a machine: descriptions of one and two users at three    *)
(* prefixes, and ones that are refused.                                    *)

Inside == "inside"
Subnet(i) == [index |-> i, bits |-> 24, inside |-> TRUE, stray |-> FALSE]
Remote(s, h) == [slot |-> s, hop |-> h]
Described(prefix, subnets, remote) ==
  [prefix |-> prefix, users |-> subnets, remote |-> remote, frontends |-> {}]
NetDescription ==
  {Described(p, us, rs) : p \in {25, 26}, us \in {{Subnet(0)}, {Subnet(0), Subnet(1)}},
                          rs \in {<<>>, <<Remote(0, "h1")>>, <<Remote(0, "h2"), Remote(1, "h1")>>}}
  \cup {Described(24, {Subnet(0)}, <<Remote(0, "h1")>>),
        Described(25, {Subnet(0)}, <<Remote(2, "h1")>>),
        Described(25, {Subnet(0)}, <<Remote(0, "h1"), Remote(0, "h2")>>),
        Described(25, {Subnet(0)}, <<Remote(0, Inside)>>),
        Described(25, {[Subnet(0) EXCEPT !.inside = FALSE]}, <<>>),
        Described(25, {[Subnet(0) EXCEPT !.stray = TRUE]}, <<Remote(1, "h1")>>)}
RouteTo(inside, index, number, bits, via) ==
  [inside |-> inside, index |-> index, number |-> number, bits |-> bits, via |-> via]
OperatorRoutes == {RouteTo(FALSE, 0, 0, 25, "gw"), RouteTo(TRUE, 2, 0, 28, "gw"),
                   RouteTo(TRUE, 3, 0, 24, "connected")}
LeftRoutes == {RouteTo(TRUE, 0, 3, 26, "h2")}
MaxOrders == 2
MaxRtFaults == 1

-----------------------------------------------------------------------------
(* Startup, placement, charts, the operator's tool.                        *)

OldKey(id, f, u) == [id |-> id, fingerprint |-> f, user |-> u]
OldKeys == {{OldKey(1, "f", "a"), OldKey(2, "f", "b"), OldKey(3, "g", "b"), OldKey(4, "g", "b")}}
MaxUp == 2
MaxBootFaults == 2

HostId == 1..2
Machine(arch, cpu, memory, storage, available) ==
  [arch |-> arch, cpu |-> cpu, memory |-> memory, storage |-> storage, available |-> available]
Figures == [m1 |-> Machine("x", 1, 2, 3, 3), m2 |-> Machine("x", 2, 4, 4, 1), m3 |-> Machine("y", 0, 2, 2, 2)]
Set(enabled, placement, slots) == [enabled |-> enabled, placement |-> placement, slots |-> slots]
Active == Set(TRUE, "active", {"active"})
Fleets == {<<Active, Active>>, <<Set(TRUE, "draining", {"active"}), Active>>,
           <<Active, Set(TRUE, "active", {"moving"})>>, <<Active, Set(FALSE, "active", {"active"})>>}
Want == {[memory |-> 2, disk |-> 1, vcpu |-> 1], [memory |-> 1, disk |-> 2, vcpu |-> 2]}
Overcommit == 2
MaxPolls == 2
MaxMoved == 1
MaxRows == 2

MetInst == {1, 2}
MetHost == {1, 2}
Homes == {<<1, 2>>}
LocalId == 1
Vcpus == 1
CAPACITY == 2
MaxTime == 2
MaxMetFaults == 1

UNITS == <<"serve", "runner">>
SERVE == "serve"
RUNNER == "runner"
MaxRuns == 2
MaxTouches == 1

-----------------------------------------------------------------------------
\* The component that is exercised, and the state of one of the others.
VARIABLES which, v1

St == INSTANCE Startup WITH boot <- v1
Pl == INSTANCE Placement WITH plc <- v1
Me == INSTANCE Metrics WITH met <- v1
Mo == INSTANCE Monitor WITH mon <- v1
Rt == INSTANCE RouteApply WITH net <- v1

\* The network at rest has converged: the machine has acknowledged what the
\* database says and has it installed.
NetworkRests ==
  /\ db = [slots |-> 0, users |-> 0] /\ applied = db /\ machine = [p \in Parts |-> db]
  /\ boot = 0 /\ boots = boot /\ sweep = AtRest /\ order = Nothing
  /\ unsure = FALSE /\ edits = 0 /\ faults = 0

OperationsInit ==
  \/ which = "network" /\ Init /\ FirewallInit /\ v1 = "at rest"
  \/ which = "firewall" /\ NetworkRests /\ FirewallInit /\ v1 = "at rest"
  \/ /\ NetworkRests /\ FirewallInit
     /\ \/ which = "routes" /\ Rt!Init
        \/ which = "startup" /\ St!Init
        \/ which = "placement" /\ Pl!Init
        \/ which = "metrics" /\ Me!Init
        \/ which = "monitor" /\ Mo!Init

\* The sweep never stops; the others may be over.
OperationsNext ==
  \/ which = "network" /\ Next /\ UNCHANGED <<which, v1, facts>>
  \/ which = "firewall" /\ FirewallNext /\ UNCHANGED <<which, v1, vars>>
  \/ /\ UNCHANGED <<which, vars, facts>>
     /\ \/ which = "routes" /\ Rt!Next
        \/ which = "startup" /\ St!Next
        \/ which = "placement" /\ Pl!Next
        \/ which = "metrics" /\ Me!Next
        \/ which = "monitor" /\ Mo!Next
  \/ which # "network" /\ UNCHANGED <<which, v1, vars, facts>>

\* The fairness of NetworkSync, where it is exercised; the others have none.
OperationsSpec ==
  /\ OperationsInit /\ [][OperationsNext]_<<which, v1, vars, facts>>
  /\ WF_vars(which = "network" /\ Sweeping)
  /\ WF_vars(which = "network" /\ Apply)
  /\ WF_vars(which = "network" /\ Abandoned)

-----------------------------------------------------------------------------
\* Running the deployment, in well-formed states: an applied description
\* leaves every address going where it belongs (bentod/src/runnerd.rs
\* apply_network), one upgrade and one controller however processes start
\* (store/src/migrate.rs, bentod/src/serve.rs), placement by figures of the
\* machine itself (bentod/src/runners.rs), charts of what was measured
\* (bentod/src/metrics.rs), and an operator's tool that overwrites no backup
\* (bento-monitor/src/app.rs, bentod/src/ops.rs).
OperationsSound ==
  CASE which = "firewall" -> FirewallTypeOK
    [] which = "routes" -> Rt!RouteTypeOK /\ Rt!RoutesExact
    [] which = "startup" -> St!StartupTypeOK /\ St!StartupSound
    [] which = "placement" -> Pl!PlacementTypeOK /\ Pl!PlacementSound
    [] which = "metrics" -> Me!MetricsTypeOK /\ Me!MetricsSound
    [] which = "monitor" -> Mo!MonitorTypeOK /\ Mo!MonitorSound
    [] OTHER -> TRUE
=============================================================================
