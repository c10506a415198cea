----------------------------- MODULE Placement -----------------------------
(***************************************************************************)
(* Where a new instance goes: what the controller learns of its machines   *)
(* (bentod/src/runners.rs poll_host and crates/store/src/runners.rs        *)
(* observe_host), how choose_host weighs them, the capacity check at the   *)
(* insert, and what the monitor's Fleet screen says of each machine.       *)
(*                                                                         *)
(* A poll is two calls, and between them the endpoint may come to lead to  *)
(* another machine.  A create chooses in one transaction and inserts in a  *)
(* later one, so other creates and polls come between.  A machine's report *)
(* (its figures) never changes; an option is a set of at most one element. *)
(***************************************************************************)
EXTENDS Naturals, FiniteSets, FiniteSetsExt, SequencesExt

CONSTANTS HostId,       \* the host rows, numbered; the lowest is the controller's own
          Figures,      \* machine -> [arch, cpu, memory, storage, available]
          Fleets,       \* what operators set: host -> [enabled, placement, slots]
          Want,         \* requests: [memory, disk, vcpu]
          Overcommit,   \* memory may be promised this many times over (halves)
          MaxPolls,     \* bound: polls of the fleet
          MaxMoved,     \* bound: times an endpoint leads elsewhere
          MaxRows       \* bound: instances created

VARIABLE plc

plcvars == <<plc>>

Machine == DOMAIN Figures
LocalHost == Min(HostId)
NoReport == [health |-> "unknown", contact |-> 0, figures |-> {}]
Observation == [health : {"ok", "unreachable", "mismatched"}, contact : 0..MaxPolls, figures : SUBSET Machine]
Operated == UNION {{f[h] : h \in HostId} : f \in Fleets}
HostRow == [set : Operated, machine : SUBSET Machine, observed : SUBSET Observation]
PollState == [stage : {"idle", "health", "capabilities"}, target : SUBSET Machine, named : SUBSET Machine]
Row == [host : HostId, want : Want, number : 1..MaxRows]
IdlePoll == [stage |-> "idle", target |-> {}, named |-> {}]

\* serve has named its own row; the others were read from the configuration.
Init ==
  \E operated \in Fleets, at \in [HostId -> Machine] :
    /\ \A g, h \in HostId : at[g] = at[h] => g = h
    /\ plc = [hosts |-> [h \in HostId |-> [set |-> operated[h], observed |-> {},
                                           machine |-> IF h = LocalHost THEN {at[h]} ELSE {}]],
              at |-> [h \in HostId |-> {at[h]}], poll |-> [h \in HostId |-> IdlePoll],
              rows |-> {}, placing |-> {}, polls |-> 0, moved |-> 0, crossed |-> {}]

-----------------------------------------------------------------------------
(* Polling.                                                                *)

\* Every tick asks every machine at once, with the identity the row had then.
tick ==
  /\ plc.polls < MaxPolls /\ \A h \in HostId : plc.poll[h] = IdlePoll
  /\ plc' = [plc EXCEPT !.polls = @ + 1,
               !.poll = [h \in HostId |-> [stage |-> "health", target |-> plc.hosts[h].machine, named |-> {}]]]

\* A machine answers a request that names it, and one that names none.
Answers(h) == {m \in plc.at[h] : plc.poll[h].target \subseteq {m}}

\* A call that failed keeps the figures and the time of the last good one.
Reported(old, health, figures) ==
  [health |-> health, contact |-> IF health = "ok" THEN plc.polls ELSE old.contact,
   figures |-> IF figures = {} THEN old.figures ELSE figures]

\* The first answer names the machine, and the name never changes after.
observe_host(h, named, figures) ==
  LET row == plc.hosts[h]
      health == IF named = {} THEN "unreachable"
                ELSE IF row.machine \subseteq named THEN "ok" ELSE "mismatched"
      old == IF row.observed = {} THEN NoReport ELSE CHOOSE o \in row.observed : TRUE IN
  [row EXCEPT !.machine = IF @ = {} THEN named ELSE @, !.observed = {Reported(old, health, figures)}]

PollFails(h) == [plc EXCEPT !.hosts[h] = observe_host(h, {}, {}), !.poll[h] = IdlePoll]

\* Either call may be refused, fail or time out.
poll_health(h) ==
  /\ plc.poll[h].stage = "health"
  /\ \/ plc' = PollFails(h)
     \/ \E m \in Answers(h) : plc' = [plc EXCEPT !.poll[h].stage = "capabilities", !.poll[h].named = {m}]

poll_capabilities(h) ==
  /\ plc.poll[h].stage = "capabilities"
  /\ \/ plc' = PollFails(h)
     \/ \E m \in Answers(h) :
          plc' = [plc EXCEPT !.hosts[h] = observe_host(h, plc.poll[h].named, {m}), !.poll[h] = IdlePoll,
                             !.crossed = IF plc.poll[h].named = {m} THEN @ ELSE @ \cup {h}]

\* An endpoint comes to lead to another machine, or to none.
Moves(h) ==
  /\ h # LocalHost /\ plc.moved < MaxMoved
  /\ \E at \in {{}} \cup {{m} : m \in Machine \ plc.at[LocalHost]} :
       at # plc.at[h] /\ plc' = [plc EXCEPT !.at[h] = at, !.moved = @ + 1]

-----------------------------------------------------------------------------
(* Weighing.                                                               *)

RowsOn(h) == {r \in plc.rows : r.host = h}
reserved_memory(h) == MapThenSumSet(LAMBDA r : r.want.memory, RowsOn(h))
reserved_disk(h) == MapThenSumSet(LAMBDA r : r.want.disk, RowsOn(h))
reserved_vcpu(h) == MapThenSumSet(LAMBDA r : r.want.vcpu, RowsOn(h))
overcommitted_memory_mib(memory) == (memory * Overcommit) \div 2
Arch == Figures[CHOOSE m \in plc.at[LocalHost] : TRUE].arch    \* of the controller's build

SeenOk(h) == \E o \in plc.hosts[h].observed : o.health = "ok"
FiguresOf(h) == UNION {o.figures : o \in plc.hosts[h].observed}

\* Mutant of weigh_host: the instances already there are not counted.
weigh_empty(h, want) ==
  {[host |-> h, memory |-> want.memory, of |-> overcommitted_memory_mib(Figures[m].memory),
    vcpu |-> want.vcpu, cpu |-> Max({1, Figures[m].cpu})] :
     m \in {m \in FiguresOf(h) : /\ SeenOk(h) /\ "active" \in plc.hosts[h].set.slots
                                 /\ Figures[m].arch = Arch /\ Figures[m].memory > 0
                                 /\ want.memory <= overcommitted_memory_mib(Figures[m].memory)
                                 /\ want.disk <= Figures[m].available}}

\* What a machine would be loaded to, if it can take the request at all.
weigh_host(h, want) ==
  LET memory == reserved_memory(h) + want.memory IN
  {[host |-> h, memory |-> memory, of |-> overcommitted_memory_mib(Figures[m].memory),
    vcpu |-> reserved_vcpu(h) + want.vcpu, cpu |-> Max({1, Figures[m].cpu})] :
     m \in {m \in FiguresOf(h) : /\ SeenOk(h) /\ "active" \in plc.hosts[h].set.slots
                                 /\ Figures[m].arch = Arch /\ Figures[m].memory > 0
                                 /\ memory <= overcommitted_memory_mib(Figures[m].memory)
                                 /\ want.disk <= Figures[m].available}}

\* Ratios are compared as fractions: memory first, then vCPU, then the id.
Lighter(a, b) ==
  \/ a.memory * b.of < b.memory * a.of
  \/ /\ a.memory * b.of = b.memory * a.of
     /\ \/ a.vcpu * b.cpu < b.vcpu * a.cpu
        \/ a.vcpu * b.cpu = b.vcpu * a.cpu /\ a.host < b.host

Placeable == {h \in HostId : plc.hosts[h].set.enabled /\ plc.hosts[h].set.placement = "active"}

\* The machines in the order of their ids, the lightest so far kept.
choose_host(want) ==
  LET hosts == SetToSortSeq(Placeable, <)
      Keep(best, h) == LET w == weigh_host(h, want) IN
                       IF w # {} /\ \A a \in w, b \in best : Lighter(a, b) THEN w ELSE best IN
  {w.host : w \in FoldLeft(Keep, {}, hosts)}

\* One machine to choose from is no choice: the request stays where it came.
place(want) == IF Cardinality(Placeable) <= 1 THEN {LocalHost} ELSE choose_host(want)

-----------------------------------------------------------------------------
(* Creating.                                                               *)

\* This machine's own figures, read at startup, or the last reported ones.
host_capacity(h) == IF h = LocalHost THEN plc.at[h] ELSE {m \in FiguresOf(h) : Figures[m].memory > 0 /\ Figures[m].storage > 0}

Place(want) ==
  /\ Cardinality(plc.rows) + Cardinality(plc.placing) < MaxRows
  /\ \E h \in place(want), number \in (1..MaxRows) \ {r.number : r \in plc.rows \cup plc.placing} :
       /\ \A n \in 1..(number - 1) : n \in {r.number : r \in plc.rows \cup plc.placing}
       /\ plc' = [plc EXCEPT !.placing = @ \cup {[host |-> h, want |-> want, number |-> number]}]

\* The insert checks the sums again, against the capacity read before it.
create_instance(r) ==
  LET fits(m) == /\ reserved_memory(r.host) + r.want.memory <= overcommitted_memory_mib(Figures[m].memory)
                 /\ reserved_disk(r.host) + r.want.disk <= Figures[m].storage IN
  plc' = [plc EXCEPT !.placing = @ \ {r},
                     !.rows = IF \E m \in host_capacity(r.host) : fits(m) THEN @ \cup {r} ELSE @]

Next ==
  \/ tick \/ \E h \in HostId : poll_health(h) \/ poll_capabilities(h) \/ Moves(h)
  \/ (\E want \in Want : Place(want)) \/ \E r \in plc.placing : create_instance(r)

-----------------------------------------------------------------------------
(* The Fleet screen (bento-monitor/src/fleet.rs).                          *)

\* Why no instance is placed on a machine, and what it carries.  The machine's
\* slots and architecture are shown beside the reason and are no part of it.
Runner(h) ==
  [refusal |-> IF ~plc.hosts[h].set.enabled THEN "disabled"
               ELSE IF plc.hosts[h].set.placement # "active" THEN plc.hosts[h].set.placement
               ELSE IF plc.hosts[h].observed = {} THEN "never answered"
               ELSE IF SeenOk(h) THEN "none" ELSE (CHOOSE o \in plc.hosts[h].observed : TRUE).health,
   instances |-> Cardinality(RowsOn(h)), memory |-> reserved_memory(h), disk |-> reserved_disk(h),
   is_local |-> plc.hosts[h].machine = plc.at[LocalHost]]

collect == [runners |-> [h \in HostId |-> Runner(h)], instances |-> Cardinality(plc.rows)]

-----------------------------------------------------------------------------
PlacementTypeOK ==
  /\ plc.hosts \in [HostId -> HostRow] /\ plc.poll \in [HostId -> PollState]
  /\ plc.rows \subseteq Row /\ plc.placing \subseteq Row /\ plc.moved \in 0..MaxMoved

\* What choose_host promises for any request: a machine that is enabled,
\* active, last seen as itself, of the right architecture and with an active
\* slot and the room, and no such machine with a smaller share of its
\* memory reserved; one is found whenever there is one.
ChoosesBest(want) ==
  LET after(h) == reserved_memory(h) + want.memory
      limit(h) == overcommitted_memory_mib(Figures[CHOOSE m \in FiguresOf(h) : TRUE].memory)
      fit == {h \in Placeable : /\ SeenOk(h) /\ "active" \in plc.hosts[h].set.slots /\ after(h) <= limit(h)
                                /\ \A m \in FiguresOf(h) : Figures[m].arch = Arch /\ want.disk <= Figures[m].available} IN
  /\ choose_host(want) \subseteq fit /\ (choose_host(want) = {} => fit = {})
  /\ \A h \in choose_host(want), g \in fit : after(h) * limit(g) <= after(g) * limit(h)

\* What the monitor's reason leaves out.
Suits(h, want) ==
  /\ "active" \in plc.hosts[h].set.slots
  /\ \A m \in FiguresOf(h) : /\ Figures[m].arch = Arch /\ want.disk <= Figures[m].available
                             /\ reserved_memory(h) + want.memory <= overcommitted_memory_mib(Figures[m].memory)

\* Placement is sound at every moment (store/src/runners.rs choose_host,
\* observe_host; adapters.rs host_capacity): the choice is the best one; a
\* machine keeps its figures and the time it was last well through every
\* failed poll, never changes identity, and figures recorded for it
\* are its own unless its endpoint moved during the first contact; creates
\* and polls in any order never promise more than the figures allow.  The
\* monitor gives a reason only for a machine that choose_host passes over,
\* and a machine without one is weighed if it has an active slot, the
\* architecture and the room: for want of these choose_host passes over a
\* machine of which the monitor says nothing, though fleet.rs calls the
\* reason "Whether the controller may place a new instance here".  This
\* machine's row, and no other, is marked local.
PlacementSound ==
  /\ \A want \in Want : ChoosesBest(want)
  /\ \A h \in HostId : LET row == plc.hosts[h] IN
       /\ \A o \in row.observed :
            /\ o.contact > 0 <=> o.figures # {}
            /\ o.health = "ok" => o.contact > 0
            /\ h # LocalHost /\ row.machine # {} => o.contact > 0
            /\ h \notin plc.crossed => o.figures \subseteq row.machine
       /\ \A m \in host_capacity(h) : plc.crossed = {} =>
            reserved_memory(h) <= overcommitted_memory_mib(Figures[m].memory) /\ reserved_disk(h) <= Figures[m].storage
       /\ LET shown == collect.runners[h] IN
          /\ \A want \in Want :
               /\ shown.refusal # "none" => h \notin choose_host(want)
               /\ shown.refusal = "none" /\ Suits(h, want) => weigh_host(h, want) # {}
          /\ shown.is_local /\ plc.moved = 0 => h = LocalHost
=============================================================================
