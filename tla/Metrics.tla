------------------------------ MODULE Metrics ------------------------------
(***************************************************************************)
(* The measurements behind the dashboard charts: bentod/src/metrics.rs     *)
(* with the readings it asks for (crates/hostinfo, the libvirt client's    *)
(* sample, and a runner's sample).  A tick lists the instances and the     *)
(* machines, then reads one after the other; guests run, restart, are      *)
(* renamed and deleted between any two of those steps.                     *)
(*                                                                         *)
(* Processor time is in units of one busy processor for one unit of time.  *)
(* The size of a machine stands for its memory, storage and processors.    *)
(* The memory series are pushed with the processor series and left out.    *)
(* A machine is busy half of the time.  Points carry the wall clock, which *)
(* an operator may set back; ticks and guests follow the time that passes. *)
(***************************************************************************)
EXTENDS Integers, Sequences, FiniteSets, FiniteSetsExt

CONSTANTS MetInst,      \* instances, numbered in the order of the list
          MetHost,      \* host row ids
          Homes,        \* where the instances may be: functions from instances to hosts
          LocalId,      \* the controller's own
          Vcpus,        \* virtual processors of an instance
          CAPACITY,     \* points a series keeps
          MaxTime,      \* bound: units of time
          MaxMetFaults  \* bound: failed calls, restarts, renames, deletions, resized machines, set clocks

VARIABLE met

metvars == <<met>>

Time == 0..MaxTime
SetBack == 0..2                  \* bound: how far the wall clock is set back
Size == 0..2
CpuTimes(now) == [total |-> 2 * now, idle |-> now]
NoEntry == [host |-> 0, cpu |-> <<>>, spent |-> 0, owed |-> 0, own |-> TRUE, previous |-> {}]
NoHost == [cpu |-> <<>>, size |-> 0, previous |-> {}, told |-> 0]

\* name[i] is the label of i's domain.  used, owed and told are kept for the
\* property: what a guest consumed in all, what it consumed between the two
\* readings of its latest rate, and the size a machine last reported itself.
Init ==
  \E at \in Homes :
    met = [now |-> 0, at |-> at, rows |-> MetInst, name |-> [i \in MetInst |-> i],
           up |-> MetInst, ns |-> [i \in MetInst |-> 0], used |-> [i \in MetInst |-> 0],
           machines |-> MetHost, size |-> [h \in MetHost |-> 1], observed |-> [h \in MetHost |-> 0],
           instances |-> [i \in MetInst |-> NoEntry], listed |-> {},
           hosts |-> [h \in MetHost |-> NoHost], carded |-> {},
           stage |-> "idle", due |-> TRUE, back |-> 0, tick |-> 0, list |-> {}, todo |-> {}, queue |-> {}, faults |-> 0]

CanFail == met.faults < MaxMetFaults
Faulted(m) == [m EXCEPT !.faults = @ + 1]
Wall == met.now - met.back

-----------------------------------------------------------------------------
(* A bounded series, oldest first.                                         *)

push(series, at, value) ==
  LET kept == IF Len(series) = CAPACITY THEN Tail(series) ELSE series
  IN Append(kept, [at |-> at, value |-> value])

window(series, width, now) == SelectSeq(series, LAMBDA p : p.at >= now - width)

Clamp(low, high, x) == Max({low, Min({high, x})})

-----------------------------------------------------------------------------
(* Folding a reading in.                                                   *)

\* The busy share in percent; none while no time passed or a counter went back.
busy_fraction(before, after) ==
  LET total == after.total - before.total
      idle == after.idle - before.idle
  IN IF total <= 0 \/ idle < 0 THEN {} ELSE {Clamp(0, 100, (Max({0, total - idle}) * 100) \div total)}

record_host(m, h, cpu, size) ==
  LET e == m.hosts[h]
      points == UNION {busy_fraction(b, a) : b \in e.previous, a \in cpu} IN
  [m EXCEPT !.carded = @ \cup {h},
            !.hosts[h] = [e EXCEPT !.cpu = IF points = {} THEN @ ELSE push(@, m.tick, Max(points)),
                                   !.previous = IF cpu = {} THEN @ ELSE cpu,
                                   !.size = size, !.told = size]]

\* Mutant of record_known: the remembered size replaces the reported one.
record_observed(m, h) == [m EXCEPT !.carded = @ \cup {h}, !.hosts[h].size = m.observed[h]]

\* A machine that did not answer: remembered figures fill in what is not known.
record_known(m, h) ==
  [m EXCEPT !.carded = @ \cup {h}, !.hosts[h].size = IF @ = 0 THEN m.observed[h] ELSE @]

\* What was spent since the previous reading; a counter that went back is a
\* domain that restarted, and no time passed is no rate.
spent_since(e, ns, at) == {ns - p.ns : p \in {p \in e.previous : ns >= p.ns /\ at > p.at}}

\* i's series take the reading of guest j's domain.
record_instance(m, i, h, j) ==
  LET e == m.instances[i]
      spent == spent_since(e, m.ns[j], m.tick)
      elapsed == Max({1} \cup {m.tick - p.at : p \in e.previous})
      new == [e EXCEPT
                !.host = h, !.own = @ /\ i = j,
                !.cpu = IF spent = {} THEN @ ELSE push(@, m.tick, Clamp(0, 100, (Max(spent) * 100) \div (Vcpus * elapsed))),
                !.spent = IF spent = {} THEN @ ELSE Max(spent),
                !.owed = IF spent = {} THEN @ ELSE m.used[i] - Max({p.used : p \in e.previous}),
                !.previous = {[ns |-> m.ns[j], at |-> m.tick, used |-> m.used[i]]}]
  IN [m EXCEPT !.listed = @ \cup {i}, !.instances[i] = new]

retain(m, live) ==
  [m EXCEPT !.listed = @ \cap live, !.instances = [i \in MetInst |-> IF i \in live THEN @[i] ELSE NoEntry]]
retain_hosts(m, live) ==
  [m EXCEPT !.carded = @ \cap live, !.hosts = [h \in MetHost |-> IF h \in live THEN @[h] ELSE NoHost]]

-----------------------------------------------------------------------------
(* One tick.                                                               *)

\* The instances are listed, with their names, and the others forgotten.
\* A tick is due when time has passed, whatever the wall clock says.
tick ==
  /\ met.stage = "idle" /\ met.due
  /\ \/ met' = retain([met EXCEPT !.stage = "hosts", !.due = FALSE, !.tick = Wall,
                                  !.list = {<<i, met.name[i]>> : i \in met.rows}], met.rows)
     \/ CanFail /\ met' = Faulted([met EXCEPT !.due = FALSE, !.tick = Wall])

\* Then the machines that are not removed.
list_hosts ==
  /\ met.stage = "hosts"
  /\ \/ met' = retain_hosts([met EXCEPT !.stage = "read", !.todo = met.machines], met.machines)
     \/ CanFail /\ met' = Faulted([met EXCEPT !.stage = "idle"])

Listed == {l[1] : l \in met.list}

\* This machine's own figures, then its guests one by one.  A figure that
\* cannot be read is zero.
read_local ==
  /\ met.stage = "read" /\ met.todo # {} /\ Min(met.todo) = LocalId
  /\ LET done == [met EXCEPT !.todo = @ \ {LocalId}, !.stage = "guests",
                             !.queue = {l \in met.list : met.at[l[1]] = LocalId}] IN
     \/ met' = record_host(done, LocalId, {CpuTimes(met.now)}, met.size[LocalId])
     \/ CanFail /\ met' = Faulted(record_host(done, LocalId, {}, 0))

\* libvirt is asked by name for a domain; one that does not run, or whose
\* sample fails, is passed over.
sample ==
  /\ met.stage = "guests"
  /\ \/ met.queue = {} /\ met' = [met EXCEPT !.stage = "read"]
     \/ \E l \in {l \in met.queue : \A k \in met.queue : l[1] <= k[1]} :
          LET done == [met EXCEPT !.queue = @ \ {l}]
              found == {j \in met.up : met.name[j] = l[2] /\ met.at[j] = LocalId} IN
          \/ found = {} /\ met' = done
          \/ \E j \in found : met' = record_instance(done, l[1], LocalId, j)
          \/ CanFail /\ met' = Faulted(done)

\* A runner answers for itself and for all its guests at once, by uuid; a
\* guest without a row in the list is not charted.
read_remote ==
  \E h \in MetHost \ {LocalId} :
    /\ met.stage = "read" /\ met.todo # {} /\ Min(met.todo) = h
    /\ LET done == [met EXCEPT !.todo = @ \ {h}]
           guests == {j \in met.up \cap Listed : met.at[j] = h} IN
       \/ met' = FoldSet(LAMBDA j, m : record_instance(m, j, h, j),
                         record_host(done, h, {CpuTimes(met.now)}, met.size[h]), guests)
       \/ CanFail /\ met' = Faulted(record_known(done, h))

tick_ends == met.stage = "read" /\ met.todo = {} /\ met' = [met EXCEPT !.stage = "idle"]

-----------------------------------------------------------------------------
(* What happens meanwhile.                                                 *)

TimePasses ==
  /\ met.now < MaxTime
  /\ \E busy \in SUBSET met.up :
       met' = [met EXCEPT !.now = @ + 1, !.due = TRUE,
                          !.ns = [i \in MetInst |-> IF i \in busy THEN @[i] + Vcpus ELSE @[i]],
                          !.used = [i \in MetInst |-> IF i \in busy THEN @[i] + Vcpus ELSE @[i]]]

Restarts == \E i \in met.up : met' = Faulted([met EXCEPT !.ns[i] = 0])
Stops == \E i \in met.up : met' = Faulted([met EXCEPT !.up = @ \ {i}, !.ns[i] = 0])
Deleted == \E i \in met.rows : met' = Faulted([met EXCEPT !.rows = @ \ {i}, !.up = @ \ {i}])
Renamed == \E i, j \in met.up : i # j /\ met' = Faulted([met EXCEPT !.name[i] = met.name[j], !.name[j] = met.name[i]])
Resized == \E h \in MetHost : met.size[h] = 1 /\ met' = Faulted([met EXCEPT !.size[h] = 2])
Removed == \E h \in met.machines \ {LocalId} : met' = Faulted([met EXCEPT !.machines = @ \ {h}])
ClockSetBack == \E n \in SetBack \ {0} : met' = Faulted([met EXCEPT !.back = n])
Observed == \E h \in MetHost \ {LocalId} : met.observed[h] # met.size[h] /\ met' = [met EXCEPT !.observed[h] = met.size[h]]

Meanwhile == TimePasses \/ Observed \/ (CanFail /\ (Restarts \/ Stops \/ Deleted \/ Renamed \/ Resized \/ Removed \/ ClockSetBack))

Next == tick \/ list_hosts \/ read_local \/ sample \/ read_remote \/ tick_ends \/ Meanwhile

-----------------------------------------------------------------------------
MetricsTypeOK ==
  /\ met.now \in Time /\ met.stage \in {"idle", "hosts", "read", "guests"} /\ met.tick \in -2..MaxTime /\ met.back \in SetBack
  /\ met.listed \subseteq MetInst /\ met.carded \subseteq MetHost
  /\ \A h \in MetHost : met.hosts[h].size \in Size /\ met.hosts[h].told \in Size

Ordered(series) ==
  /\ Len(series) <= CAPACITY
  /\ \A k \in 1..Len(series) :
       series[k].value \in 0..100 /\ (met.back = 0 => \A l \in 1..(k - 1) : series[l].at < series[k].at)

\* The charts never claim what did not happen (metrics.rs Sampler): while
\* the wall clock is not set back, points come oldest first and any window
\* of them is the end of the series (once it is, neither holds until the
\* points of before are gone: push appends, whatever the time); what a rate
\* is made from is never above what the guest consumed between the two readings, across
\* restarts, missed readings and slow ticks, unless its name changed hands
\* between the listing and the reading; between ticks nothing is charted
\* that was gone when the last one listed it; and a machine that stops
\* answering keeps the size it last reported ("keeps its card, with the
\* size it last reported", SPEC.md:693).
MetricsSound ==
  /\ \A i \in met.listed :
       LET e == met.instances[i] IN
       /\ Ordered(e.cpu) /\ (e.own => e.spent <= e.owed)
       /\ \A width \in Time : met.back = 0 => \E k \in 0..Len(e.cpu) : window(e.cpu, width, met.now) = SubSeq(e.cpu, k + 1, Len(e.cpu))
  /\ met.stage = "idle" => met.listed \subseteq Listed
  /\ \A h \in met.carded : Ordered(met.hosts[h].cpu) /\ (met.hosts[h].told > 0 => met.hosts[h].size = met.hosts[h].told)
=============================================================================
