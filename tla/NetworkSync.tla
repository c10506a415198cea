---------------------------- MODULE NetworkSync ------------------------------
(***************************************************************************)
(* The controller keeps the network of a runner at what the database says  *)
(* (NetworkSync and PollTask::run of bentod/src/runners.rs): a sweep polls *)
(* the machine, notes its boot id, reads the description of its network,   *)
(* and sends the whole of it unless the machine acknowledged the same      *)
(* description before.  The machine applies it in the four steps of        *)
(* apply_network (bentod/src/runnerd.rs).                                  *)
(*                                                                         *)
(* One machine: the sweep visits the machines one after the other and they *)
(* share nothing but the database.  An order that the controller gave up   *)
(* after REQUEST_TIMEOUT (5 s) is over before the next sweep reaches the   *)
(* machine (INTERVAL, 30 s): it arrives or not, finishes, or is dropped    *)
(* with its connection.  What orders that do overlap may do is the subject *)
(* of Dispatch.                                                            *)
(***************************************************************************)
EXTENDS Integers

CONSTANTS Versions,      \* what either half of the database may say
          Reverts,       \* whether it may go back to what it said before
          MaxEdits,      \* bound: changes of the database
          MaxReboots,    \* bound: reboots of the machine
          MaxFaults,     \* bound: failed orders, controller restarts
          Nothing        \* no digest, no boot id, no order, nothing installed

ASSUME NetworkAssumption ==
  /\ Versions \subseteq Nat
  /\ 0 \in Versions
  /\ Reverts \in BOOLEAN
  /\ MaxEdits \in Nat /\ MaxReboots \in Nat /\ MaxFaults \in Nat
  /\ Nothing \notin Nat \cup [slots : Nat, users : Nat]
                       \cup [state : {"sent", "applying"}, done : 0..4,
                             description : [slots : Nat, users : Nat]]

VARIABLES db,            \* the two halves of a description, read one after the other
          applied,       \* the digest the machine last acknowledged
          boots,         \* the boot id it last reported
          sweep,         \* how far the sweep is: [pc, boot, slots]
          order,         \* the ApplyNetwork the machine has or will have
          machine,       \* what is installed, by step of apply_network
          boot,          \* the machine's boot id
          unsure,        \* history: an order was sent and not acknowledged since
          edits, faults  \* bounds

vars == <<db, applied, boots, sweep, order, machine, boot, unsure, edits, faults>>

Description == [slots : Versions, users : Versions]

Parts == {"bridges", "routes", "arp", "rules"}

(* Mutant of Steps: proxy ARP is switched on before the routes are there. *)
ArpFirst == <<"bridges", "arp", "routes", "rules">>

(* apply_network: user bridges, slot routes, proxy ARP, firewall rules. *)
Steps == <<"bridges", "routes", "arp", "rules">>

AtRest == [pc |-> "idle", boot |-> 0, slots |-> 0]

Init ==
  /\ db = [slots |-> 0, users |-> 0]
  /\ applied = Nothing
  /\ boots = Nothing
  /\ sweep = AtRest
  /\ order = Nothing
  /\ machine = [p \in Parts |-> Nothing]
  /\ boot = 0
  /\ unsure = FALSE
  /\ edits = 0
  /\ faults = 0

(* Slots given, instances published or removed, users added, by any process. *)
Edit(half, v) ==
  /\ edits < MaxEdits
  /\ IF Reverts THEN v # db[half] ELSE v > db[half]
  /\ db' = [db EXCEPT ![half] = v]
  /\ edits' = edits + 1
  /\ UNCHANGED <<applied, boots, sweep, order, machine, boot, unsure, faults>>

(* Mutant of Poll: the id kept from the last poll is taken for the machine's. *)
PollFromMemory ==
  /\ sweep.pc = "idle"
  /\ order = Nothing
  /\ sweep' = [AtRest EXCEPT !.pc = "polled", !.boot = boots]
  /\ UNCHANGED <<db, applied, boots, order, machine, boot, unsure, edits, faults>>

(* tick: the machine answers Health, with its boot id.  No answer is no step. *)
Poll ==
  /\ sweep.pc = "idle"
  /\ order = Nothing
  /\ sweep' = [AtRest EXCEPT !.pc = "polled", !.boot = boot]
  /\ UNCHANGED <<db, applied, boots, order, machine, boot, unsure, edits, faults>>

(* Mutant of NoteBoot: the new id is stored and the digest kept. *)
NoteBootOnly ==
  /\ sweep.pc = "polled"
  /\ boots' = sweep.boot
  /\ sweep' = [sweep EXCEPT !.pc = "slots"]
  /\ UNCHANGED <<db, applied, order, machine, boot, unsure, edits, faults>>

(* note_boot: another id than the last one drops the digest. *)
NoteBoot ==
  /\ sweep.pc = "polled"
  /\ boots' = sweep.boot
  /\ applied' = IF boots \in {Nothing, sweep.boot} THEN applied ELSE Nothing
  /\ sweep' = [sweep EXCEPT !.pc = "slots"]
  /\ UNCHANGED <<db, order, machine, boot, unsure, edits, faults>>

(* machine_network, its first reads: prefix, hosts, slots. *)
ReadSlots ==
  /\ sweep.pc = "slots"
  /\ sweep' = [sweep EXCEPT !.pc = "users", !.slots = db.slots]
  /\ UNCHANGED <<db, applied, boots, order, machine, boot, unsure, edits, faults>>

(* Mutant of Dispatch: the digest is remembered before the answer. *)
DispatchAndRemember(d) ==
  /\ order' = [state |-> "sent", description |-> d, done |-> 0]
  /\ applied' = d
  /\ unsure' = FALSE
  /\ sweep' = [sweep EXCEPT !.pc = "waiting"]

Dispatch(d) ==
  /\ order' = [state |-> "sent", description |-> d, done |-> 0]
  /\ unsure' = TRUE
  /\ sweep' = [sweep EXCEPT !.pc = "waiting"]
  /\ UNCHANGED applied

(***************************************************************************)
(* Its other reads, instances and users, and the rest of sync_host up to   *)
(* the call.  Halves of different times may fail network.check.            *)
(***************************************************************************)
ReadUsersAndSend ==
  LET d == [slots |-> sweep.slots, users |-> db.users] IN
  /\ sweep.pc = "users"
  /\ \/ /\ d = applied \/ sweep.slots # db.slots
        /\ sweep' = AtRest
        /\ UNCHANGED <<order, applied, unsure>>
     \/ /\ d # applied
        /\ Dispatch(d)
  /\ UNCHANGED <<db, boots, machine, boot, edits, faults>>

(* The machine's fence admits the order, or it finishes one more step. *)
Apply ==
  /\ order # Nothing
  /\ \/ order.state = "sent"
        /\ order' = [order EXCEPT !.state = "applying"]
        /\ UNCHANGED machine
     \/ order.state = "applying" /\ order.done < 4
        /\ machine' = [machine EXCEPT ![Steps[order.done + 1]] = order.description]
        /\ order' = [order EXCEPT !.done = @ + 1]
  /\ UNCHANGED <<db, applied, boots, sweep, boot, unsure, edits, faults>>

(* The answer NetworkApplied reaches sync_host. *)
Acknowledge ==
  /\ order # Nothing
  /\ order.done = 4
  /\ sweep.pc = "waiting"
  /\ applied' = order.description
  /\ unsure' = FALSE
  /\ order' = Nothing
  /\ sweep' = AtRest
  /\ UNCHANGED <<db, boots, machine, boot, edits, faults>>

(***************************************************************************)
(* The order is refused, lost, or fails at one of its steps.  sync_host    *)
(* returns the error; the steps that were done stay done.                  *)
(***************************************************************************)
Fail ==
  /\ order # Nothing
  /\ sweep.pc = "waiting"
  /\ faults < MaxFaults
  /\ order' = Nothing
  /\ sweep' = AtRest
  /\ faults' = faults + 1
  /\ UNCHANGED <<db, applied, boots, machine, boot, unsure, edits>>

(* The timeout of send: the order may still go on without the controller. *)
GiveUp ==
  /\ order # Nothing
  /\ sweep.pc = "waiting"
  /\ faults < MaxFaults
  /\ sweep' = AtRest
  /\ faults' = faults + 1
  /\ UNCHANGED <<db, applied, boots, order, machine, boot, unsure, edits>>

(* An order nobody waits for is dropped with its connection, or was finished. *)
Abandoned ==
  /\ order # Nothing
  /\ sweep.pc # "waiting"
  /\ order' = Nothing
  /\ UNCHANGED <<db, applied, boots, sweep, machine, boot, unsure, edits, faults>>

(* An order, or its answer, that is on its way while the machine reboots. *)
OnTheWire == order # Nothing /\ (order.state = "sent" \/ order.done = 4)

(* The machine reboots: only libvirt's networks are still there. *)
Reboot ==
  /\ boot < MaxReboots
  /\ boot' = boot + 1
  /\ machine' = [p \in Parts |-> IF p = "bridges" THEN machine[p] ELSE Nothing]
  /\ \/ OnTheWire /\ UNCHANGED <<order, sweep>>
     \/ /\ order' = Nothing
        /\ sweep' = IF sweep.pc = "waiting" THEN AtRest ELSE sweep
  /\ UNCHANGED <<db, applied, boots, unsure, edits, faults>>

(* A new controller process: both maps start empty. *)
RestartController ==
  /\ faults < MaxFaults
  /\ faults' = faults + 1
  /\ applied' = Nothing
  /\ boots' = Nothing
  /\ sweep' = AtRest
  /\ UNCHANGED <<db, order, machine, boot, unsure, edits>>

Next ==
  \/ \E half \in {"slots", "users"}, v \in Versions : Edit(half, v)
  \/ Poll
  \/ NoteBoot
  \/ ReadSlots
  \/ ReadUsersAndSend
  \/ Apply
  \/ Acknowledge
  \/ Fail
  \/ GiveUp
  \/ Abandoned
  \/ Reboot
  \/ RestartController

(***************************************************************************)
(* The ticker of PollTask::run keeps sweeping, a machine carries out what  *)
(* it admitted, and an order without a connection ends.  Orders fail and   *)
(* machines reboot finitely often (the bounds); Edit has no fairness.      *)
(***************************************************************************)
Sweeping == Poll \/ NoteBoot \/ ReadSlots \/ ReadUsersAndSend \/ Acknowledge

Spec == Init /\ [][Next]_vars /\ WF_vars(Sweeping) /\ WF_vars(Apply) /\ WF_vars(Abandoned)
------------------------------------------------------------------------------
SweepRecord == [pc : {"idle", "polled", "slots", "users", "waiting"},
                boot : Nat, slots : Versions]
OrderRecord == [state : {"sent", "applying"}, description : Description, done : 0..4]

(* Every variable keeps its type. *)
TypeOK ==
  /\ db \in Description
  /\ applied \in Description \cup {Nothing}
  /\ boots \in Nat \cup {Nothing}
  /\ sweep \in SweepRecord
  /\ order \in OrderRecord \cup {Nothing}
  /\ machine \in [Parts -> Description \cup {Nothing}]
  /\ boot \in Nat
  /\ unsure \in BOOLEAN
  /\ edits \in Nat
  /\ faults \in Nat

(***************************************************************************)
(* The digest in `applied` tells the truth about the machine, as long as   *)
(* its boot id is the noted one and every order sent since was answered:   *)
(* what note_boot leaves in the cache is installed in full.                *)
(***************************************************************************)
CacheIsTrue ==
  applied # Nothing /\ ~unsure /\ boots = boot =>
    \A p \in Parts : machine[p] = applied

(***************************************************************************)
(* MULTI-NODE 8.3 and the comment of apply_network: a machine that answers *)
(* ARP for the users of a description has the routes of that description,  *)
(* or of a later one, through failed, torn and interrupted applies and     *)
(* reboots.  (Stated for databases that do not go back.)                   *)
(***************************************************************************)
ArpFollowsRoutes ==
  machine["arp"] # Nothing =>
    /\ machine["routes"] # Nothing
    /\ machine["arp"].users <= machine["routes"].users
    /\ machine["arp"].slots <= machine["routes"].slots

(***************************************************************************)
(* "A machine therefore converges by being told the whole answer again":   *)
(* once the database rests, the whole of what it describes is installed    *)
(* and stays so, whatever was missed, torn, half applied or erased by a    *)
(* reboot before.                                                          *)
(***************************************************************************)
Converges == <>[](\A p \in Parts : machine[p] = db)
==============================================================================
