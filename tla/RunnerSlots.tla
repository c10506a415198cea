---------------------------- MODULE RunnerSlots ------------------------------
(***************************************************************************)
(* Runner slots: every user's /24 is divided by one deployment-wide prefix *)
(* into slots, each slot has one owning host, and the address of an        *)
(* instance alone says which host runs it.  The module has the store's     *)
(* transactions on slots (crates/store/src/runners.rs, hosts.rs), the      *)
(* operator's `bentod slots` commands, and the create that reads the       *)
(* prefix, the slots and the used addresses one after the other before it  *)
(* inserts its row.                                                        *)
(*                                                                         *)
(* Addresses are host octets of one user's /24, divided into the eight     *)
(* cells of a /27.  Another user's /24 is another instance of this module  *)
(* with the same owners.  The code only ever writes the state 'active'.    *)
(***************************************************************************)
EXTENDS Integers, FiniteSetsExt

CONSTANTS Hosts,         \* machines with an underlay address
          LocalHost,     \* the controller's own machine
          NoHost,        \* no row in runner_slots
          Instances,
          Operators,     \* shells that run `bentod slots set-prefix`
          Prefixes,      \* bound: the prefixes an operator asks for
          Cell           \* addresses in a /27 (32 in the code)

ASSUME SlotsAssumption ==
  /\ LocalHost \in Hosts
  /\ NoHost \notin Hosts
  /\ Prefixes \subseteq Nat
  /\ Cell \in Nat \ {0}

VARIABLES prefix,        \* deployment.runner_prefix
          owner,         \* runner_slots.owner_host_id, by slot
          asked,         \* the prefix each operator's command goes on to set
          instance       \* the instances: how far a create is, then the row

vars == <<prefix, owner, asked, instance>>

Slots == 0..7
Octets == 0..(8 * Cell - 1)

(* slot_count: 1 << (prefix - 24). *)
Count(p) == IF p = 24 THEN 1 ELSE IF p = 25 THEN 2 ELSE IF p = 26 THEN 4 ELSE 8

(* octet >> shift, as the cell's number over the cells per slot. *)
SlotOf(a, p) == (a \div Cell) \div (8 \div Count(p))

Width(p) == Cell * (8 \div Count(p))

(* Slots::assignable: not the first or last of a slot, .0, .1 or .255. *)
Assignable(s, p) ==
  {a \in Octets : /\ a > s * Width(p) /\ a < s * Width(p) + Width(p) - 1
                  /\ a >= 2 /\ a <= 8 * Cell - 2}

Row(i) == instance[i].stage = "row"
Used == {instance[j].address : j \in {k \in Instances : Row(k)}}
BeingCreated(i) == instance[i].stage \in {"placed", "choosing", "addressed"}

(* Who gets the packets for an address. *)
OwnerOf(a, own, p) == own[SlotOf(a, p)]

Absent == [stage |-> "none", host |-> NoHost, read |-> 24, owned |-> {},
           slot |-> 0, address |-> 0, overlapped |-> FALSE]

Init ==
  /\ prefix = 24
  /\ owner = [s \in Slots |-> NoHost]
  /\ asked = [k \in Operators |-> 24]
  /\ instance = [i \in Instances |-> Absent]

(* ensure_host at the start of `serve`: with no slot at all, slot 0 is ours. *)
EnsureHost ==
  /\ \A s \in Slots : owner[s] = NoHost
  /\ owner' = [owner EXCEPT ![0] = LocalHost]
  /\ UNCHANGED <<prefix, asked, instance>>

(* Mutant of InRange: any number is a prefix. *)
AnyNumber(p) == TRUE

(* The range check of set_runner_prefix, before its transaction. *)
InRange(p) == p \in 24..27

(***************************************************************************)
(* set_prefix of the command line: it reads the prefix and goes on only to *)
(* widen it, to a prefix in range.                                         *)
(***************************************************************************)
AskPrefix(k, p) ==
  /\ asked[k] = 24
  /\ p > prefix
  /\ InRange(p)
  /\ asked' = [asked EXCEPT ![k] = p]
  /\ UNCHANGED <<prefix, owner, instance>>

Stranded(new) == \E s \in Slots : owner[s] # NoHost /\ s >= Count(new)

(* Mutant of Renumbered: the children of a slot are numbered across, not side by side. *)
RenumberedAcross(new) ==
  [s \in Slots |-> IF s < Count(new) THEN owner[s % Count(prefix)] ELSE NoHost]

SplitsOwners(new) ==
  LET ratio == Count(prefix) \div Count(new) IN
  \E s, t \in Slots : /\ s \div ratio = t \div ratio
                      /\ owner[s] # NoHost /\ owner[t] # NoHost
                      /\ owner[s] # owner[t]

(* renumber_slots: a child keeps its parent's owner, a parent its children's. *)
Renumbered(new) ==
  [s \in Slots |->
     IF new >= prefix
     THEN IF s < Count(new) THEN owner[s \div (Count(new) \div Count(prefix))] ELSE NoHost
     ELSE LET ratio == Count(prefix) \div Count(new)
              merged == {t \in Slots : t \div ratio = s /\ owner[t] # NoHost}
          IN IF merged = {} THEN NoHost ELSE owner[CHOOSE t \in merged : TRUE]]

(* The triggers on instances: the host of a row owns the row's slot. *)
TriggerAllows(own, host, slot) == own[slot] = host

(***************************************************************************)
(* set_runner_prefix, one transaction.  It reads the prefix again, so the  *)
(* command that meant to widen may find itself narrowing.  Every row gets  *)
(* the slot that holds its address; a row the trigger refuses, stranded    *)
(* slots or a merge of two owners roll everything back.                    *)
(***************************************************************************)
SetPrefix(k) ==
  LET new == asked[k]
      own == Renumbered(new)
      done == /\ ~Stranded(new)
              /\ new >= prefix \/ ~SplitsOwners(new)
              /\ \A i \in Instances :
                   Row(i) /\ new # prefix =>
                     TriggerAllows(own, instance[i].host, SlotOf(instance[i].address, new))
  IN
  /\ new # 24
  /\ asked' = [asked EXCEPT ![k] = 24]
  /\ IF done
     THEN /\ prefix' = new
          /\ owner' = own
          /\ instance' = [i \in Instances |->
               IF new = prefix THEN instance[i]
               ELSE IF Row(i)
               THEN [instance[i] EXCEPT !.slot = SlotOf(instance[i].address, new),
                                        !.overlapped = FALSE]
               ELSE IF BeingCreated(i) THEN [instance[i] EXCEPT !.overlapped = TRUE]
               ELSE instance[i]]
     ELSE UNCHANGED <<prefix, owner, instance>>

(* Mutant of Occupied: the stored slot number decides, not the address. *)
OccupiedByNumber(s, h) ==
  \E i \in Instances : Row(i) /\ instance[i].host # h /\ instance[i].slot = s

(* claim_slot: a host other than h has a live address in the slot. *)
Occupied(s, h) ==
  \E i \in Instances : Row(i) /\ instance[i].host # h /\ SlotOf(instance[i].address, prefix) = s

(* `bentod slots give`: claim_slot, one transaction. *)
Give(s, h) ==
  /\ s < Count(prefix)
  /\ ~Occupied(s, h)
  /\ owner' = [owner EXCEPT ![s] = h]
  /\ UNCHANGED <<prefix, asked, instance>>

(* allocate_in_owned_slot, its first read: the prefix. *)
BeginCreate(i, h) ==
  /\ instance[i].stage = "none"
  /\ instance' = [instance EXCEPT ![i] = [Absent EXCEPT !.stage = "placed", !.host = h, !.read = prefix]]
  /\ UNCHANGED <<prefix, owner, asked>>

(* Its second read: the slots the host owns.  None: NoSlotForHost. *)
ReadSlots(i) ==
  LET owned == {s \in Slots : owner[s] = instance[i].host} IN
  /\ instance[i].stage = "placed"
  /\ instance' = [instance EXCEPT ![i] = IF owned = {} THEN Absent
                                         ELSE [@ EXCEPT !.stage = "choosing", !.owned = owned]]
  /\ UNCHANGED <<prefix, owner, asked>>

(* Mutant of Free: the range of a slot starts at its network address. *)
FreeFromTheFirst(s, p) ==
  {a \in Octets : a >= s * Width(p) - 1 /\ a < s * Width(p) + Width(p) /\ a >= 2} \ Used

Free(s, p) == Assignable(s, p) \ Used

(***************************************************************************)
(* allocate_address in the lowest slot left: a slot number that the prefix *)
(* read before does not have is an error; a full slot is passed over.      *)
(***************************************************************************)
TrySlot(i) ==
  LET s == Min(instance[i].owned)
      free == Free(s, instance[i].read)
      left == instance[i].owned \ {s}
  IN
  /\ instance[i].stage = "choosing"
  /\ instance' = [instance EXCEPT ![i] =
       IF s >= Count(instance[i].read) \/ (free = {} /\ left = {}) THEN Absent
       ELSE IF free = {} THEN [@ EXCEPT !.owned = left]
       ELSE [@ EXCEPT !.stage = "addressed", !.owned = {},
                      !.slot = s, !.address = Min(free)]]
  /\ UNCHANGED <<prefix, owner, asked>>

(* create_instance: UNIQUE on the address, the trigger on the slot. *)
Insert(i) ==
  /\ instance[i].stage = "addressed"
  /\ instance' = [instance EXCEPT ![i] =
       IF instance[i].address \notin Used /\ TriggerAllows(owner, instance[i].host, instance[i].slot)
       THEN [@ EXCEPT !.stage = "row"]
       ELSE Absent]
  /\ UNCHANGED <<prefix, owner, asked>>

Delete(i) ==
  /\ Row(i)
  /\ instance' = [instance EXCEPT ![i] = Absent]
  /\ UNCHANGED <<prefix, owner, asked>>

Next ==
  \/ EnsureHost
  \/ \E k \in Operators, p \in Prefixes : AskPrefix(k, p)
  \/ \E k \in Operators : SetPrefix(k)
  \/ \E s \in Slots, h \in Hosts : Give(s, h)
  \/ \E i \in Instances, h \in Hosts : BeginCreate(i, h)
  \/ \E i \in Instances : ReadSlots(i)
  \/ \E i \in Instances : TrySlot(i)
  \/ \E i \in Instances : Insert(i)
  \/ \E i \in Instances : Delete(i)

Spec == Init /\ [][Next]_vars
------------------------------------------------------------------------------
InstanceRecord ==
  [stage : {"none", "placed", "choosing", "addressed", "row"},
   host : Hosts \cup {NoHost}, read : 24..27, owned : SUBSET Slots,
   slot : Slots, address : Octets, overlapped : BOOLEAN]

(* Every variable keeps its type. *)
TypeOK ==
  /\ prefix \in 24..27
  /\ owner \in [Slots -> Hosts \cup {NoHost}]
  /\ asked \in [Operators -> 24..27]
  /\ instance \in [Instances -> InstanceRecord]

(***************************************************************************)
(* MULTI-NODE 5, rules 5 and 6, for every create that no change of prefix  *)
(* overlapped: the row names the slot that holds its address, and the      *)
(* row's host owns that slot, whatever slots are given away, split or      *)
(* merged before and after.                                                *)
(***************************************************************************)
RowsAreInOwnedSlots ==
  \A i \in Instances :
    Row(i) /\ ~instance[i].overlapped =>
      /\ instance[i].slot = SlotOf(instance[i].address, prefix)
      /\ owner[instance[i].slot] = instance[i].host

(* The same for every row. *)
EveryRowIsInAnOwnedSlot ==
  \A i \in Instances :
    Row(i) =>
      /\ instance[i].slot = SlotOf(instance[i].address, prefix)
      /\ owner[instance[i].slot] = instance[i].host

(***************************************************************************)
(* Once the packets of an instance go to its own host they keep going      *)
(* there: neither claim_slot nor a change of prefix takes a live address   *)
(* away, also when the row's slot number is stale.                         *)
(***************************************************************************)
NobodyLosesTheirAddress ==
  [][\A i \in Instances :
       Row(i) /\ Row(i)' /\ OwnerOf(instance[i].address, owner, prefix) = instance[i].host =>
         OwnerOf(instance'[i].address, owner', prefix') = instance[i].host]_vars

(***************************************************************************)
(* A change of prefix renumbers slots and moves no address to another      *)
(* owner, whether it splits slots or merges them (renumber_slots).         *)
(***************************************************************************)
RenumberingKeepsOwners ==
  [][prefix' # prefix =>
       \A a \in Octets : OwnerOf(a, owner, prefix) # NoHost =>
         OwnerOf(a, owner', prefix') = OwnerOf(a, owner, prefix)]_vars
==============================================================================
