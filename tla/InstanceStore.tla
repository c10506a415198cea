---------------------------- MODULE InstanceStore ----------------------------
(***************************************************************************)
(* The instances and released_names tables (crates/store/src/instances.rs, *)
(* names.rs), as operators on their contents.  Every operator stands for   *)
(* what one transaction reads or writes, so a caller applies it in one     *)
(* step.  "rows" maps a UUID to its row or to NoRow; "released" maps a     *)
(* name to the owner who released it less than one cooldown ago, or to     *)
(* Nobody.  A release row outlives its cooldown in the database, but then  *)
(* decides nothing, and is Nobody here.                                    *)
(***************************************************************************)
EXTENDS Integers, FiniteSets, Functions

CONSTANTS Uuid,        \* instance UUIDs, each minted at most once
          Owner,       \* users
          Name,        \* instance names
          Host,        \* machines
          Memory,      \* memory sizes a request may ask for
          Disk,        \* disk sizes a request may ask for
          MemCeiling,  \* committed memory a machine accepts
          DiskCeiling, \* committed disk a machine accepts
          NoRow, Nobody

Row ==
  [name : Name, owner : Owner, host : Host, mem : Memory, disk : Disk,
   state : {"running", "stopped", "starting"}, desired : {"running", "stopped"}]

Live(rows) == {u \in Uuid : rows[u] # NoRow}

Named(rows, n) == {u \in Live(rows) : rows[u].name = n}

\* claim_name_tx: no live instance has the name, and whoever released it
\* lately, if anyone, is the claimant.
ClaimOk(rows, released, n, o) ==
  Named(rows, n) = {} /\ released[n] \in {Nobody, o}

\* check_capacity_tx: the sums over the machine's rows, one UUID left out.
CapacityOk(rows, h, except, m, d) ==
  LET others == {u \in Live(rows) \ except : rows[u].host = h}
  IN /\ SumFunction([u \in others |-> rows[u].mem]) + m <= MemCeiling
     /\ SumFunction([u \in others |-> rows[u].disk]) + d <= DiskCeiling

\* create_instance: claim, capacity and insert are one transaction.
CreateOk(rows, released, row) ==
  /\ ClaimOk(rows, released, row.name, row.owner)
  /\ CapacityOk(rows, row.host, {}, row.mem, row.disk)

Inserted(rows, u, row) == [rows EXCEPT ![u] = row]

\* delete_instance: the row goes and its name enters cooldown together.
Deleted(rows, u) == [rows EXCEPT ![u] = NoRow]

ReleasedBy(released, row) == [released EXCEPT ![row.name] = row.owner]

\* rename_instance: claim the new name, write it, release the old one.
RenameOk(rows, released, u, n) ==
  /\ rows[u] # NoRow
  /\ \/ rows[u].name = n
     \/ ClaimOk(rows, released, n, rows[u].owner)

RenamedRows(rows, u, n) == [rows EXCEPT ![u].name = n]

RenamedReleases(rows, released, u, n) ==
  IF rows[u].name = n THEN released ELSE ReleasedBy(released, rows[u])

\* check_resize, and the same check again inside resize.
ResizeOk(rows, u, m, d) ==
  rows[u] # NoRow /\ CapacityOk(rows, rows[u].host, {u}, m, d)

\* Mutant of ResizedRows: the new memory is added to the old.
AddedRows(rows, u, m, d) == [rows EXCEPT ![u].mem = @ + m, ![u].disk = d]

ResizedRows(rows, u, m, d) == [rows EXCEPT ![u].mem = m, ![u].disk = d]

\* set_desired_state and set_observed_state: an UPDATE by UUID.
SetDesired(rows, u, s) == [rows EXCEPT ![u].desired = s]

SetObserved(rows, u, s) ==
  IF rows[u] = NoRow THEN rows ELSE [rows EXCEPT ![u].state = s]

\* update_observed_states: one transaction over a listing; rows of UUIDs the
\* listing does not hold, and UUIDs without a row, are left alone.
ObservedAll(rows, listing) ==
  [u \in Uuid |-> IF rows[u] # NoRow /\ u \in DOMAIN listing
                  THEN [rows[u] EXCEPT !.state = listing[u]] ELSE rows[u]]

InstancesOnHost(rows, h) == {u \in Live(rows) : rows[u].host = h}

\* instances_to_restore: wanted running, last seen stopped.
InstancesToRestore(rows, h) ==
  {u \in InstancesOnHost(rows, h) :
     rows[u].desired = "running" /\ rows[u].state = "stopped"}
=============================================================================
