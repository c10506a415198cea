------------------------------ MODULE Lifecycle ------------------------------
(***************************************************************************)
(* The lifecycle manager (crates/lifecycle) over the instance store, this  *)
(* machine's libvirt and a runner, with everything in bentod that runs it: *)
(* the requests of the control plane and of the SSH frontend (two          *)
(* processes, each with a manager of its own and no lock between them),    *)
(* the restore after a boot, the poll of this machine, and the poll of the *)
(* runner.  A step is one store transaction, one libvirt operation, one    *)
(* order to the runner or one file operation; an operation keeps what it   *)
(* read (its copy of the row above all) in its own locals until it ends.   *)
(*                                                                         *)
(* An order to a runner can fail in three ways the caller cannot tell      *)
(* apart: it never arrived, its answer was lost, or it is still to arrive  *)
(* ("late").  A newer order for the same instance voids a late one, by the *)
(* fence of RunnerFence.                                                   *)
(***************************************************************************)
EXTENDS InstanceStore

CONSTANTS NoDomain,
          Local,       \* the machine of the control plane
          Slot,        \* request slots: "api" and "sshd"
          Existing,    \* instances present at the start
          Settled,     \* rows they may have then
          NewSize,     \* sizes a create asks for, as [mem, disk]
          Size,        \* sizes a copy or a resize asks for
          BatchSize,   \* restore_batch_size
          MaxRequests, \* bound on user requests
          MaxFaults    \* bound on crashes, reboots, failures, guest halts
                       \* and ends of a cooldown

INSTANCE HypervisorClient

\* What the code's types and the database's constraints make of the constants,
\* and that UUIDs, machines and the names of steps are different things.
ASSUME LifecycleAssumption ==
  /\ IsFiniteSet(Uuid) /\ Existing \subseteq Uuid /\ Local \in Host
  /\ Memory \subseteq Nat /\ Disk \subseteq Nat \ {0}
  /\ MemCeiling \in Nat /\ DiskCeiling \in Nat
  /\ NewSize \cup Size \subseteq [mem : Memory, disk : Disk]
  /\ Settled \subseteq Row /\ NoRow \notin Row /\ NoDomain \notin Domain
  /\ MaxRequests \in Nat /\ MaxFaults \in Nat
  /\ Uuid \cap Host = {}
  /\ (Uuid \cup Host) \cap {"none", "listed", "boots", "write", "list", "batch"} = {}

VARIABLES rows, released,      \* the database
          used,                \* UUIDs minted so far
          dom, disk, iso,      \* libvirt's domains, overlay sizes (0: none), seeds
          late,                \* orders a runner has not seen yet, at most one
          task,                \* the request each slot is serving
          poll, restore,       \* the background tasks
          asked, faults,       \* how much of each bound is spent
          halted, crossed,     \* history: see HaltIsPersistent
          built                \* history: see DiskCoversRow

db == <<rows, released>>
hosts == <<dom, disk, iso>>
background == <<poll, restore>>
history == <<halted, crossed, built>>
vars == <<rows, released, used, dom, disk, iso, late, task, poll, restore,
          asked, faults, halted, crossed, built>>

None == "none"
Idle == [op |-> None, at |-> None]
Quiet == [at |-> None]

Order(kind, h, u, n) == [kind |-> kind, host |-> h, u |-> u, name |-> n,
                         prev |-> n, mem |-> 0, disk |-> 0]

-----------------------------------------------------------------------------
(* What a machine does with an order (bentod/src/runnerd.rs), as the set   *)
(* of its outcomes.  The manager's local paths run the same steps.         *)

Outcome(code, doms, disks, isos) ==
  [code |-> code, dom |-> doms, disk |-> disks, iso |-> isos]

Refused(code) == {Outcome(code, dom, disk, iso)}

\* start: libvirt refuses a domain that runs or that has no files.
HostStart(o) ==
  LET found == Lookup(dom, o.host, o.name)
  IN IF found = {} THEN Refused("notfound")
     ELSE IF \E v \in found : ~On(dom, v) /\ Bootable(dom, v, disk, iso)
          THEN {Outcome("ok", Powered(dom, v, TRUE), disk, iso) : v \in found}
          ELSE Refused("error")

\* stop: shutdown, wait, destroy after the grace period; the effect is the
\* moment the guest is off, however it got there.
HostStop(o) ==
  LET found == Lookup(dom, o.host, o.name)
  IN IF found = {} THEN Refused("notfound")
     ELSE {Outcome("ok", Powered(dom, v, FALSE), disk, iso) : v \in found}

HostReboot(o) ==
  LET found == Lookup(dom, o.host, o.name)
  IN IF found = {} THEN Refused("notfound")
     ELSE IF \E v \in found : On(dom, v) THEN Refused("ok") ELSE Refused("error")

\* remove, on libvirt alone: what the manager asks of its own machine.
DomainRemove(o) ==
  LET found == Lookup(dom, o.host, o.name)
  IN IF found = {} THEN Refused("notfound")
     ELSE {Outcome("ok", Undefined(dom, v), disk, iso) : v \in found}

\* remove, on a runner: the domain first, then the files of the UUID.
HostRemove(o) ==
  {IF r.code = "ok"
   THEN Outcome("ok", r.dom, [disk EXCEPT ![o.u] = 0], [iso EXCEPT ![o.u] = FALSE])
   ELSE r : r \in DomainRemove(o)}

\* provision: overlay, seed, define and start; a failure unwinds the files.
HostProvision(o) ==
  LET made == Define(dom, o.host, o.u, o.name, o.mem, TRUE)
      gone == {Outcome("error", d, [disk EXCEPT ![o.u] = 0], [iso EXCEPT ![o.u] = FALSE]) :
                 d \in CreateFailures(dom, o.host, o.u, o.name, o.mem, TRUE)}
  IN gone \cup IF DefineOk(dom, o.host, o.u, o.name)
               THEN {Outcome("ok", Powered(made, o.u, TRUE), [disk EXCEPT ![o.u] = o.disk],
                             [iso EXCEPT ![o.u] = TRUE])}
               ELSE {}

\* redefine in place, or rename_domain: undefine the stopped old name, define
\* the new one, and define the old one again when that fails.
HostRedefine(o) ==
  LET old == Lookup(dom, o.host, o.prev)
      cleared == IF old = {} THEN dom ELSE Undefined(dom, CHOOSE v \in old : TRUE)
      base == IF o.prev = o.name THEN dom ELSE cleared
  IN IF o.prev # o.name /\ \E v \in old : On(dom, v) THEN Refused("error")
     ELSE IF DefineOk(base, o.host, o.u, o.name)
          THEN {Outcome("ok", Define(base, o.host, o.u, o.name, o.mem, iso[o.u]), disk, iso)}
          ELSE IF o.prev # o.name /\ DefineOk(base, o.host, o.u, o.prev)
               THEN {Outcome("error", Define(base, o.host, o.u, o.prev, o.mem, iso[o.u]), disk, iso)}
               ELSE {Outcome("error", base, disk, iso)}

\* resize_disk: qemu-img grows a file that exists and refuses to shrink one.
HostResizeDisk(o) ==
  IF disk[o.u] > 0 /\ o.disk >= disk[o.u]
  THEN {Outcome("ok", dom, [disk EXCEPT ![o.u] = o.disk], iso)}
  ELSE Refused("error")

Perform(o) ==
  CASE o.kind = "start" -> HostStart(o)
    [] o.kind = "stop" -> HostStop(o)
    [] o.kind = "reboot" -> HostReboot(o)
    [] o.kind = "remove" /\ o.host = Local -> DomainRemove(o)
    [] o.kind = "remove" /\ o.host # Local -> HostRemove(o)
    [] o.kind = "provision" -> HostProvision(o)
    [] o.kind = "redefine" -> HostRedefine(o)
    [] o.kind = "grow" -> HostResizeDisk(o)

Fault == faults < MaxFaults /\ faults' = faults + 1
NoFault == UNCHANGED faults

\* InstanceSync::change addresses the UUID the inventory has under the name.
Addressed(o) ==
  IF o.kind \in {"start", "stop", "reboot", "remove"} /\ Lookup(dom, o.host, o.name) # {}
  THEN [o EXCEPT !.u = CHOOSE v \in Lookup(dom, o.host, o.name) : TRUE] ELSE o

\* The answers the caller of a machine can get, with what they leave behind.
\* An answer that does not come is an error to the caller, whatever the
\* machine did or will do.
Answer(code, r, pending, cost) ==
  [code |-> code, dom |-> r.dom, disk |-> r.disk, iso |-> r.iso,
   late |-> pending, cost |-> cost]

\* What a call that fails on the machine leaves behind: nothing, or, for a
\* stop or a remove that failed after its first libvirt call, the guest off.
PartWay(o) ==
  Refused("error") \cup
    IF o.kind \in {"stop", "remove"}
    THEN {Outcome("error", Powered(dom, v, FALSE), disk, iso) : v \in Lookup(dom, o.host, o.name)}
    ELSE {}

Answers(o) ==
  LET to == Addressed(o)
      same == Outcome("error", dom, disk, iso)
      voids == {l \in late : l.u # to.u}
      heard == {Answer(r.code, r, voids, 0) : r \in Perform(to)}
      failed == {Answer("error", r, late, 1) : r \in PartWay(to)}
      unheard == {Answer("error", r, voids, 1) : r \in Perform(to)}
      delayed == IF late = {} THEN {Answer("error", same, {to}, 1)} ELSE {}
  IN heard \cup IF faults = MaxFaults THEN {}
                ELSE failed \cup IF o.host = Local THEN {} ELSE unheard \cup delayed

Take(a) ==
  /\ dom' = a.dom /\ disk' = a.disk /\ iso' = a.iso /\ late' = a.late
  /\ faults' = faults + a.cost

\* An instance that runs again is no longer halted by its user.
Woken == halted' = {u \in halted : ~On(dom', u)}

\* A late order arrives after its caller gave up on it.
LateOrder ==
  /\ \E o \in late : \E r \in Perform(o) : Take(Answer(r.code, r, {}, 0))
  /\ Woken
  /\ UNCHANGED <<db, used, task, background, asked, crossed, built>>

-----------------------------------------------------------------------------
(* Requests.  A request takes a free slot and reads the row it is about;   *)
(* every later step uses that copy.                                        *)

Goto(t, at) == task' = [task EXCEPT ![t].at = at]
End(t) == task' = [task EXCEPT ![t] = Idle]
At(t, op, at) == task[t].op = op /\ task[t].at = at

Ask(t, request) ==
  /\ task[t] = Idle
  /\ asked < MaxRequests /\ asked' = asked + 1
  /\ task' = [task EXCEPT ![t] = request]

\* Manager::start, stop, restart, remove, start_for_connection begin alike.
AskFor(t, op, u) ==
  /\ rows[u] # NoRow
  /\ Ask(t, [op |-> op, at |-> "called", u |-> u, row |-> rows[u]])
  /\ crossed' = crossed \ {t}
  /\ UNCHANGED <<db, used, hosts, late, background, faults, halted, built>>

OrderOf(t, kind) == Order(kind, task[t].row.host, task[t].u, task[t].row.name)

\* The write of an observed state that ends start, stop, new and cp.
Record(t, op, s) ==
  /\ At(t, op, "record")
  /\ rows' = SetObserved(rows, task[t].u, s)
  /\ End(t)
  /\ UNCHANGED <<released, used, hosts, late, background, asked, faults, history>>

StartDomain(t) ==
  /\ At(t, "start", "called") \/ At(t, "connect", "called")
  /\ \E a \in Answers(OrderOf(t, "start")) :
       /\ Take(a)
       /\ IF a.code = "ok" /\ task[t].op = "start" THEN Goto(t, "desire") ELSE End(t)
  /\ Woken
  /\ UNCHANGED <<db, used, background, asked, crossed, built>>

\* A desired state written while a stop of the same instance is between its
\* own write and its effect: the two requests crossed.
Crossing(u) ==
  crossed' = crossed \cup {s \in Slot : At(s, "stop", "stopping") /\ task[s].u = u}

Desire(t, op, next) ==
  /\ At(t, op, "desire")
  /\ IF rows[task[t].u] = NoRow
     THEN End(t) /\ UNCHANGED <<rows, crossed>>
     ELSE /\ rows' = SetDesired(rows, task[t].u, "running")
          /\ Crossing(task[t].u)
          /\ IF next = None THEN End(t) ELSE Goto(t, next)
  /\ halted' = halted \ {task[t].u}
  /\ UNCHANGED <<released, used, hosts, late, background, asked, faults, built>>

StartDesired(t) == Desire(t, "start", "record")

StartRecord(t) == Record(t, "start", "running")

\* Mutant of StopDesired: the wish is left for after the stop.
StopUnwritten(t) ==
  /\ At(t, "stop", "called")
  /\ Goto(t, "stopping")
  /\ UNCHANGED <<db, used, hosts, late, background, asked, faults, history>>

\* stop writes the wish before it touches the guest.
StopDesired(t) ==
  /\ At(t, "stop", "called")
  /\ IF rows[task[t].u] = NoRow
     THEN End(t) /\ UNCHANGED rows
     ELSE /\ rows' = SetDesired(rows, task[t].u, "stopped")
          /\ Goto(t, "stopping")
  /\ UNCHANGED <<released, used, hosts, late, background, asked, faults, history>>

StopDomain(t) ==
  /\ At(t, "stop", "stopping")
  /\ \E a \in Answers(OrderOf(t, "stop")) :
       /\ Take(a)
       /\ IF a.code = "ok" THEN Goto(t, "record") ELSE End(t)
       /\ halted' = IF a.code = "ok" /\ t \notin crossed
                    THEN halted \cup ({task[t].u} \cap Lookup(dom, task[t].row.host, task[t].row.name))
                    ELSE halted
  /\ UNCHANGED <<db, used, background, asked, crossed, built>>

StopRecord(t) == Record(t, "stop", "stopped")

RestartReboot(t) ==
  /\ At(t, "restart", "called")
  /\ \E a \in Answers(OrderOf(t, "reboot")) :
       /\ Take(a)
       /\ IF a.code = "ok" THEN Goto(t, "desire") ELSE End(t)
  /\ Woken
  /\ UNCHANGED <<db, used, background, asked, crossed, built>>

RestartDesired(t) == Desire(t, "restart", None)

\* remove: domain, files, then the row with its name.  A domain that is not
\* there does not stop the removal.
RemoveDomain(t) ==
  /\ At(t, "remove", "called")
  /\ \E a \in Answers(OrderOf(t, "remove")) :
       /\ Take(a)
       /\ IF a.code = "error" THEN End(t) ELSE Goto(t, "files")
  /\ Woken
  /\ UNCHANGED <<db, used, background, asked, crossed, built>>

\* Fleet::deprovision: the files of this machine; a runner's are its own.  A
\* failure is only logged, and the files stay.
RemoveFiles(t) ==
  /\ At(t, "remove", "files")
  /\ \/ /\ task[t].row.host = Local /\ NoFault
        /\ disk' = [disk EXCEPT ![task[t].u] = 0] /\ iso' = [iso EXCEPT ![task[t].u] = FALSE]
     \/ (IF task[t].row.host = Local THEN Fault ELSE NoFault) /\ UNCHANGED <<disk, iso>>
  /\ Goto(t, "row")
  /\ UNCHANGED <<db, used, dom, late, background, asked, history>>

DeleteRow(u) ==
  IF rows[u] = NoRow THEN UNCHANGED db
  ELSE rows' = Deleted(rows, u) /\ released' = ReleasedBy(released, rows[u])

RemoveRow(t) ==
  /\ At(t, "remove", "row")
  /\ DeleteRow(task[t].u)
  /\ End(t)
  /\ UNCHANGED <<used, hosts, late, background, asked, faults, history>>

Fresh(o, h, n, z) ==
  [name |-> n, owner |-> o, host |-> h, mem |-> z.mem, disk |-> z.disk,
   state |-> "stopped", desired |-> "running"]

\* new: place, then insert the row, then build on the machine it names.
AskNew(t, u, o, h, n, z) ==
  /\ u \notin used /\ used' = used \cup {u}
  /\ Ask(t, [op |-> "new", at |-> "insert", u |-> u, row |-> Fresh(o, h, n, z)])
  /\ UNCHANGED <<db, hosts, late, background, faults, history>>

InsertRow(t, op, next) ==
  /\ At(t, op, "insert")
  /\ IF CreateOk(rows, released, task[t].row)
     THEN rows' = Inserted(rows, task[t].u, task[t].row) /\ Goto(t, next)
     ELSE UNCHANGED rows /\ End(t)
  /\ UNCHANGED <<released, used, hosts, late, background, asked, faults, history>>

NewInsert(t) == InsertRow(t, "new", "build")

NewProvision(t) ==
  /\ At(t, "new", "build")
  /\ \E a \in Answers([OrderOf(t, "provision") EXCEPT !.mem = task[t].row.mem,
                                               !.disk = task[t].row.disk]) :
       /\ Take(a)
       /\ Goto(t, IF a.code = "ok" THEN "record" ELSE "unwind")
       /\ built' = IF a.code = "ok" THEN built \cup {task[t].u} ELSE built
  /\ Woken
  /\ UNCHANGED <<db, used, background, asked, crossed>>

\* The machine that built the instance answered with the state it saw after
\* the start; the guest may be off again.
NewRecord(t) == \E observed \in {"running", "stopped"} : Record(t, "new", observed)

\* unwind_new, and the last step of unwind_copy: the row goes.
UnwindRow(t) ==
  /\ At(t, "new", "unwind") \/ At(t, "copy", "unwind")
  /\ DeleteRow(task[t].u)
  /\ End(t)
  /\ UNCHANGED <<used, hosts, late, background, asked, faults, history>>

\* cp of a source on this machine that is off or has no domain; the disk may
\* grow and never shrink.
AskCopy(t, src, u, row) ==
  /\ u \notin used /\ used' = used \cup {u}
  /\ rows[src] # NoRow /\ rows[src].host = Local /\ row.host = Local
  /\ row.disk >= rows[src].disk
  /\ \A v \in Lookup(dom, Local, rows[src].name) : ~On(dom, v)
  /\ Ask(t, [op |-> "copy", at |-> "insert", u |-> u, row |-> row, src |-> src,
             grow |-> row.disk > rows[src].disk, whole |-> src \in built])
  /\ UNCHANGED <<db, hosts, late, background, faults, history>>

CopyInsert(t) == InsertRow(t, "copy", "file")

CopyFile(t) ==
  /\ At(t, "copy", "file")
  /\ \/ /\ disk[task[t].src] > 0 /\ NoFault
        /\ disk' = [disk EXCEPT ![task[t].u] = disk[task[t].src]]
        /\ Goto(t, IF task[t].grow THEN "grow" ELSE "seed")
     \/ /\ IF disk[task[t].src] = 0 THEN NoFault ELSE Fault
        /\ UNCHANGED disk /\ Goto(t, "files")
  /\ UNCHANGED <<db, used, dom, iso, late, background, asked, history>>

CopyGrow(t) ==
  /\ At(t, "copy", "grow")
  /\ \E a \in Answers([OrderOf(t, "grow") EXCEPT !.disk = task[t].row.disk]) :
       /\ Take(a)
       /\ Goto(t, IF a.code = "ok" THEN "seed" ELSE "files")
  /\ UNCHANGED <<db, used, background, asked, halted, crossed, built>>

CopySeed(t) ==
  /\ At(t, "copy", "seed")
  /\ \/ NoFault /\ iso' = [iso EXCEPT ![task[t].u] = TRUE] /\ Goto(t, "create")
     \/ Fault /\ UNCHANGED iso /\ Goto(t, "files")
  /\ UNCHANGED <<db, used, dom, disk, late, background, asked, history>>

CopyCreate(t) ==
  LET u == task[t].u
      row == task[t].row
      made == Define(dom, Local, u, row.name, row.mem, TRUE)
      off == CreateFailures(dom, Local, u, row.name, row.mem, TRUE)
  IN /\ At(t, "copy", "create")
     /\ \/ /\ DefineOk(dom, Local, u, row.name) /\ Bootable(made, u, disk, iso)
           /\ dom' = Powered(made, u, TRUE)
           /\ Goto(t, "record")
           /\ built' = IF task[t].whole THEN built \cup {u} ELSE built
        \/ dom' \in off /\ Goto(t, "files") /\ UNCHANGED built
     /\ UNCHANGED <<db, used, disk, iso, late, background, asked, faults, halted, crossed>>

CopyRecord(t) == Record(t, "copy", "running")

CopyUnwindFiles(t) ==
  /\ At(t, "copy", "files")
  /\ disk' = [disk EXCEPT ![task[t].u] = 0] /\ iso' = [iso EXCEPT ![task[t].u] = FALSE]
  /\ Goto(t, "unwind")
  /\ UNCHANGED <<db, used, dom, late, background, asked, faults, history>>

\* rename of an instance whose domain is off or gone.
AskRename(t, u, n) ==
  /\ rows[u] # NoRow /\ rows[u].name # n
  /\ \A v \in Lookup(dom, rows[u].host, rows[u].name) : ~On(dom, v)
  /\ Ask(t, [op |-> "rename", at |-> "label", u |-> u, row |-> rows[u], name |-> n,
             gone |-> Lookup(dom, rows[u].host, rows[u].name) = {}, iso |-> iso[u]])
  /\ UNCHANGED <<db, used, hosts, late, background, faults, history>>

\* Mutant of Relabel: the name is written without being claimed.
RelabelUnclaimed(u, n) ==
  IF rows[u] # NoRow
  THEN rows' = RenamedRows(rows, u, n) /\ released' = RenamedReleases(rows, released, u, n)
  ELSE UNCHANGED db

Relabel(u, n) ==
  IF RenameOk(rows, released, u, n)
  THEN rows' = RenamedRows(rows, u, n) /\ released' = RenamedReleases(rows, released, u, n)
  ELSE UNCHANGED db

\* The row first; the domain follows only when there is one.
RenameRow(t) ==
  LET done == task[t].gone \/ ~RenameOk(rows, released, task[t].u, task[t].name)
  IN /\ At(t, "rename", "label")
     /\ Relabel(task[t].u, task[t].name)
     /\ task' = [task EXCEPT ![t] = IF done THEN Idle
                                    ELSE [@ EXCEPT !.iso = iso[task[t].u],
                                          !.at = IF task[t].row.host = Local
                                                 THEN "undefine" ELSE "order"]]
     /\ UNCHANGED <<used, hosts, late, background, asked, faults, history>>

RenameUndefine(t) ==
  /\ At(t, "rename", "undefine")
  /\ \E a \in Answers(OrderOf(t, "remove")) :
       /\ Take(a)
       /\ Goto(t, IF a.code = "error" THEN "revert" ELSE "define")
  /\ Woken
  /\ UNCHANGED <<db, used, background, asked, crossed, built>>

\* Define the new name; when that fails, the old one again, and revert.
RenameDefine(t) ==
  LET u == task[t].u
      row == task[t].row
      new == Define(dom, Local, u, task[t].name, row.mem, task[t].iso)
      old == Define(dom, Local, u, row.name, row.mem, task[t].iso)
  IN /\ At(t, "rename", "define")
     /\ \/ NoFault /\ DefineOk(dom, Local, u, task[t].name) /\ dom' = new /\ End(t)
        \/ /\ IF DefineOk(dom, Local, u, task[t].name) THEN Fault ELSE NoFault
           /\ dom' = IF DefineOk(dom, Local, u, row.name) THEN old ELSE dom
           /\ Goto(t, "revert")
     /\ UNCHANGED <<db, used, disk, iso, late, background, asked, history>>

\* rename_elsewhere: one redefine order does both on the runner.
RenameElsewhere(t) ==
  /\ At(t, "rename", "order")
  /\ \E a \in Answers([OrderOf(t, "redefine") EXCEPT !.name = task[t].name,
                                              !.mem = task[t].row.mem]) :
       /\ Take(a)
       /\ IF a.code = "ok" THEN End(t) ELSE Goto(t, "revert")
  /\ Woken
  /\ UNCHANGED <<db, used, background, asked, crossed, built>>

\* unwind_rename: claims the old name again, and only logs a failure.
RenameRevert(t) ==
  /\ At(t, "rename", "revert")
  /\ Relabel(task[t].u, task[t].row.name)
  /\ End(t)
  /\ UNCHANGED <<used, hosts, late, background, asked, faults, history>>

\* resize: the capacity is asked first, the file grows before the row says so.
AskResize(t, u, m, d) ==
  /\ rows[u] # NoRow /\ d >= rows[u].disk /\ ResizeOk(rows, u, m, d)
  /\ Ask(t, [op |-> "resize", at |-> IF d > rows[u].disk THEN "grow" ELSE "row",
             u |-> u, row |-> rows[u], mem |-> m, disk |-> d])
  /\ UNCHANGED <<db, used, hosts, late, background, faults, history>>

\* Mutant of ResizeGrow: a grow that failed is taken for one that is done.
ResizeGrowUnchecked(t) ==
  /\ At(t, "resize", "grow")
  /\ \E a \in Answers([OrderOf(t, "grow") EXCEPT !.disk = task[t].disk]) : Take(a)
  /\ Goto(t, "row")
  /\ UNCHANGED <<db, used, background, asked, halted, crossed, built>>

ResizeGrow(t) ==
  /\ At(t, "resize", "grow")
  /\ \E a \in Answers([OrderOf(t, "grow") EXCEPT !.disk = task[t].disk]) :
       /\ Take(a)
       /\ IF a.code = "ok" THEN Goto(t, "row") ELSE End(t)
  /\ UNCHANGED <<db, used, background, asked, halted, crossed, built>>

\* Mutant of ResizeRow: the check made before the disk grew is trusted.
ResizeRowUnchecked(t) ==
  /\ At(t, "resize", "row")
  /\ IF rows[task[t].u] = NoRow
     THEN UNCHANGED rows /\ End(t)
     ELSE /\ rows' = ResizedRows(rows, task[t].u, task[t].mem, task[t].disk)
          /\ IF task[t].mem # task[t].row.mem THEN Goto(t, "redefine") ELSE End(t)
  /\ UNCHANGED <<released, used, hosts, late, background, asked, faults, history>>

ResizeRow(t) ==
  /\ At(t, "resize", "row")
  /\ IF ResizeOk(rows, task[t].u, task[t].mem, task[t].disk)
     THEN /\ rows' = ResizedRows(rows, task[t].u, task[t].mem, task[t].disk)
          /\ IF task[t].mem # task[t].row.mem THEN Goto(t, "redefine") ELSE End(t)
     ELSE UNCHANGED rows /\ End(t)
  /\ UNCHANGED <<released, used, hosts, late, background, asked, faults, history>>

ResizeRedefine(t) ==
  /\ At(t, "resize", "redefine")
  /\ \E a \in Answers([OrderOf(t, "redefine") EXCEPT !.mem = task[t].mem]) :
       Take(a)
  /\ End(t) /\ Woken
  /\ UNCHANGED <<db, used, background, asked, crossed, built>>

-----------------------------------------------------------------------------
(* The polls.  The poll of this machine: one listing, one write of it, then *)
(* the end of the first boot of each instance the listing saw running.  The *)
(* poll of a runner: its rows first, then its inventory; a row without a    *)
(* domain is stopped, and only what changed is written.  The two touch rows *)
(* of different machines, so one variable holds whichever is under way.     *)

PollList ==
  /\ poll = Quiet
  /\ poll' = [at |-> "listed", seen |-> Listing(dom, Local)]
  /\ UNCHANGED <<db, used, hosts, late, task, restore, asked, faults, history>>

\* The write, and the read of the rows to look at for their first boot.
PollWrite ==
  /\ poll.at = "listed"
  /\ rows' = ObservedAll(rows, poll.seen)
  /\ LET todo == {u \in InstancesOnHost(rows, Local) \cap DOMAIN poll.seen :
                    poll.seen[u] = "running" /\ iso[u]}
     IN poll' = IF todo = {} THEN Quiet
                ELSE [at |-> "boots", row |-> [u \in todo |-> rows'[u]]]
  /\ UNCHANGED <<released, used, hosts, late, task, restore, asked, faults, history>>

Without(f, u) == [v \in DOMAIN f \ {u} |-> f[v]]

NextBoot(u) ==
  IF DOMAIN poll.row = {u} THEN Quiet ELSE [at |-> "boots", row |-> Without(poll.row, u)]

\* finish_first_boot: while the seed exists, define the domain without it,
\* from the row the poll read, then delete it.
FirstBootDefine ==
  /\ poll.at = "boots"
  /\ \E u \in DOMAIN poll.row :
       IF iso[u] /\ DefineOk(dom, Local, u, poll.row[u].name)
       THEN /\ dom' = Define(dom, Local, u, poll.row[u].name, poll.row[u].mem, FALSE)
            /\ poll' = [poll EXCEPT !.at = u]
       ELSE poll' = NextBoot(u) /\ UNCHANGED dom
  /\ UNCHANGED <<db, used, disk, iso, late, task, restore, asked, faults, history>>

FirstBootDelete ==
  /\ poll.at \in Uuid
  /\ iso' = [iso EXCEPT ![poll.at] = FALSE]
  /\ poll' = NextBoot(poll.at)
  /\ UNCHANGED <<db, used, dom, disk, late, task, restore, asked, faults, history>>

Elsewhere == Host \ {Local}

LookRows(h) ==
  /\ poll = Quiet /\ InstancesOnHost(rows, h) # {}
  /\ poll' = [at |-> h, row |-> [u \in InstancesOnHost(rows, h) |-> rows[u].state]]
  /\ UNCHANGED <<db, used, hosts, late, task, restore, asked, faults, history>>

LookInventory ==
  /\ poll.at \in Elsewhere
  /\ LET now(u) == IF u \in Domains(dom, poll.at) THEN DomainState(dom, u) ELSE "stopped"
         changed == {u \in DOMAIN poll.row : now(u) # poll.row[u]}
     IN poll' = IF changed = {} THEN Quiet
                ELSE [at |-> "write", seen |-> [u \in changed |-> now(u)]]
  /\ UNCHANGED <<db, used, hosts, late, task, restore, asked, faults, history>>

LookWrite ==
  /\ poll.at = "write"
  /\ rows' = ObservedAll(rows, poll.seen)
  /\ poll' = Quiet
  /\ UNCHANGED <<released, used, hosts, late, task, restore, asked, faults, history>>

(* The restore after a start of the control plane: in batches, each waited *)
(* for before the next.                                                    *)

RestoreList ==
  /\ restore.at = "list"
  /\ restore' = [at |-> "listed", seen |-> Listing(dom, Local)]
  /\ UNCHANGED <<db, used, hosts, late, task, poll, asked, faults, history>>

\* The write, and the selection that follows it.
RestoreWrite ==
  /\ restore.at = "listed"
  /\ rows' = ObservedAll(rows, restore.seen)
  /\ LET todo == InstancesToRestore(rows', Local)
     IN restore' = IF todo = {} THEN Quiet
                   ELSE [at |-> "batch", name |-> [u \in todo |-> rows'[u].name],
                         batch |-> {}, started |-> {}]
  /\ UNCHANGED <<released, used, hosts, late, task, poll, asked, faults, history>>

\* What is left of the selection after this batch is what it still names.
RestoreBatch ==
  /\ restore.at = "batch" /\ restore.batch = {} /\ restore.started = {}
  /\ \/ /\ DOMAIN restore.name = {} /\ restore' = Quiet
     \/ \E b \in SUBSET DOMAIN restore.name :
          /\ b # {}
          /\ Cardinality(b) = BatchSize \/ (b = DOMAIN restore.name /\ Cardinality(b) < BatchSize)
          /\ restore' = [restore EXCEPT !.batch = b]
  /\ UNCHANGED <<db, used, hosts, late, task, poll, asked, faults, history>>

RestoreMark ==
  /\ restore.at = "batch"
  /\ \E u \in restore.batch :
       /\ rows' = SetObserved(rows, u, "starting")
       /\ restore' = [restore EXCEPT !.at = u]
  /\ UNCHANGED <<released, used, hosts, late, task, poll, asked, faults, history>>

\* sync_observed: libvirt's state under the name, stopped when it has none.
SeenAs(n) ==
  IF \E v \in Lookup(dom, Local, n) : On(dom, v) THEN "running" ELSE "stopped"

\* A failed start is followed by sync_observed, and is not waited for.
RestoreStart ==
  /\ restore.at \in Uuid
  /\ LET u == restore.at
         next(started, name) ==
           restore' = [restore EXCEPT !.at = "batch", !.batch = @ \ {u},
                                      !.started = started, !.name = name]
     IN \E a \in Answers(Order("start", Local, u, restore.name[u])) :
          /\ Take(a)
          /\ IF a.code = "ok"
             THEN next(restore.started \cup {u}, restore.name) /\ UNCHANGED rows
             ELSE /\ rows' = SetObserved(rows, u, SeenAs(restore.name[u]))
                  /\ next(restore.started, Without(restore.name, u))
  /\ Woken
  /\ UNCHANGED <<released, used, task, poll, asked, crossed, built>>

\* wait_running: running, or the wait ends and the observed state is synced.
RestoreWait ==
  /\ restore.at = "batch" /\ restore.batch = {}
  /\ \E u \in restore.started :
       /\ rows' = SetObserved(rows, u, SeenAs(restore.name[u]))
       /\ restore' = [restore EXCEPT !.started = @ \ {u}, !.name = Without(@, u)]
  /\ UNCHANGED <<released, used, hosts, late, task, poll, asked, faults, history>>

-----------------------------------------------------------------------------
(* Faults and the guests themselves. *)

\* The control plane dies and starts again; the SSH frontend lives on.
ServeCrash ==
  /\ Fault
  /\ task' = [task EXCEPT !["api"] = Idle]
  /\ poll' = Quiet /\ restore' = [at |-> "list"]
  /\ UNCHANGED <<db, used, hosts, late, asked, history>>

SshdCrash ==
  /\ Fault /\ task["sshd"] # Idle
  /\ task' = [task EXCEPT !["sshd"] = Idle]
  /\ UNCHANGED <<db, used, hosts, late, background, asked, history>>

AllOff(h) == [u \in Uuid |-> IF dom[u] # NoDomain /\ dom[u].host = h
                             THEN [dom[u] EXCEPT !.on = FALSE] ELSE dom[u]]

\* The machine of the control plane reboots: guests off, both processes gone.
Reboot ==
  /\ Fault
  /\ dom' = AllOff(Local)
  /\ task' = [t \in Slot |-> Idle]
  /\ poll' = Quiet /\ restore' = [at |-> "list"]
  /\ UNCHANGED <<db, used, disk, iso, late, asked, history>>

\* A runner reboots: guests off, and an order it had not taken is lost.
RunnerReboot(h) ==
  /\ Fault
  /\ dom' = AllOff(h) /\ late' = {}
  /\ UNCHANGED <<db, used, disk, iso, task, background, asked, history>>

GuestHalts(u) ==
  /\ Fault /\ On(dom, u)
  /\ dom' = Powered(dom, u, FALSE)
  /\ UNCHANGED <<db, used, disk, iso, late, task, background, asked, history>>

\* The cooldown of a released name runs out.
CooldownEnds(n) ==
  /\ Fault /\ released[n] # Nobody
  /\ released' = [released EXCEPT ![n] = Nobody]
  /\ UNCHANGED <<rows, used, hosts, late, task, background, asked, history>>

-----------------------------------------------------------------------------
\* A settled deployment: each existing instance has a row, a domain, a disk,
\* and a seed exactly until its first boot was seen.
Init ==
  /\ \E row \in [Existing -> Settled] :
       /\ \A u, v \in Existing : u # v => row[u].name # row[v].name
       /\ rows = [u \in Uuid |-> IF u \in Existing THEN row[u] ELSE NoRow]
  /\ released = [n \in Name |-> Nobody]
  /\ used = Existing
  /\ iso = [u \in Uuid |-> u \in Existing /\ rows[u].host # Local]
  /\ disk = [u \in Uuid |-> IF u \in Existing THEN rows[u].disk ELSE 0]
  /\ dom = [u \in Uuid |-> IF u \in Existing
                           THEN [host |-> rows[u].host, name |-> rows[u].name,
                                 mem |-> rows[u].mem, iso |-> iso[u],
                                 on |-> rows[u].state = "running"]
                           ELSE NoDomain]
  /\ \A h \in Host : CapacityOk(rows, h, {}, 0, 0)
  /\ late = {} /\ task = [t \in Slot |-> Idle]
  /\ poll = Quiet /\ restore = Quiet
  /\ asked = 0 /\ faults = 0
  /\ halted = {} /\ crossed = {} /\ built = Existing

Request(t) ==
  \/ \E u \in Uuid, op \in {"start", "connect", "stop", "restart", "remove"} : AskFor(t, op, u)
  \/ \E u \in Uuid, o \in Owner, h \in Host, n \in Name, z \in NewSize :
       AskNew(t, u, o, h, n, z)
  \/ \E src, u \in Uuid, n \in Name, z \in Size :
       rows[src] # NoRow /\ AskCopy(t, src, u, Fresh(rows[src].owner, Local, n, z))
  \/ \E u \in Uuid, n \in Name : AskRename(t, u, n)
  \/ \E u \in Uuid, z \in Size : AskResize(t, u, z.mem, z.disk)

Step(t) ==
  \/ StartDomain(t) \/ StartDesired(t) \/ StartRecord(t)
  \/ StopDesired(t) \/ StopDomain(t) \/ StopRecord(t)
  \/ RestartReboot(t) \/ RestartDesired(t)
  \/ RemoveDomain(t) \/ RemoveFiles(t) \/ RemoveRow(t)
  \/ NewInsert(t) \/ NewProvision(t) \/ NewRecord(t) \/ UnwindRow(t)
  \/ CopyInsert(t) \/ CopyFile(t) \/ CopyGrow(t) \/ CopySeed(t) \/ CopyCreate(t)
  \/ CopyRecord(t) \/ CopyUnwindFiles(t)
  \/ RenameRow(t) \/ RenameUndefine(t) \/ RenameDefine(t) \/ RenameElsewhere(t)
  \/ RenameRevert(t)
  \/ ResizeGrow(t) \/ ResizeRow(t) \/ ResizeRedefine(t)

Poll == PollList \/ PollWrite \/ FirstBootDefine \/ FirstBootDelete

Look == LookInventory \/ LookWrite \/ \E h \in Elsewhere : LookRows(h)

Restore ==
  \/ RestoreList \/ RestoreWrite \/ RestoreBatch \/ RestoreMark
  \/ RestoreStart \/ RestoreWait

Upset ==
  \/ ServeCrash \/ SshdCrash \/ Reboot \/ LateOrder
  \/ \E h \in Elsewhere : RunnerReboot(h)
  \/ \E u \in Uuid : GuestHalts(u)
  \/ \E n \in Name : CooldownEnds(n)

Next ==
  \/ \E t \in Slot : Request(t) \/ Step(t)
  \/ Poll \/ Look \/ Restore \/ Upset

\* tokio runs every ready task: a request goes on, both polls tick for ever
\* and the restore runs to its end.  Nothing makes a user ask or a fault come.
Fairness ==
  /\ \A t \in Slot : WF_vars(Step(t))
  /\ WF_vars(PollList) /\ WF_vars(PollWrite) /\ WF_vars(FirstBootDefine \/ FirstBootDelete)
  /\ \A h \in Elsewhere : SF_vars(LookRows(h))
  /\ WF_vars(LookInventory) /\ WF_vars(LookWrite) /\ WF_vars(Restore)

Spec == Init /\ [][Next]_vars /\ Fairness

-----------------------------------------------------------------------------
(* Properties. *)

\* The tables, the machines and the bounds have their types.
TypeOK ==
  /\ rows \in [Uuid -> Row \cup {NoRow}]
  /\ released \in [Name -> Owner \cup {Nobody}]
  /\ dom \in [Uuid -> Domain \cup {NoDomain}]
  /\ disk \in [Uuid -> Disk \cup {0}] /\ iso \in [Uuid -> BOOLEAN]
  /\ asked \in 0 .. MaxRequests /\ faults \in 0 .. MaxFaults

\* check_capacity_tx runs inside the transaction that writes: however many
\* creates, copies and resizes overlap, what a machine has promised stays
\* under its ceiling.
CapacityRespected ==
  \A h \in Host : CapacityOk(rows, h, {}, 0, 0)

\* A name in cooldown belongs to whoever released it: no overlap of removals,
\* renames and their unwinding, or creates gives it to another user, or gives
\* one name to two instances.
NameNeverStolen ==
  \A n \in Name :
    /\ Cardinality(Named(rows, n)) <= 1
    /\ \A u \in Named(rows, n) : released[n] \in {Nobody, rows[u].owner}

\* grow_disk runs before the row is written, and qemu-img never shrinks: once
\* an instance is built, its file is at least as large as its row says,
\* whatever fails in between and however resizes and copies overlap.  Built
\* means that new or cp got as far as its domain, cp from a source that was
\* built: cp takes a source without a domain for a stopped one, and that
\* source may still be waiting for its own disk to grow.
DiskCoversRow ==
  \A u \in built \cap Live(rows) : disk[u] > 0 => disk[u] >= rows[u].disk

\* stop persists the wish before it acts: an instance its user halted is not
\* one a restore would start, at any point of the stop or after a crash,
\* unless a start of the same instance crossed it.
HaltIsPersistent ==
  \A u \in halted : rows[u] # NoRow => rows[u].desired = "stopped"

\* "A name is not an identifier": the removal of an instance undefines the
\* domain of no other instance that has a row.
RemovesOnlyItsOwn ==
  [][\A t \in Slot : RemoveDomain(t) =>
       \A u \in Uuid : dom[u] # NoDomain /\ dom'[u] = NoDomain /\ rows[u] # NoRow
                      => u = task[t].u]_vars
=============================================================================
