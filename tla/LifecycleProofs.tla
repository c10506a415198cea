--------------------------- MODULE LifecycleProofs ---------------------------
(***************************************************************************)
(* The instance lifecycle keeps its types, for any users, machines,        *)
(* instances, names, sizes, ceilings, requests and faults: Types, which    *)
(* says what every request, order, poll and restore under way holds, and   *)
(* MintOK, which says that a UUID a create has minted is in nobody's hands *)
(* before its row is inserted.                                             *)
(*                                                                         *)
(* The lemmas about orders say what an answer may do to the machines, the  *)
(* lemmas about tables what a write may do to the rows. NextIs sums up a   *)
(* step of the system: a request that begins, an insertion, another step   *)
(* of a request, or a step of the background. The invariants of            *)
(* LifecycleSafetyProofs and LifecycleDiskProofs are proved along those    *)
(* four cases.                                                             *)
(***************************************************************************)
EXTENDS Lifecycle, TLAPS

-----------------------------------------------------------------------------
(* Types. *)

\* The steps of the requests.
Place == {"called", "desire", "record", "stopping", "files", "row", "insert", "build",
          "unwind", "file", "grow", "seed", "create", "label", "undefine", "define",
          "order", "revert", "redefine"}

PlainOp == {"start", "connect", "stop", "restart", "remove", "new"}

PlainTask == [op : PlainOp, at : Place, u : Uuid, row : Row]
CopyTask == [op : {"copy"}, at : Place, u : Uuid, row : Row, src : Uuid,
             grow : BOOLEAN, whole : BOOLEAN]
RenameTask == [op : {"rename"}, at : Place, u : Uuid, row : Row, name : Name,
               gone : BOOLEAN, iso : BOOLEAN]
ResizeTask == [op : {"resize"}, at : Place, u : Uuid, row : Row,
               mem : Memory, disk : Disk]

TaskRec == {Idle} \cup PlainTask \cup CopyTask \cup RenameTask \cup ResizeTask

OrderRec == [kind : {"start", "stop", "reboot", "remove", "provision", "redefine", "grow"},
             host : Host, u : Uuid, name : Name, prev : Name,
             mem : Memory \cup {0}, disk : Disk \cup {0}]

OrderOK(o) ==
  /\ o \in OrderRec
  /\ o.kind \in {"provision", "redefine"} => o.mem \in Memory
  /\ o.kind \in {"provision", "grow"} => o.disk \in Disk

\* Functions from some of the UUIDs.
Partial(T) == UNION {[S -> T] : S \in SUBSET Uuid}

Doms == [Uuid -> Domain \cup {NoDomain}]
Disks == [Uuid -> Disk \cup {0}]

RowsOK ==
  rows \in [Uuid -> Row \cup {NoRow}] /\ released \in [Name -> Owner \cup {Nobody}]

HostsOK ==
  /\ dom \in Doms /\ disk \in Disks /\ iso \in [Uuid -> BOOLEAN]
  /\ \A o \in late : OrderOK(o)

TasksOK == task \in [Slot -> TaskRec]

PollOK ==
  \/ poll = Quiet
  \/ poll \in [at : {"listed", "write"}, seen : Partial({"running", "stopped"})]
  \/ /\ poll \in [at : {"boots"} \cup Uuid, row : Partial(Row)]
     /\ poll.at \in {"boots"} \cup DOMAIN poll.row
  \/ poll \in [at : Elsewhere, row : Partial({"running", "stopped", "starting"})]

RestoreOK ==
  \/ restore = Quiet \/ restore = [at |-> "list"]
  \/ restore \in [at : {"listed"}, seen : Partial({"running", "stopped"})]
  \/ /\ restore \in [at : {"batch"} \cup Uuid, name : Partial(Name),
                     batch : SUBSET Uuid, started : SUBSET Uuid]
     /\ restore.batch \cup restore.started \subseteq DOMAIN restore.name
     /\ restore.batch \cap restore.started = {}
     /\ restore.at \in {"batch"} \cup restore.batch

BoundsOK == asked \in 0 .. MaxRequests /\ faults \in 0 .. MaxFaults

HistoryOK == used \subseteq Uuid /\ halted \subseteq Uuid /\ built \subseteq Uuid

Types ==
  RowsOK /\ HostsOK /\ TasksOK /\ PollOK /\ RestoreOK /\ BoundsOK /\ HistoryOK

-----------------------------------------------------------------------------
(* Tasks. *)

\* What a row of the table holds.
LEMMA RowFields ==
  ASSUME NEW r \in Row
  PROVE  /\ r.name \in Name /\ r.owner \in Owner /\ r.host \in Host
         /\ r.mem \in Memory /\ r.disk \in Disk
         /\ r.state \in {"running", "stopped", "starting"}
         /\ r.desired \in {"running", "stopped"} /\ r # NoRow
BY LifecycleAssumption, SMT DEF Row

Moved(w, s) == [w EXCEPT !.at = s]

\* What the record of a request holds, whichever request it is.
LEMMA TaskIs ==
  ASSUME NEW w \in TaskRec
  PROVE  /\ w = Idle \/ w.op # None
         /\ w.op # None => /\ w.op \in PlainOp \cup {"copy", "rename", "resize"}
                           /\ w.u \in Uuid /\ w.row \in Row
         /\ w.op = "copy" => w.src \in Uuid /\ w.grow \in BOOLEAN /\ w.whole \in BOOLEAN
         /\ w.op = "rename" => w.name \in Name /\ w.gone \in BOOLEAN /\ w.iso \in BOOLEAN
         /\ w.op = "resize" => w.mem \in Memory /\ w.disk \in Disk
BY SMTT(30) DEF TaskRec, PlainTask, PlainOp, CopyTask, RenameTask, ResizeTask, Idle, None

\* What a move to another step leaves alone.
SameTask(v, w) ==
  /\ v.op = w.op /\ v.u = w.u /\ v.row = w.row
  /\ w.op = "copy" => v.src = w.src /\ v.grow = w.grow /\ v.whole = w.whole
  /\ w.op = "rename" => v.name = w.name
  /\ w.op = "resize" => v.mem = w.mem /\ v.disk = w.disk

\* Moving a request on changes only its step.
LEMMA MovedOK ==
  ASSUME NEW w \in TaskRec, w.op # None, NEW s \in Place
  PROVE  /\ Moved(w, s) \in TaskRec
         /\ Moved(w, s).at = s
         /\ SameTask(Moved(w, s), w)
<1>1. CASE w \in PlainTask
  BY <1>1, SMTT(30) DEF TaskRec, PlainTask, PlainOp, Moved, SameTask
<1>2. CASE w \in CopyTask
  BY <1>2, SMTT(30) DEF TaskRec, CopyTask, Moved, SameTask
<1>3. CASE w \in RenameTask
  BY <1>3, SMTT(30) DEF TaskRec, RenameTask, Moved, SameTask
<1>4. CASE w \in ResizeTask
  BY <1>4, SMTT(30) DEF TaskRec, ResizeTask, Moved, SameTask
<1> QED
  BY <1>1, <1>2, <1>3, <1>4 DEF TaskRec, Idle, None

Others(t) == \A x \in Slot \ {t} : task'[x] = task[x]
Moves(t, s) == Others(t) /\ task'[t].at = s /\ SameTask(task'[t], task[t])
Ends(t) == Others(t) /\ task'[t] = Idle

\* Writing the record of one request leaves the others alone.
LEMMA AfterTask ==
  ASSUME TasksOK, NEW t \in Slot, NEW r \in TaskRec, task' = [task EXCEPT ![t] = r]
  PROVE  TasksOK' /\ task'[t] = r /\ Others(t)
BY Zenon DEF TasksOK, Others

\* Goto moves one request on.
LEMMA AfterGoto ==
  ASSUME TasksOK, NEW t \in Slot, task[t].op # None, NEW s \in Place, Goto(t, s)
  PROVE  TasksOK' /\ Moves(t, s)
<1>1. task[t] \in TaskRec
  BY Zenon DEF TasksOK
<1>2. task' = [task EXCEPT ![t] = Moved(task[t], s)]
  BY Zenon DEF Goto, Moved
<1>3. Moved(task[t], s) \in TaskRec /\ Moved(task[t], s).at = s /\ SameTask(Moved(task[t], s), task[t])
  BY <1>1, MovedOK, Zenon
<1>4. TasksOK' /\ task'[t] = Moved(task[t], s) /\ Others(t)
  BY <1>2, <1>3, AfterTask, Zenon
<1> QED
  BY <1>3, <1>4, Zenon DEF Moves

\* End frees the slot of one request.
LEMMA AfterEnd ==
  ASSUME TasksOK, NEW t \in Slot, End(t)
  PROVE  TasksOK' /\ Ends(t)
BY AfterTask, Zenon DEF End, Ends, TaskRec

-----------------------------------------------------------------------------
(* Machines. *)

\* What the outcome of an order may be: of the UUIDs, only the order's own can
\* gain a domain or a file, and only a provision writes a file as it likes.
OutcomeOK(o, r) ==
  /\ r.code \in {"ok", "notfound", "error"}
  /\ r.dom \in Doms /\ r.disk \in Disks /\ r.iso \in [Uuid -> BOOLEAN]
  /\ \A v \in Uuid : r.dom[v] # NoDomain => dom[v] # NoDomain \/ v = o.u
  /\ \A v \in Uuid :
       \/ r.disk[v] = disk[v] \/ r.disk[v] = 0
       \/ o.kind = "provision" /\ v = o.u
       \/ /\ o.kind = "grow" /\ v = o.u
          /\ disk[v] > 0 /\ r.disk[v] = o.disk /\ o.disk >= disk[v]
  /\ o.kind \in {"provision", "grow"} /\ r.code = "ok" => r.disk[o.u] = o.disk
  /\ o.kind = "grow" /\ r.code = "ok" => disk[o.u] > 0

\* What an order to a machine holds.
LEMMA OrderFields ==
  ASSUME NEW o, OrderOK(o)
  PROVE  /\ o.kind \in {"start", "stop", "reboot", "remove", "provision", "redefine", "grow"}
         /\ o.host \in Host /\ o.u \in Uuid /\ o.name \in Name /\ o.prev \in Name
BY SMT DEF OrderOK, OrderRec

\* What a libvirt domain holds.
LEMMA DomainFields ==
  ASSUME NEW d \in Domain
  PROVE  /\ d.host \in Host /\ d.name \in Name /\ d.mem \in Memory
         /\ d.iso \in BOOLEAN /\ d.on \in BOOLEAN /\ d # NoDomain
BY LifecycleAssumption, SMT DEF Domain

\* Whether a domain is on is defined whether it exists or not.
LEMMA OnOK ==
  ASSUME NEW doms \in Doms, NEW v \in Uuid
  PROVE  On(doms, v) \in BOOLEAN
BY DomainFields, Zenon DEF On, Doms

\* Switching a domain creates none.
LEMMA PoweredOK ==
  ASSUME NEW doms \in Doms, NEW v \in Uuid, doms[v] # NoDomain, NEW b, b \in BOOLEAN
  PROVE  /\ Powered(doms, v, b) \in Doms
         /\ \A x \in Uuid : Powered(doms, v, b)[x] # NoDomain => doms[x] # NoDomain
<1> DEFINE d == [doms[v] EXCEPT !.on = b]
<1>1. doms[v] \in Domain
  BY Zenon DEF Doms
<1>2. d \in Domain
  BY <1>1, SMT DEF Domain
<1>3. Powered(doms, v, b) = [doms EXCEPT ![v] = d]
  BY Zenon DEF Powered
<1> HIDE DEF d
<1> QED
  BY <1>2, <1>3, Zenon DEF Doms

\* Defining a domain creates that one alone.
LEMMA DefineOK ==
  ASSUME NEW doms \in Doms, NEW h \in Host, NEW u \in Uuid, NEW n \in Name,
         NEW m \in Memory, NEW b, b \in BOOLEAN
  PROVE  /\ Define(doms, h, u, n, m, b) \in Doms
         /\ Define(doms, h, u, n, m, b)[u] # NoDomain
         /\ \A x \in Uuid \ {u} : Define(doms, h, u, n, m, b)[x] = doms[x]
<1> DEFINE d == [host |-> h, name |-> n, mem |-> m, iso |-> b, on |-> On(doms, u)]
<1>1. d \in Domain
  BY OnOK, SMT DEF Domain
<1>2. Define(doms, h, u, n, m, b) = [doms EXCEPT ![u] = d]
  BY Zenon DEF Define
<1> HIDE DEF d
<1> QED
  BY <1>1, <1>2, DomainFields, Zenon DEF Doms

\* Undefining a domain creates none.
LEMMA UndefinedOK ==
  ASSUME NEW doms \in Doms, NEW u \in Uuid
  PROVE  /\ Undefined(doms, u) \in Doms
         /\ \A x \in Uuid : Undefined(doms, u)[x] # NoDomain => doms[x] # NoDomain
BY Zenon DEF Undefined, Doms

\* A lookup by name finds domains.
LEMMA LookupIs ==
  ASSUME HostsOK, NEW h, NEW n, NEW v \in Lookup(dom, h, n)
  PROVE  v \in Uuid /\ dom[v] # NoDomain
BY Zenon DEF Lookup, Domains

\* An order that is refused leaves the machine as it was.
LEMMA RefusedOK ==
  ASSUME HostsOK, NEW o, o.kind # "grow", o.kind # "provision",
         NEW code \in {"ok", "notfound", "error"}, NEW r \in Refused(code)
  PROVE  OutcomeOK(o, r)
<1>1. OutcomeOK(o, Outcome(code, dom, disk, iso))
  BY Zenon DEF Outcome, OutcomeOK, HostsOK
<1> QED
  BY <1>1, Zenon DEF Refused

\* So does one refused with an error, a provision or a grow included.
LEMMA RefusedError ==
  ASSUME HostsOK, NEW o, NEW r \in Refused("error")
  PROVE  OutcomeOK(o, r)
<1>1. OutcomeOK(o, Outcome("error", dom, disk, iso))
  BY Zenon DEF Outcome, OutcomeOK, HostsOK
<1> QED
  BY <1>1, Zenon DEF Refused

\* Switching the domain a lookup found is a proper outcome.
LEMMA PoweredOutcome ==
  ASSUME HostsOK, NEW o, o.kind # "grow", o.kind # "provision", NEW b, b \in BOOLEAN,
         NEW code \in {"ok", "error"}, NEW v \in Lookup(dom, o.host, o.name)
  PROVE  OutcomeOK(o, Outcome(code, Powered(dom, v, b), disk, iso))
<1>1. v \in Uuid /\ dom[v] # NoDomain
  BY LookupIs, Zenon
<1>2. Powered(dom, v, b) \in Doms /\ \A x \in Uuid : Powered(dom, v, b)[x] # NoDomain => dom[x] # NoDomain
  BY <1>1, PoweredOK, Zenon DEF HostsOK
<1> QED
  BY <1>2, Zenon DEF Outcome, OutcomeOK, HostsOK

\* start on a machine.
LEMMA HostStartOK ==
  ASSUME HostsOK, NEW o, o.kind = "start", NEW r \in HostStart(o)
  PROVE  OutcomeOK(o, r)
<1>1. \/ r \in Refused("notfound") \/ r \in Refused("error")
      \/ \E v \in Lookup(dom, o.host, o.name) : r = Outcome("ok", Powered(dom, v, TRUE), disk, iso)
  BY Zenon DEF HostStart
<1> QED
  BY <1>1, RefusedOK, PoweredOutcome, Zenon

\* stop on a machine.
LEMMA HostStopOK ==
  ASSUME HostsOK, NEW o, o.kind = "stop", NEW r \in HostStop(o)
  PROVE  OutcomeOK(o, r)
<1>1. \/ r \in Refused("notfound")
      \/ \E v \in Lookup(dom, o.host, o.name) : r = Outcome("ok", Powered(dom, v, FALSE), disk, iso)
  BY Zenon DEF HostStop
<1> QED
  BY <1>1, RefusedOK, PoweredOutcome, Zenon

\* reboot on a machine.
LEMMA HostRebootOK ==
  ASSUME HostsOK, NEW o, o.kind = "reboot", NEW r \in HostReboot(o)
  PROVE  OutcomeOK(o, r)
<1>1. r \in Refused("notfound") \/ r \in Refused("error") \/ r \in Refused("ok")
  BY Zenon DEF HostReboot
<1> QED
  BY <1>1, RefusedOK, Zenon

\* Removing a domain leaves the files alone.
LEMMA DomainRemoveOK ==
  ASSUME HostsOK, NEW o, o.kind = "remove", NEW r \in DomainRemove(o)
  PROVE  OutcomeOK(o, r) /\ r.disk = disk /\ r.iso = iso
<1>1. \/ r \in Refused("notfound")
      \/ \E v \in Lookup(dom, o.host, o.name) : r = Outcome("ok", Undefined(dom, v), disk, iso)
  BY Zenon DEF DomainRemove
<1>2. CASE r \in Refused("notfound")
  <2>1. r = Outcome("notfound", dom, disk, iso)
    BY <1>2, Zenon DEF Refused
  <2> QED
    BY <1>2, <2>1, RefusedOK, SMT DEF Outcome
<1>3. ASSUME NEW v \in Lookup(dom, o.host, o.name), r = Outcome("ok", Undefined(dom, v), disk, iso)
      PROVE  OutcomeOK(o, r) /\ r.disk = disk /\ r.iso = iso
  <2>1. Undefined(dom, v) \in Doms /\ \A x \in Uuid : Undefined(dom, v)[x] # NoDomain => dom[x] # NoDomain
    BY LookupIs, UndefinedOK, Zenon DEF HostsOK
  <2>2. OutcomeOK(o, Outcome("ok", Undefined(dom, v), disk, iso))
    BY <2>1, Zenon DEF Outcome, OutcomeOK, HostsOK
  <2> QED
    BY <1>3, <2>2, SMT DEF Outcome
<1> QED
  BY <1>1, <1>2, <1>3, Zenon

\* Removing an instance takes its files too.
LEMMA HostRemoveOK ==
  ASSUME HostsOK, NEW o, OrderOK(o), o.kind = "remove", NEW r \in HostRemove(o)
  PROVE  OutcomeOK(o, r)
<1> DEFINE files == [disk EXCEPT ![o.u] = 0]
           seeds == [iso EXCEPT ![o.u] = FALSE]
<1>1. PICK s \in DomainRemove(o) : r = IF s.code = "ok" THEN Outcome("ok", s.dom, files, seeds) ELSE s
  BY Zenon DEF HostRemove
<1>2. OutcomeOK(o, s)
  BY DomainRemoveOK, Zenon
<1>3. files \in Disks /\ seeds \in [Uuid -> BOOLEAN] /\ \A v \in Uuid : files[v] = disk[v] \/ files[v] = 0
  BY OrderFields, Zenon DEF HostsOK, Disks
<1> HIDE DEF files, seeds
<1>4. OutcomeOK(o, Outcome("ok", s.dom, files, seeds))
  BY <1>2, <1>3, Zenon DEF Outcome, OutcomeOK
<1> QED
  BY <1>1, <1>2, <1>4, Zenon

\* A provision touches the domain and the file of its UUID alone.
LEMMA HostProvisionOK ==
  ASSUME HostsOK, NEW o, OrderOK(o), o.kind = "provision", NEW r \in HostProvision(o)
  PROVE  OutcomeOK(o, r)
<1> DEFINE made == Define(dom, o.host, o.u, o.name, o.mem, TRUE)
           none == [disk EXCEPT ![o.u] = 0]
           bare == [iso EXCEPT ![o.u] = FALSE]
           file == [disk EXCEPT ![o.u] = o.disk]
           seed == [iso EXCEPT ![o.u] = TRUE]
<1>0. o.mem \in Memory /\ o.disk \in Disk /\ o.host \in Host /\ o.u \in Uuid /\ o.name \in Name /\ dom \in Doms
  BY OrderFields, Zenon DEF OrderOK, HostsOK
<1>1. /\ none \in Disks /\ bare \in [Uuid -> BOOLEAN] /\ file \in Disks /\ seed \in [Uuid -> BOOLEAN]
      /\ file[o.u] = o.disk
      /\ \A v \in Uuid : none[v] = disk[v] \/ v = o.u
      /\ \A v \in Uuid : file[v] = disk[v] \/ v = o.u
  BY <1>0, Zenon DEF HostsOK, Disks
<1>2. made \in Doms /\ made[o.u] # NoDomain /\ \A x \in Uuid \ {o.u} : made[x] = dom[x]
  <2>1. ASSUME NEW b, b \in BOOLEAN
        PROVE  /\ Define(dom, o.host, o.u, o.name, o.mem, b) \in Doms
               /\ Define(dom, o.host, o.u, o.name, o.mem, b)[o.u] # NoDomain
               /\ \A x \in Uuid \ {o.u} : Define(dom, o.host, o.u, o.name, o.mem, b)[x] = dom[x]
    BY <1>0, <2>1, DefineOK, SMT
  <2> QED
    BY <2>1, Zenon
<1>3. \/ \E d \in CreateFailures(dom, o.host, o.u, o.name, o.mem, TRUE) : r = Outcome("error", d, none, bare)
      \/ r = Outcome("ok", Powered(made, o.u, TRUE), file, seed)
  BY Zenon DEF HostProvision
<1>4. ASSUME NEW d \in CreateFailures(dom, o.host, o.u, o.name, o.mem, TRUE)
      PROVE  OutcomeOK(o, Outcome("error", d, none, bare))
  <2>1. d = dom \/ d = made
    BY Zenon DEF CreateFailures
  <2> HIDE DEF made, none, bare
  <2> QED
    BY <1>0, <1>1, <1>2, <2>1, Zenon DEF Outcome, OutcomeOK
<1>5. OutcomeOK(o, Outcome("ok", Powered(made, o.u, TRUE), file, seed))
  <2> HIDE DEF made, file, seed
  <2>1. Powered(made, o.u, TRUE) \in Doms /\ \A x \in Uuid : Powered(made, o.u, TRUE)[x] # NoDomain => made[x] # NoDomain
    BY <1>0, <1>2, PoweredOK, Zenon
  <2> QED
    BY <1>1, <1>2, <2>1, Zenon DEF Outcome, OutcomeOK
<1> QED
  BY <1>3, <1>4, <1>5, Zenon

\* A redefinition replaces one domain by another of the same UUID.
LEMMA HostRedefineOK ==
  ASSUME HostsOK, NEW o, OrderOK(o), o.kind = "redefine", NEW r \in HostRedefine(o)
  PROVE  OutcomeOK(o, r)
<1> DEFINE old == Lookup(dom, o.host, o.prev)
           cleared == IF old = {} THEN dom ELSE Undefined(dom, CHOOSE v \in old : TRUE)
           base == IF o.prev = o.name THEN dom ELSE cleared
           new == Define(base, o.host, o.u, o.name, o.mem, iso[o.u])
           again == Define(base, o.host, o.u, o.prev, o.mem, iso[o.u])
<1>0. /\ o.mem \in Memory /\ o.host \in Host /\ o.u \in Uuid /\ o.name \in Name /\ o.prev \in Name
      /\ dom \in Doms /\ disk \in Disks /\ iso \in [Uuid -> BOOLEAN] /\ iso[o.u] \in BOOLEAN
  BY OrderFields, Zenon DEF OrderOK, HostsOK
<1>1. base \in Doms /\ \A x \in Uuid : base[x] # NoDomain => dom[x] # NoDomain
  <2>1. CASE base = dom
    BY <1>0, <2>1, Zenon
  <2>2. CASE base # dom
    <3>1. old # {} /\ base = Undefined(dom, CHOOSE v \in old : TRUE)
      BY <2>2, Zenon
    <3>2. (CHOOSE v \in old : TRUE) \in old
      BY <3>1, Zenon
    <3>3. (CHOOSE v \in old : TRUE) \in Uuid
      BY <3>2, LookupIs, Zenon
    <3> QED
      BY <1>0, <3>1, <3>3, UndefinedOK, Zenon
  <2> QED
    BY <2>1, <2>2, Zenon
<1>2. \/ r \in Refused("error") \/ r = Outcome("ok", new, disk, iso)
      \/ r = Outcome("error", again, disk, iso) \/ r = Outcome("error", base, disk, iso)
  BY Zenon DEF HostRedefine
<1> HIDE DEF base
<1>3. new \in Doms /\ \A x \in Uuid \ {o.u} : new[x] = base[x]
  BY <1>0, <1>1, DefineOK, SMT
<1>4. again \in Doms /\ \A x \in Uuid \ {o.u} : again[x] = base[x]
  BY <1>0, <1>1, DefineOK, SMT
<1> HIDE DEF new, again
<1>5. OutcomeOK(o, Outcome("ok", new, disk, iso))
  BY <1>0, <1>1, <1>3, Zenon DEF Outcome, OutcomeOK
<1>6. OutcomeOK(o, Outcome("error", again, disk, iso))
  BY <1>0, <1>1, <1>4, Zenon DEF Outcome, OutcomeOK
<1>7. OutcomeOK(o, Outcome("error", base, disk, iso))
  BY <1>0, <1>1, Zenon DEF Outcome, OutcomeOK
<1> QED
  BY <1>2, <1>5, <1>6, <1>7, RefusedError, Zenon

\* A grow never shrinks a file, and never makes one.
LEMMA HostResizeDiskOK ==
  ASSUME HostsOK, NEW o, OrderOK(o), o.kind = "grow", NEW r \in HostResizeDisk(o)
  PROVE  OutcomeOK(o, r)
<1> DEFINE file == [disk EXCEPT ![o.u] = o.disk]
<1>1. \/ r \in Refused("error")
      \/ disk[o.u] > 0 /\ o.disk >= disk[o.u] /\ r = Outcome("ok", dom, file, iso)
  BY Zenon DEF HostResizeDisk
<1>2. file \in Disks /\ file[o.u] = o.disk /\ \A v \in Uuid \ {o.u} : file[v] = disk[v]
  BY OrderFields, Zenon DEF HostsOK, Disks, OrderOK
<1> HIDE DEF file
<1>3. disk[o.u] > 0 /\ o.disk >= disk[o.u] => OutcomeOK(o, Outcome("ok", dom, file, iso))
  BY <1>2, Zenon DEF Outcome, OutcomeOK, HostsOK
<1> QED
  BY <1>1, <1>3, RefusedError, Zenon

\* Whatever the order, its outcome touches no UUID it should not.
LEMMA PerformOK ==
  ASSUME HostsOK, NEW o, OrderOK(o), NEW r \in Perform(o)
  PROVE  OutcomeOK(o, r)
<1>1. o.kind \in {"start", "stop", "reboot", "remove", "provision", "redefine", "grow"}
  BY OrderFields, Zenon
<1>2. CASE o.kind = "start"
  BY <1>2, HostStartOK, Zenon DEF Perform
<1>3. CASE o.kind = "stop"
  BY <1>3, HostStopOK, Zenon DEF Perform
<1>4. CASE o.kind = "reboot"
  BY <1>4, HostRebootOK, Zenon DEF Perform
<1>5. CASE o.kind = "remove"
  BY <1>5, DomainRemoveOK, HostRemoveOK, Zenon DEF Perform
<1>6. CASE o.kind = "provision"
  BY <1>6, HostProvisionOK, Zenon DEF Perform
<1>7. CASE o.kind = "redefine"
  BY <1>7, HostRedefineOK, Zenon DEF Perform
<1>8. CASE o.kind = "grow"
  BY <1>8, HostResizeDiskOK, Zenon DEF Perform
<1> QED
  BY <1>1, <1>2, <1>3, <1>4, <1>5, <1>6, <1>7, <1>8, Zenon

\* An order by name may reach the domain of another UUID, but one that exists.
LEMMA AddressedOK ==
  ASSUME HostsOK, NEW o, OrderOK(o)
  PROVE  /\ OrderOK(Addressed(o)) /\ Addressed(o).kind = o.kind /\ Addressed(o).disk = o.disk
         /\ \/ Addressed(o).u = o.u
            \/ /\ dom[Addressed(o).u] # NoDomain
               /\ o.kind # "provision" /\ o.kind # "grow" /\ o.kind # "redefine"
<1> DEFINE found == Lookup(dom, o.host, o.name)
           v == CHOOSE x \in found : TRUE
<1>1. CASE Addressed(o) = o
  BY <1>1, Zenon
<1>2. CASE Addressed(o) # o
  <2>1. found # {} /\ o.kind \in {"start", "stop", "reboot", "remove"} /\ Addressed(o) = [o EXCEPT !.u = v]
    BY <1>2, Zenon DEF Addressed
  <2>2. v \in found
    BY <2>1, Zenon
  <2>3. v \in Uuid /\ dom[v] # NoDomain
    BY <2>2, LookupIs, Zenon
  <2> HIDE DEF v
  <2>4. /\ OrderOK([o EXCEPT !.u = v]) /\ [o EXCEPT !.u = v].kind = o.kind
        /\ [o EXCEPT !.u = v].disk = o.disk /\ [o EXCEPT !.u = v].u = v
    BY <2>3, SMT DEF OrderOK, OrderRec
  <2> QED
    BY <2>1, <2>3, <2>4, Zenon
<1> QED
  BY <1>1, <1>2, Zenon

\* An order that may be pending because of this one.
Due(o, l) ==
  /\ l.kind = o.kind
  /\ l.u = o.u \/ dom[l.u] # NoDomain
  /\ o.kind = "provision" => l.u = o.u

AnswerOK(o, a) ==
  /\ OutcomeOK(o, a)
  /\ \A l \in a.late : OrderOK(l) /\ (l \in late \/ Due(o, l))
  /\ a.code = "ok" => \A l \in a.late : l \in late /\ (o.kind = "provision" => l.u # o.u)
  /\ a.cost = 0 \/ (a.cost = 1 /\ faults # MaxFaults)

\* An answer made of a proper outcome is one.
LEMMA MakeAnswer ==
  ASSUME NEW o, NEW code \in {"ok", "notfound", "error"}, NEW r, OutcomeOK(o, r),
         code = r.code \/ code = "error",
         NEW pending, NEW cost, cost = 0 \/ (cost = 1 /\ faults # MaxFaults),
         \A l \in pending : OrderOK(l) /\ (l \in late \/ Due(o, l)),
         code = "ok" => \A l \in pending : l \in late /\ (o.kind = "provision" => l.u # o.u)
  PROVE  AnswerOK(o, Answer(code, r, pending, cost))
<1> DEFINE a == Answer(code, r, pending, cost)
<1>1. a.code = code /\ a.dom = r.dom /\ a.disk = r.disk /\ a.iso = r.iso /\ a.late = pending /\ a.cost = cost
  BY Zenon DEF Answer
<1> HIDE DEF a
<1>2. OutcomeOK(o, a)
  BY <1>1, Zenon DEF OutcomeOK
<1> QED
  BY <1>1, <1>2, Zenon DEF AnswerOK, a

\* An order cut short on its way has a proper outcome.
LEMMA PartWayOK ==
  ASSUME HostsOK, NEW o, OrderOK(o), NEW r \in PartWay(o)
  PROVE  OutcomeOK(o, r)
<1>1. \/ r \in Refused("error")
      \/ /\ o.kind \in {"stop", "remove"}
         /\ \E v \in Lookup(dom, o.host, o.name) : r = Outcome("error", Powered(dom, v, FALSE), disk, iso)
  BY Zenon DEF PartWay
<1>2. CASE o.kind \in {"stop", "remove"}
  BY <1>1, <1>2, RefusedError, PoweredOutcome, Zenon
<1> QED
  BY <1>1, <1>2, RefusedError, Zenon

\* An outcome for the UUID an order is addressed to is one for the order.
LEMMA AddressedOutcome ==
  ASSUME HostsOK, NEW o, OrderOK(o), NEW r, OutcomeOK(Addressed(o), r)
  PROVE  OutcomeOK(o, r)
<1> DEFINE to == Addressed(o)
<1>1. /\ to.kind = o.kind /\ to.disk = o.disk
      /\ to.u = o.u \/ (dom[to.u] # NoDomain /\ o.kind # "provision" /\ o.kind # "grow")
  BY AddressedOK, Zenon
<1>2. OutcomeOK(to, r)
  OBVIOUS
<1> HIDE DEF to
<1> QED
  BY <1>1, <1>2, Zenon DEF OutcomeOK

\* Every answer to an order, heard, unheard or delayed, is a proper one.
LEMMA AnswersOK ==
  ASSUME HostsOK, NEW o, OrderOK(o), NEW a \in Answers(o)
  PROVE  AnswerOK(o, a)
<1> DEFINE to == Addressed(o)
           same == Outcome("error", dom, disk, iso)
           voids == {l \in late : l.u # to.u}
<1>1. /\ OrderOK(to) /\ to.kind = o.kind
      /\ to.u = o.u \/ (dom[to.u] # NoDomain /\ o.kind # "provision" /\ o.kind # "grow")
  BY AddressedOK, Zenon
<1>2. \/ \E r \in Perform(to) : a = Answer(r.code, r, voids, 0)
      \/ faults # MaxFaults /\ \E r \in PartWay(to) : a = Answer("error", r, late, 1)
      \/ faults # MaxFaults /\ \E r \in Perform(to) : a = Answer("error", r, voids, 1)
      \/ faults # MaxFaults /\ a = Answer("error", same, {to}, 1)
  BY Zenon DEF Answers
<1>3. \A l \in voids : OrderOK(l) /\ l \in late /\ (o.kind = "provision" => l.u # o.u)
  BY <1>1, Zenon DEF HostsOK
<1>4. \A l \in late : OrderOK(l)
  BY Zenon DEF HostsOK
<1>5. OrderOK(to) /\ Due(o, to)
  BY <1>1, Zenon DEF Due
<1>6. \A r \in Perform(to) : OutcomeOK(o, r) /\ r.code \in {"ok", "notfound", "error"}
  <2>1. \A r \in Perform(to) : OutcomeOK(to, r)
    BY <1>1, PerformOK, Zenon
  <2>2. \A r \in Perform(to) : r.code \in {"ok", "notfound", "error"}
    BY <2>1, Zenon DEF OutcomeOK
  <2> QED
    BY <2>1, <2>2, AddressedOutcome, Zenon
<1>7. \A r \in PartWay(to) : OutcomeOK(o, r)
  BY <1>1, PartWayOK, AddressedOutcome, Zenon
<1>8. OutcomeOK(o, same)
  BY RefusedError, Zenon DEF Refused
<1> HIDE DEF to, voids, same
<1>9. \A r \in Perform(to) : AnswerOK(o, Answer(r.code, r, voids, 0))
  BY <1>3, <1>6, MakeAnswer, Zenon
<1>10. faults # MaxFaults => \A r \in PartWay(to) : AnswerOK(o, Answer("error", r, late, 1))
  BY <1>4, <1>7, MakeAnswer, Zenon
<1>11. faults # MaxFaults => \A r \in Perform(to) : AnswerOK(o, Answer("error", r, voids, 1))
  BY <1>3, <1>6, MakeAnswer, Zenon
<1>12. faults # MaxFaults => AnswerOK(o, Answer("error", same, {to}, 1))
  BY <1>5, <1>8, MakeAnswer, Zenon
<1> QED
  BY <1>2, <1>9, <1>10, <1>11, <1>12, Zenon

\* What an order for u may leave behind of UUIDs it found without anything.
Effect(o) ==
  /\ \A v \in Uuid : dom'[v] # NoDomain => dom[v] # NoDomain \/ v = o.u
  /\ \A v \in Uuid : disk'[v] # 0 => disk[v] # 0 \/ v = o.u
  /\ \A l \in late' : l \in late \/ dom[l.u] # NoDomain \/ l.u = o.u

\* Taking an answer keeps the types of the machines and the bound on faults.
LEMMA TakeOK ==
  ASSUME HostsOK, BoundsOK, NEW o, OrderOK(o), NEW a \in Answers(o), Take(a)
  PROVE  HostsOK' /\ faults' \in 0 .. MaxFaults /\ Effect(o)
<1>1. AnswerOK(o, a)
  BY AnswersOK, Zenon
<1>2. HostsOK'
  BY <1>1, Zenon DEF AnswerOK, OutcomeOK, Take, HostsOK, OrderOK
<1>3. faults' \in 0 .. MaxFaults
  BY <1>1, LifecycleAssumption, SMT DEF AnswerOK, Take, BoundsOK
<1>4. \A v \in Uuid : a.disk[v] # 0 => disk[v] # 0 \/ v = o.u
  <2>1. \A v \in Uuid : \/ a.disk[v] = disk[v] \/ a.disk[v] = 0 \/ v = o.u
    BY <1>1, Zenon DEF AnswerOK, OutcomeOK
  <2> QED
    BY <2>1, Zenon
<1>5. \A v \in Uuid : a.dom[v] # NoDomain => dom[v] # NoDomain \/ v = o.u
  BY <1>1, Zenon DEF AnswerOK, OutcomeOK
<1>6. \A l \in a.late : l \in late \/ dom[l.u] # NoDomain \/ l.u = o.u
  BY <1>1, Zenon DEF AnswerOK, Due
<1> QED
  BY <1>2, <1>3, <1>4, <1>5, <1>6, Zenon DEF Take, Effect

-----------------------------------------------------------------------------
(* Orders, rows and bounds. *)

\* An order without sizes is an order.
LEMMA PlainOrder ==
  ASSUME NEW h \in Host, NEW u \in Uuid, NEW n \in Name,
         NEW kind \in {"start", "stop", "reboot", "remove"}
  PROVE  /\ OrderOK(Order(kind, h, u, n)) /\ Order(kind, h, u, n).u = u
         /\ Order(kind, h, u, n).kind = kind
BY SMT DEF OrderOK, OrderRec, Order

\* So is the order of a request for its instance.
LEMMA OrderOfOK ==
  ASSUME TasksOK, NEW t \in Slot, task[t].op # None,
         NEW kind \in {"start", "stop", "reboot", "remove"}
  PROVE  /\ OrderOK(OrderOf(t, kind)) /\ OrderOf(t, kind).u = task[t].u
         /\ OrderOf(t, kind).kind = kind
<1>1. task[t].u \in Uuid /\ task[t].row.host \in Host /\ task[t].row.name \in Name
  BY TaskIs, RowFields, Zenon DEF TasksOK
<1> QED
  BY <1>1, PlainOrder, SMT DEF OrderOf

ProvisionOf(t) == [OrderOf(t, "provision") EXCEPT !.mem = task[t].row.mem, !.disk = task[t].row.disk]
GrowOf(t, d) == [OrderOf(t, "grow") EXCEPT !.disk = d]
RedefineOf(t, m) == [OrderOf(t, "redefine") EXCEPT !.mem = m]
RelabelOf(t) == [OrderOf(t, "redefine") EXCEPT !.name = task[t].name, !.mem = task[t].row.mem]

\* Filling in a size or a name keeps an order one.
LEMMA OrderWith ==
  ASSUME NEW o \in OrderRec
  PROVE  /\ \A m \in Memory : /\ [o EXCEPT !.mem = m] \in OrderRec /\ [o EXCEPT !.mem = m].mem = m
                              /\ [o EXCEPT !.mem = m].kind = o.kind /\ [o EXCEPT !.mem = m].u = o.u
         /\ \A d \in Disk : /\ [o EXCEPT !.disk = d] \in OrderRec /\ [o EXCEPT !.disk = d].disk = d
                            /\ [o EXCEPT !.disk = d].kind = o.kind /\ [o EXCEPT !.disk = d].u = o.u
                            /\ [o EXCEPT !.disk = d].mem = o.mem
         /\ \A n \in Name : /\ [o EXCEPT !.name = n] \in OrderRec
                            /\ [o EXCEPT !.name = n].kind = o.kind /\ [o EXCEPT !.name = n].u = o.u
BY SMT DEF OrderRec

\* The orders of a request that carry sizes are for its instance.
LEMMA SizedOrderOK ==
  ASSUME TasksOK, NEW t \in Slot, task[t].op # None
  PROVE  /\ OrderOK(ProvisionOf(t)) /\ ProvisionOf(t).u = task[t].u
         /\ ProvisionOf(t).kind = "provision" /\ ProvisionOf(t).disk = task[t].row.disk
         /\ \A d \in Disk : /\ OrderOK(GrowOf(t, d)) /\ GrowOf(t, d).u = task[t].u
                            /\ GrowOf(t, d).kind = "grow" /\ GrowOf(t, d).disk = d
         /\ \A m \in Memory : /\ OrderOK(RedefineOf(t, m)) /\ RedefineOf(t, m).u = task[t].u
                              /\ RedefineOf(t, m).kind = "redefine"
         /\ task[t].op = "rename" => /\ OrderOK(RelabelOf(t)) /\ RelabelOf(t).u = task[t].u
                                     /\ RelabelOf(t).kind = "redefine"
<1>1. /\ task[t].u \in Uuid /\ task[t].row.host \in Host /\ task[t].row.name \in Name
      /\ task[t].row.mem \in Memory /\ task[t].row.disk \in Disk
      /\ task[t].op = "rename" => task[t].name \in Name
  BY TaskIs, RowFields, Zenon DEF TasksOK
<1>2. OrderOK(ProvisionOf(t)) /\ ProvisionOf(t).u = task[t].u
         /\ ProvisionOf(t).kind = "provision" /\ ProvisionOf(t).disk = task[t].row.disk
  <2> DEFINE o == OrderOf(t, "provision")
  <2>1. o \in OrderRec /\ o.kind = "provision" /\ o.u = task[t].u
    BY <1>1, SMT DEF OrderRec, Order, OrderOf
  <2> HIDE DEF o
  <2> DEFINE p == [o EXCEPT !.mem = task[t].row.mem]
  <2>2. p \in OrderRec /\ p.kind = o.kind /\ p.u = o.u /\ p.mem \in Memory
    BY <1>1, <2>1, OrderWith, Zenon
  <2>3. ProvisionOf(t) = [p EXCEPT !.disk = task[t].row.disk]
    BY Zenon DEF ProvisionOf, o
  <2> HIDE DEF p
  <2> DEFINE q == [p EXCEPT !.disk = task[t].row.disk]
  <2>4. q \in OrderRec /\ q.kind = p.kind /\ q.u = p.u /\ q.mem = p.mem /\ q.disk = task[t].row.disk
    BY <1>1, <2>2, OrderWith, Zenon
  <2> HIDE DEF q
  <2>5. ProvisionOf(t) = q
    BY <2>3, Zenon DEF q
  <2> QED
    BY <1>1, <2>1, <2>2, <2>4, <2>5, SMT DEF OrderOK
<1>3. ASSUME NEW d \in Disk
      PROVE  /\ OrderOK(GrowOf(t, d)) /\ GrowOf(t, d).u = task[t].u
             /\ GrowOf(t, d).kind = "grow" /\ GrowOf(t, d).disk = d
  BY <1>1, SMT DEF OrderOK, OrderRec, Order, OrderOf, GrowOf
<1>4. ASSUME NEW m \in Memory
      PROVE  /\ OrderOK(RedefineOf(t, m)) /\ RedefineOf(t, m).u = task[t].u
             /\ RedefineOf(t, m).kind = "redefine"
  BY <1>1, SMT DEF OrderOK, OrderRec, Order, OrderOf, RedefineOf
<1>5. task[t].op = "rename" => /\ OrderOK(RelabelOf(t)) /\ RelabelOf(t).u = task[t].u
                               /\ RelabelOf(t).kind = "redefine"
  <2> DEFINE o == OrderOf(t, "redefine")
  <2>1. o \in OrderRec /\ o.kind = "redefine" /\ o.u = task[t].u
    BY <1>1, SMT DEF OrderRec, Order, OrderOf
  <2> HIDE DEF o
  <2> DEFINE p == [o EXCEPT !.name = task[t].name]
  <2>2. task[t].op = "rename" => p \in OrderRec /\ p.kind = o.kind /\ p.u = o.u
    BY <1>1, <2>1, OrderWith, Zenon
  <2>3. RelabelOf(t) = [p EXCEPT !.mem = task[t].row.mem]
    BY Zenon DEF RelabelOf, o
  <2> HIDE DEF p
  <2> DEFINE q == [p EXCEPT !.mem = task[t].row.mem]
  <2>4. task[t].op = "rename" => q \in OrderRec /\ q.kind = p.kind /\ q.u = p.u /\ q.mem \in Memory
    BY <1>1, <2>2, OrderWith, Zenon
  <2> HIDE DEF q
  <2>5. RelabelOf(t) = q
    BY <2>3, Zenon DEF q
  <2> QED
    BY <1>1, <2>1, <2>2, <2>4, <2>5, SMT DEF OrderOK
<1> QED
  BY <1>2, <1>3, <1>4, <1>5, Zenon

Rows == [Uuid -> Row \cup {NoRow}]

\* The parts of a row that the observed and the desired state are not.
SameRow(r, s) ==
  /\ r \in Row /\ s \in Row
  /\ r.name = s.name /\ r.owner = s.owner /\ r.host = s.host /\ r.mem = s.mem /\ r.disk = s.disk

Kept(f) == \A u \in Uuid : (rows[u] = NoRow /\ f[u] = NoRow) \/ SameRow(f[u], rows[u])

SameWish(f) == \A u \in Uuid : f[u] # NoRow => f[u].desired = rows[u].desired

\* A row is the same as itself.
LEMMA RowIs ==
  ASSUME RowsOK, NEW u \in Uuid
  PROVE  rows[u] = NoRow \/ SameRow(rows[u], rows[u])
BY Zenon DEF RowsOK, SameRow

\* The table as it is keeps every row and every wish.
LEMMA NothingKept ==
  ASSUME RowsOK
  PROVE  rows \in Rows /\ Kept(rows) /\ SameWish(rows)
BY RowIs, Zenon DEF RowsOK, Rows, Kept, SameWish

\* Writing the state or the wish of a row keeps the rest of it.
LEMMA RowWith ==
  ASSUME NEW r \in Row, NEW s
  PROVE  /\ s \in {"running", "stopped", "starting"} =>
              SameRow([r EXCEPT !.state = s], r) /\ [r EXCEPT !.state = s].desired = r.desired
         /\ s \in {"running", "stopped"} =>
              SameRow([r EXCEPT !.desired = s], r) /\ [r EXCEPT !.desired = s].desired = s
BY SMT DEF Row, SameRow

\* set_desired_state writes the wish of one row.
LEMMA SetDesiredOK ==
  ASSUME RowsOK, NEW u \in Uuid, rows[u] # NoRow, NEW s \in {"running", "stopped"}
  PROVE  /\ SetDesired(rows, u, s) \in Rows /\ Kept(SetDesired(rows, u, s))
         /\ SetDesired(rows, u, s)[u].desired = s
         /\ \A v \in Uuid \ {u} : SetDesired(rows, u, s)[v] = rows[v]
<1> DEFINE r == [rows[u] EXCEPT !.desired = s]
<1>1. SameRow(r, rows[u]) /\ r.desired = s
  BY RowWith, Zenon DEF RowsOK
<1>2. SetDesired(rows, u, s) = [rows EXCEPT ![u] = r]
  BY Zenon DEF SetDesired
<1> HIDE DEF r
<1>3. r \in Row /\ rows \in Rows
  BY <1>1, Zenon DEF SameRow, RowsOK, Rows
<1> QED
  BY <1>1, <1>2, <1>3, RowIs, Zenon DEF Rows, Kept

\* Writing an observed state keeps every wish.
LEMMA SetObservedOK ==
  ASSUME RowsOK, NEW u \in Uuid, NEW s \in {"running", "stopped", "starting"}
  PROVE  /\ SetObserved(rows, u, s) \in Rows /\ Kept(SetObserved(rows, u, s))
         /\ SameWish(SetObserved(rows, u, s))
<1>1. CASE rows[u] = NoRow
  BY <1>1, NothingKept, Zenon DEF SetObserved
<1>2. CASE rows[u] # NoRow
  <2> DEFINE r == [rows[u] EXCEPT !.state = s]
  <2>1. SameRow(r, rows[u]) /\ r.desired = rows[u].desired
    BY <1>2, RowWith, Zenon DEF RowsOK
  <2>2. SetObserved(rows, u, s) = [rows EXCEPT ![u] = r]
    BY <1>2, Zenon DEF SetObserved
  <2> HIDE DEF r
  <2>3. r \in Row /\ rows \in Rows
    BY <2>1, Zenon DEF SameRow, RowsOK, Rows
  <2> QED
    BY <2>1, <2>2, <2>3, RowIs, Zenon DEF Rows, Kept, SameWish
<1> QED
  BY <1>1, <1>2, Zenon

\* So does writing the states of a whole poll.
LEMMA ObservedAllOK ==
  ASSUME RowsOK, NEW f \in Partial({"running", "stopped"})
  PROVE  /\ ObservedAll(rows, f) \in Rows /\ Kept(ObservedAll(rows, f))
         /\ SameWish(ObservedAll(rows, f))
<1> DEFINE g == ObservedAll(rows, f)
<1>1. \A u \in DOMAIN f : f[u] \in {"running", "stopped"}
  BY Zenon DEF Partial
<1>2. g = [u \in Uuid |-> IF rows[u] # NoRow /\ u \in DOMAIN f
                          THEN [rows[u] EXCEPT !.state = f[u]] ELSE rows[u]]
  BY Zenon DEF ObservedAll
<1>3. ASSUME NEW u \in Uuid
      PROVE  /\ (rows[u] = NoRow /\ g[u] = NoRow) \/ SameRow(g[u], rows[u])
             /\ g[u] # NoRow => g[u].desired = rows[u].desired
  <2>1. CASE rows[u] # NoRow /\ u \in DOMAIN f
    <3>1. g[u] = [rows[u] EXCEPT !.state = f[u]]
      BY <1>2, <2>1, Zenon
    <3>2. rows[u] \in Row /\ f[u] \in {"running", "stopped", "starting"}
      BY <1>1, <2>1, Zenon DEF RowsOK
    <3>3. SameRow([rows[u] EXCEPT !.state = f[u]], rows[u]) /\ [rows[u] EXCEPT !.state = f[u]].desired = rows[u].desired
      BY <3>2, RowWith, Zenon
    <3> QED
      BY <3>1, <3>3, Zenon
  <2>2. CASE ~(rows[u] # NoRow /\ u \in DOMAIN f)
    <3>1. g[u] = rows[u]
      BY <1>2, <2>2, Zenon
    <3> QED
      BY <3>1, RowIs, Zenon
  <2> QED
    BY <2>1, <2>2, Zenon
<1>4. \A u \in Uuid : g[u] \in Row \cup {NoRow}
  BY <1>3, Zenon DEF SameRow
<1>5. g \in Rows
  BY <1>2, <1>4, Zenon DEF Rows
<1> QED
  BY <1>3, <1>5, Zenon DEF Kept, SameWish

\* The number of faults stays within its bound.
LEMMA FaultOK ==
  ASSUME BoundsOK, UNCHANGED asked, Fault \/ UNCHANGED faults
  PROVE  BoundsOK'
BY LifecycleAssumption, SMT DEF BoundsOK, Fault

\* What does not change keeps its type.
LEMMA SameTypes ==
  /\ RowsOK /\ UNCHANGED db => RowsOK'
  /\ HostsOK /\ UNCHANGED <<hosts, late>> => HostsOK'
  /\ TasksOK /\ UNCHANGED task => TasksOK'
  /\ PollOK /\ UNCHANGED poll => PollOK'
  /\ RestoreOK /\ UNCHANGED restore => RestoreOK'
  /\ BoundsOK /\ UNCHANGED <<asked, faults>> => BoundsOK'
<1>1. RowsOK /\ UNCHANGED db => RowsOK'
  BY Zenon DEF RowsOK, db
<1>2. HostsOK /\ UNCHANGED <<hosts, late>> => HostsOK'
  BY Zenon DEF HostsOK, hosts, OrderOK
<1>3. TasksOK /\ UNCHANGED task => TasksOK'
  BY Zenon DEF TasksOK
<1>4. PollOK /\ UNCHANGED poll => PollOK'
  BY SMT DEF PollOK
<1>5. RestoreOK /\ UNCHANGED restore => RestoreOK'
  BY SMT DEF RestoreOK
<1>6. BoundsOK /\ UNCHANGED <<asked, faults>> => BoundsOK'
  BY Zenon DEF BoundsOK
<1> QED
  BY <1>1, <1>2, <1>3, <1>4, <1>5, <1>6, Zenon

-----------------------------------------------------------------------------
(* A minted UUID is in nobody's hands until its row is inserted. *)

Polled == IF poll.at \in {"boots"} \cup Uuid THEN DOMAIN poll.row ELSE {}
Restoring == IF restore.at \in {"batch"} \cup Uuid THEN DOMAIN restore.name ELSE {}

Inserting(t) == task[t].op # None /\ task[t].at = "insert"
Pending(u) == \E o \in late : o.u = u
Held(u) == \E t \in Slot : task[t].op # None /\ task[t].at # "insert" /\ task[t].u = u

Known(u) ==
  \/ rows[u] # NoRow \/ dom[u] # NoDomain \/ disk[u] # 0
  \/ Pending(u) \/ Held(u)
  \/ u \in built \/ u \in halted \/ u \in Polled \/ u \in Restoring

MintOK ==
  /\ \A u \in Uuid : Known(u) => u \in used
  /\ \A t \in Slot : Inserting(t) => task[t].u \in used /\ ~Known(task[t].u)
  /\ \A s, t \in Slot : Inserting(s) /\ Inserting(t) /\ s # t => task[s].u # task[t].u

HostFewer ==
  \A u \in Uuid : dom'[u] # NoDomain \/ disk'[u] # 0 \/ Pending(u)' => Known(u)
TaskFewer ==
  /\ \A u \in Uuid : Held(u)' => Held(u)
  /\ \A t \in Slot : Inserting(t)' => Inserting(t) /\ task'[t].u = task[t].u
RowFewer == \A u \in Uuid : rows'[u] # NoRow => Known(u)
ViewFewer ==
  \A u \in Uuid : u \in built' \/ u \in halted' \/ u \in Polled' \/ u \in Restoring' => Known(u)

\* What every step does but a request and the insertion of its row.
Fewer == UNCHANGED used /\ RowFewer /\ HostFewer /\ TaskFewer /\ ViewFewer

\* A step after which no more UUIDs are known keeps minted UUIDs unknown.
LEMMA FewerMint ==
  ASSUME Types, MintOK, Fewer
  PROVE  MintOK'
<1>1. \A u \in Uuid : Known(u)' => Known(u)
  BY Zenon DEF Fewer, RowFewer, HostFewer, TaskFewer, ViewFewer, Known
<1>2. \A t \in Slot : Inserting(t)' => Inserting(t) /\ task'[t].u = task[t].u /\ task[t].u \in Uuid
  BY TaskIs, Zenon DEF Fewer, TaskFewer, Types, TasksOK, Inserting
<1>3. \A u \in Uuid : Known(u)' => u \in used'
  BY <1>1, Zenon DEF MintOK, Fewer
<1>4. \A t \in Slot : Inserting(t)' => task'[t].u \in used' /\ ~Known(task[t].u)'
  BY <1>1, <1>2, Zenon DEF MintOK, Fewer
<1>5. \A s, t \in Slot : Inserting(s)' /\ Inserting(t)' /\ s # t => task'[s].u # task'[t].u
  BY <1>2, Zenon DEF MintOK
<1> QED
  BY <1>3, <1>4, <1>5, Zenon DEF MintOK

\* A request moves on to another step, or ends.
Steps(t) == End(t) \/ \E s \in Place \ {"insert"} : Goto(t, s)

\* A request that moves on or ends brings up no other UUID.
LEMMA StepsFewer ==
  ASSUME TasksOK, NEW t \in Slot, task[t].op # None, task[t].at # "insert", Steps(t)
  PROVE  TasksOK' /\ TaskFewer
<1>1. CASE End(t)
  <2>1. TasksOK' /\ Ends(t)
    BY <1>1, AfterEnd, Zenon
  <2>2. \A x \in Slot : task'[x] = Idle \/ task'[x] = task[x]
    BY <2>1, Zenon DEF Ends, Others
  <2>3. Idle.op = None
    BY Zenon DEF Idle
  <2> QED
    BY <2>1, <2>2, <2>3, Zenon DEF TaskFewer, Held, Inserting
<1>2. CASE \E s \in Place \ {"insert"} : Goto(t, s)
  <2>1. PICK s \in Place \ {"insert"} : Goto(t, s)
    BY <1>2, Zenon
  <2>2. TasksOK' /\ Moves(t, s)
    BY <2>1, AfterGoto, Zenon
  <2>3. \A x \in Slot : task'[x] = task[x] \/ (x = t /\ task'[x].at = s /\ task'[x].u = task[x].u)
    BY <2>2, Zenon DEF Moves, Others, SameTask
  <2> QED
    BY <2>2, <2>3, Zenon DEF TaskFewer, Held, Inserting
<1> QED
  BY <1>1, <1>2, Zenon DEF Steps

\* A request past its insertion makes its UUID known.
LEMMA HolderKnown ==
  ASSUME NEW t \in Slot, task[t].op # None, task[t].at # "insert"
  PROVE  Known(task[t].u)
BY Zenon DEF Known, Held

\* A step of a request that calls a machine.
LEMMA CallStep ==
  ASSUME Types, NEW t \in Slot, task[t].op # None, task[t].at # "insert", Steps(t),
         NEW o, OrderOK(o), o.u = task[t].u, NEW a \in Answers(o), Take(a),
         UNCHANGED <<db, used, background, asked>>,
         halted' \subseteq halted \cup {task[t].u}, built' \subseteq built \cup {task[t].u}
  PROVE  Types' /\ Fewer
<1>1. TasksOK' /\ TaskFewer
  BY StepsFewer, Zenon DEF Types
<1>2. HostsOK' /\ faults' \in 0 .. MaxFaults /\ Effect(o)
  BY TakeOK, Zenon DEF Types
<1>3. Known(task[t].u) /\ task[t].u \in Uuid
  BY HolderKnown, TaskIs, Zenon DEF Types, TasksOK
<1>4. HostFewer
  BY <1>2, <1>3, Zenon DEF Effect, HostFewer, Known, Pending
<1>5. PollOK' /\ RestoreOK' /\ RowsOK'
  BY SameTypes, Zenon DEF Types, background
<1>6. BoundsOK' /\ HistoryOK'
  BY <1>2, <1>3, Zenon DEF Types, BoundsOK, HistoryOK
<1>7. ViewFewer
  BY <1>3, Zenon DEF ViewFewer, Known, Polled, Restoring, background
<1>8. RowFewer
  BY Zenon DEF RowFewer, Known, db
<1> QED
  BY <1>1, <1>2, <1>4, <1>5, <1>6, <1>7, <1>8, Zenon DEF Types, Fewer

\* A step of a request that works on the files or the domain of its UUID.
LEMMA FileStep ==
  ASSUME Types, NEW t \in Slot, task[t].op # None, task[t].at # "insert", Steps(t),
         dom' \in Doms, disk' \in Disks, iso' \in [Uuid -> BOOLEAN],
         \A v \in Uuid \ {task[t].u} : dom'[v] = dom[v] /\ disk'[v] = disk[v],
         UNCHANGED <<db, used, late, background, asked, halted>>, Fault \/ UNCHANGED faults,
         built' \subseteq built \cup {task[t].u}
  PROVE  Types' /\ Fewer
<1>1. TasksOK' /\ TaskFewer
  BY StepsFewer, Zenon DEF Types
<1>2. HostsOK' /\ BoundsOK'
  BY FaultOK, Zenon DEF Types, HostsOK, OrderOK
<1>3. Known(task[t].u) /\ task[t].u \in Uuid
  BY HolderKnown, TaskIs, Zenon DEF Types, TasksOK
<1>4. HostFewer
  BY <1>3, Zenon DEF HostFewer, Known, Pending
<1>5. PollOK' /\ RestoreOK' /\ RowsOK'
  BY SameTypes, Zenon DEF Types, background
<1>6. HistoryOK'
  BY <1>3, Zenon DEF Types, HistoryOK
<1>7. ViewFewer
  BY <1>3, Zenon DEF ViewFewer, Known, Polled, Restoring, background
<1>8. RowFewer
  BY Zenon DEF RowFewer, Known, db
<1> QED
  BY <1>1, <1>2, <1>4, <1>5, <1>6, <1>7, <1>8, Zenon DEF Types, Fewer

\* A step of a request that writes the database.
LEMMA RowStep ==
  ASSUME Types, NEW t \in Slot, task[t].op # None, task[t].at # "insert",
         TasksOK' /\ TaskFewer, RowsOK', \A v \in Uuid : rows'[v] # NoRow => rows[v] # NoRow,
         UNCHANGED <<used, hosts, late, background, asked, faults, built>>, halted' \subseteq halted
  PROVE  Types' /\ Fewer
<1>1. HostsOK' /\ BoundsOK' /\ PollOK' /\ RestoreOK'
  BY SameTypes, Zenon DEF Types, background
<1>2. HistoryOK'
  BY Zenon DEF Types, HistoryOK
<1>3. HostFewer
  BY Zenon DEF HostFewer, Known, Pending, hosts
<1>4. ViewFewer
  BY Zenon DEF ViewFewer, Known, Polled, Restoring, background
<1>5. RowFewer
  BY Zenon DEF RowFewer, Known
<1> QED
  BY <1>1, <1>2, <1>3, <1>4, <1>5, Zenon DEF Types, Fewer

\* A step of a background task, of a machine or of a guest.
LEMMA BackStep ==
  ASSUME Types, TasksOK' /\ TaskFewer, PollOK', RestoreOK', HostsOK', BoundsOK', RowsOK',
         UNCHANGED <<used, built>>, halted' \subseteq halted, RowFewer, HostFewer,
         \A u \in Polled' \cup Restoring' : Known(u)
  PROVE  Types' /\ Fewer
<1>1. HistoryOK'
  BY Zenon DEF Types, HistoryOK
<1>2. ViewFewer
  BY Zenon DEF ViewFewer, Known
<1> QED
  BY <1>1, <1>2, Zenon DEF Types, Fewer

-----------------------------------------------------------------------------
(* The steps of a request. *)

\* The steps that call a machine.
LEMMA CallSteps ==
  ASSUME Types, NEW t \in Slot,
         \/ StartDomain(t) \/ StopDomain(t) \/ RestartReboot(t) \/ RemoveDomain(t)
         \/ NewProvision(t) \/ CopyGrow(t) \/ RenameUndefine(t) \/ RenameElsewhere(t)
         \/ ResizeGrow(t) \/ ResizeRedefine(t)
  PROVE  Types' /\ Fewer
<1>0. TasksOK /\ task[t] \in TaskRec
  BY Zenon DEF Types, TasksOK
<1>1. CASE StartDomain(t)
  <2>1. task[t].op # None /\ task[t].at # "insert"
    BY <1>1, Zenon DEF StartDomain, At, None
  <2>2. OrderOK(OrderOf(t, "start")) /\ OrderOf(t, "start").u = task[t].u
    BY <1>0, <1>1, <2>1, OrderOfOK, TaskIs, RowFields, Zenon DEF StartDomain, At
  <2>3. PICK a \in Answers(OrderOf(t, "start")) : Take(a) /\ Steps(t)
             /\ halted' \subseteq halted \cup {task[t].u} /\ built' \subseteq built \cup {task[t].u}
    BY <1>1, Zenon DEF StartDomain, Steps, Place, Woken
  <2> QED
    BY <1>1, <2>1, <2>2, <2>3, CallStep, Zenon DEF StartDomain
<1>2. CASE StopDomain(t)
  <2>1. task[t].op # None /\ task[t].at # "insert"
    BY <1>2, Zenon DEF StopDomain, At, None
  <2>2. OrderOK(OrderOf(t, "stop")) /\ OrderOf(t, "stop").u = task[t].u
    BY <1>0, <1>2, <2>1, OrderOfOK, TaskIs, RowFields, Zenon DEF StopDomain, At
  <2>3. PICK a \in Answers(OrderOf(t, "stop")) : Take(a) /\ Steps(t)
             /\ halted' \subseteq halted \cup {task[t].u} /\ built' \subseteq built \cup {task[t].u}
    BY <1>2, Zenon DEF StopDomain, Steps, Place
  <2> QED
    BY <1>2, <2>1, <2>2, <2>3, CallStep, Zenon DEF StopDomain
<1>3. CASE RestartReboot(t)
  <2>1. task[t].op # None /\ task[t].at # "insert"
    BY <1>3, Zenon DEF RestartReboot, At, None
  <2>2. OrderOK(OrderOf(t, "reboot")) /\ OrderOf(t, "reboot").u = task[t].u
    BY <1>0, <1>3, <2>1, OrderOfOK, TaskIs, RowFields, Zenon DEF RestartReboot, At
  <2>3. PICK a \in Answers(OrderOf(t, "reboot")) : Take(a) /\ Steps(t)
             /\ halted' \subseteq halted \cup {task[t].u} /\ built' \subseteq built \cup {task[t].u}
    BY <1>3, Zenon DEF RestartReboot, Steps, Place, Woken
  <2> QED
    BY <1>3, <2>1, <2>2, <2>3, CallStep, Zenon DEF RestartReboot
<1>4. CASE RemoveDomain(t)
  <2>1. task[t].op # None /\ task[t].at # "insert"
    BY <1>4, Zenon DEF RemoveDomain, At, None
  <2>2. OrderOK(OrderOf(t, "remove")) /\ OrderOf(t, "remove").u = task[t].u
    BY <1>0, <1>4, <2>1, OrderOfOK, TaskIs, RowFields, Zenon DEF RemoveDomain, At
  <2>3. PICK a \in Answers(OrderOf(t, "remove")) : Take(a) /\ Steps(t)
             /\ halted' \subseteq halted \cup {task[t].u} /\ built' \subseteq built \cup {task[t].u}
    BY <1>4, Zenon DEF RemoveDomain, Steps, Place, Woken
  <2> QED
    BY <1>4, <2>1, <2>2, <2>3, CallStep, Zenon DEF RemoveDomain
<1>5. CASE NewProvision(t)
  <2>1. task[t].op # None /\ task[t].at # "insert"
    BY <1>5, Zenon DEF NewProvision, At, None
  <2>2. OrderOK(ProvisionOf(t)) /\ ProvisionOf(t).u = task[t].u
    BY <1>0, <1>5, <2>1, SizedOrderOK, TaskIs, RowFields, Zenon DEF NewProvision, At
  <2>3. PICK a \in Answers(ProvisionOf(t)) : Take(a) /\ Steps(t)
             /\ halted' \subseteq halted \cup {task[t].u} /\ built' \subseteq built \cup {task[t].u}
    BY <1>5, Zenon DEF NewProvision, Steps, Place, Woken, ProvisionOf
  <2> QED
    BY <1>5, <2>1, <2>2, <2>3, CallStep, Zenon DEF NewProvision
<1>6. CASE CopyGrow(t)
  <2>1. task[t].op # None /\ task[t].at # "insert"
    BY <1>6, Zenon DEF CopyGrow, At, None
  <2>2. OrderOK(GrowOf(t, task[t].row.disk)) /\ GrowOf(t, task[t].row.disk).u = task[t].u
    BY <1>0, <1>6, <2>1, SizedOrderOK, TaskIs, RowFields, Zenon DEF CopyGrow, At
  <2>3. PICK a \in Answers(GrowOf(t, task[t].row.disk)) : Take(a) /\ Steps(t)
             /\ halted' \subseteq halted \cup {task[t].u} /\ built' \subseteq built \cup {task[t].u}
    BY <1>6, Zenon DEF CopyGrow, Steps, Place, GrowOf
  <2> QED
    BY <1>6, <2>1, <2>2, <2>3, CallStep, Zenon DEF CopyGrow
<1>7. CASE RenameUndefine(t)
  <2>1. task[t].op # None /\ task[t].at # "insert"
    BY <1>7, Zenon DEF RenameUndefine, At, None
  <2>2. OrderOK(OrderOf(t, "remove")) /\ OrderOf(t, "remove").u = task[t].u
    BY <1>0, <1>7, <2>1, OrderOfOK, TaskIs, RowFields, Zenon DEF RenameUndefine, At
  <2>3. PICK a \in Answers(OrderOf(t, "remove")) : Take(a) /\ Steps(t)
             /\ halted' \subseteq halted \cup {task[t].u} /\ built' \subseteq built \cup {task[t].u}
    BY <1>7, Zenon DEF RenameUndefine, Steps, Place, Woken
  <2> QED
    BY <1>7, <2>1, <2>2, <2>3, CallStep, Zenon DEF RenameUndefine
<1>8. CASE RenameElsewhere(t)
  <2>1. task[t].op # None /\ task[t].at # "insert"
    BY <1>8, Zenon DEF RenameElsewhere, At, None
  <2>2. OrderOK(RelabelOf(t)) /\ RelabelOf(t).u = task[t].u
    BY <1>0, <1>8, <2>1, SizedOrderOK, TaskIs, RowFields, Zenon DEF RenameElsewhere, At
  <2>3. PICK a \in Answers(RelabelOf(t)) : Take(a) /\ Steps(t)
             /\ halted' \subseteq halted \cup {task[t].u} /\ built' \subseteq built \cup {task[t].u}
    BY <1>8, Zenon DEF RenameElsewhere, Steps, Place, Woken, RelabelOf
  <2> QED
    BY <1>8, <2>1, <2>2, <2>3, CallStep, Zenon DEF RenameElsewhere
<1>9. CASE ResizeGrow(t)
  <2>1. task[t].op # None /\ task[t].at # "insert"
    BY <1>9, Zenon DEF ResizeGrow, At, None
  <2>2. OrderOK(GrowOf(t, task[t].disk)) /\ GrowOf(t, task[t].disk).u = task[t].u
    BY <1>0, <1>9, <2>1, SizedOrderOK, TaskIs, RowFields, Zenon DEF ResizeGrow, At
  <2>3. PICK a \in Answers(GrowOf(t, task[t].disk)) : Take(a) /\ Steps(t)
             /\ halted' \subseteq halted \cup {task[t].u} /\ built' \subseteq built \cup {task[t].u}
    BY <1>9, Zenon DEF ResizeGrow, Steps, Place, GrowOf
  <2> QED
    BY <1>9, <2>1, <2>2, <2>3, CallStep, Zenon DEF ResizeGrow
<1>10. CASE ResizeRedefine(t)
  <2>1. task[t].op # None /\ task[t].at # "insert"
    BY <1>10, Zenon DEF ResizeRedefine, At, None
  <2>2. OrderOK(RedefineOf(t, task[t].mem)) /\ RedefineOf(t, task[t].mem).u = task[t].u
    BY <1>0, <1>10, <2>1, SizedOrderOK, TaskIs, RowFields, Zenon DEF ResizeRedefine, At
  <2>3. PICK a \in Answers(RedefineOf(t, task[t].mem)) : Take(a) /\ Steps(t)
             /\ halted' \subseteq halted \cup {task[t].u} /\ built' \subseteq built \cup {task[t].u}
    BY <1>10, Zenon DEF ResizeRedefine, Steps, Place, Woken, RedefineOf
  <2> QED
    BY <1>10, <2>1, <2>2, <2>3, CallStep, Zenon DEF ResizeRedefine
<1> QED
  BY <1>1, <1>2, <1>3, <1>4, <1>5, <1>6, <1>7, <1>8, <1>9, <1>10, Zenon

Releases == [Name -> Owner \cup {Nobody}]

\* Releasing a name keeps the table of released names.
LEMMA ReleasedByOK ==
  ASSUME RowsOK, NEW r \in Row
  PROVE  ReleasedBy(released, r) \in Releases
BY RowFields, Zenon DEF RowsOK, Releases, ReleasedBy

\* delete_instance takes one row.
LEMMA DeletedOK ==
  ASSUME RowsOK, NEW u \in Uuid
  PROVE  /\ Deleted(rows, u) \in Rows /\ Deleted(rows, u)[u] = NoRow
         /\ \A v \in Uuid \ {u} : Deleted(rows, u)[v] = rows[v]
BY Zenon DEF RowsOK, Rows, Deleted

\* A rename writes the name of one row.
LEMMA RenamedOK ==
  ASSUME RowsOK, NEW u \in Uuid, rows[u] # NoRow, NEW n \in Name
  PROVE  /\ RenamedRows(rows, u, n) \in Rows /\ RenamedRows(rows, u, n)[u] \in Row
         /\ RenamedRows(rows, u, n)[u].name = n
         /\ RenamedRows(rows, u, n)[u].owner = rows[u].owner
         /\ RenamedRows(rows, u, n)[u].host = rows[u].host
         /\ RenamedRows(rows, u, n)[u].mem = rows[u].mem
         /\ RenamedRows(rows, u, n)[u].disk = rows[u].disk
         /\ RenamedRows(rows, u, n)[u].desired = rows[u].desired
         /\ \A v \in Uuid \ {u} : RenamedRows(rows, u, n)[v] = rows[v]
<1> DEFINE r == [rows[u] EXCEPT !.name = n]
<1>1. rows[u] \in Row
  BY Zenon DEF RowsOK
<1>2. /\ r \in Row /\ r.name = n /\ r.owner = rows[u].owner /\ r.host = rows[u].host
      /\ r.mem = rows[u].mem /\ r.disk = rows[u].disk /\ r.desired = rows[u].desired
  BY <1>1, SMT DEF Row
<1>3. RenamedRows(rows, u, n) = [rows EXCEPT ![u] = r]
  BY Zenon DEF RenamedRows
<1> HIDE DEF r
<1>4. /\ RenamedRows(rows, u, n) \in Rows /\ RenamedRows(rows, u, n)[u] = r
      /\ \A v \in Uuid \ {u} : RenamedRows(rows, u, n)[v] = rows[v]
  BY <1>2, <1>3, Zenon DEF RowsOK, Rows
<1> QED
  BY <1>2, <1>4, Zenon

\* A resize writes the sizes of one row.
LEMMA ResizedOK ==
  ASSUME RowsOK, NEW u \in Uuid, rows[u] # NoRow, NEW m \in Memory, NEW d \in Disk
  PROVE  /\ ResizedRows(rows, u, m, d) \in Rows /\ ResizedRows(rows, u, m, d)[u] \in Row
         /\ ResizedRows(rows, u, m, d)[u].name = rows[u].name
         /\ ResizedRows(rows, u, m, d)[u].owner = rows[u].owner
         /\ ResizedRows(rows, u, m, d)[u].host = rows[u].host
         /\ ResizedRows(rows, u, m, d)[u].mem = m
         /\ ResizedRows(rows, u, m, d)[u].disk = d
         /\ ResizedRows(rows, u, m, d)[u].desired = rows[u].desired
         /\ \A v \in Uuid \ {u} : ResizedRows(rows, u, m, d)[v] = rows[v]
<1> DEFINE q == [rows[u] EXCEPT !.mem = m]
           r == [q EXCEPT !.disk = d]
<1>1. rows[u] \in Row
  BY Zenon DEF RowsOK
<1>2. /\ q \in Row /\ q.name = rows[u].name /\ q.owner = rows[u].owner /\ q.host = rows[u].host
      /\ q.mem = m /\ q.desired = rows[u].desired
  BY <1>1, SMT DEF Row
<1> DEFINE f == [rows EXCEPT ![u] = q]
<1>3. ResizedRows(rows, u, m, d) = [f EXCEPT ![u] = r]
  <2>1. ResizedRows(rows, u, m, d) = [f EXCEPT ![u] = [f[u] EXCEPT !.disk = d]]
    BY Zenon DEF ResizedRows
  <2> HIDE DEF q
  <2>2. f[u] = q
    BY Zenon DEF RowsOK
  <2> HIDE DEF f
  <2> QED
    BY <2>1, <2>2, Zenon
<1> HIDE DEF q
<1>4. /\ r \in Row /\ r.name = q.name /\ r.owner = q.owner /\ r.host = q.host
      /\ r.mem = q.mem /\ r.disk = d /\ r.desired = q.desired
  BY <1>2, SMT DEF Row
<1> HIDE DEF r
<1>5. /\ ResizedRows(rows, u, m, d) \in Rows /\ ResizedRows(rows, u, m, d)[u] = r
      /\ \A v \in Uuid \ {u} : ResizedRows(rows, u, m, d)[v] = rows[v]
  <2>1. f \in Rows /\ \A v \in Uuid \ {u} : f[v] = rows[v]
    BY <1>2, Zenon DEF RowsOK, Rows
  <2> HIDE DEF f
  <2> QED
    BY <1>3, <1>4, <2>1, Zenon DEF Rows
<1> QED
  BY <1>2, <1>4, <1>5, Zenon

\* The row of u goes, and its name is released.
Deletes(u) ==
  rows[u] # NoRow /\ rows' = Deleted(rows, u) /\ released' = ReleasedBy(released, rows[u])

\* The row of u takes another name, and the old one is released.
Relabels(u, n) ==
  /\ RenameOk(rows, released, u, n)
  /\ rows' = RenamedRows(rows, u, n) /\ released' = RenamedReleases(rows, released, u, n)

Resizes(u, m, d) ==
  ResizeOk(rows, u, m, d) /\ rows' = ResizedRows(rows, u, m, d) /\ UNCHANGED released

\* What the steps that insert no row do with the database.
RowChange ==
  \/ rows' \in Rows /\ Kept(rows') /\ UNCHANGED released
  \/ \E u \in Uuid : Deletes(u)
  \/ \E u \in Uuid, n \in Name : Relabels(u, n)
  \/ \E t \in Slot : /\ At(t, "resize", "row")
                     /\ Resizes(task[t].u, task[t].mem, task[t].disk)
  \/ UNCHANGED rows /\ \E n \in Name : released' = [released EXCEPT ![n] = Nobody]

\* Whatever changes the table between insertions adds no row.
LEMMA RowChangeOK ==
  ASSUME Types, RowChange
  PROVE  RowsOK' /\ \A v \in Uuid : rows'[v] # NoRow => rows[v] # NoRow
<1>0. RowsOK /\ rows \in Rows /\ released \in Releases
  BY Zenon DEF Types, RowsOK, Rows, Releases
<1>1. CASE rows' \in Rows /\ Kept(rows') /\ UNCHANGED released
  BY <1>0, <1>1, RowFields, Zenon DEF RowsOK, Rows, Kept, SameRow
<1>2. ASSUME NEW u \in Uuid, Deletes(u)
      PROVE  RowsOK' /\ \A v \in Uuid : rows'[v] # NoRow => rows[v] # NoRow
  <2>1. rows[u] \in Row
    BY <1>0, <1>2, Zenon DEF Rows, Deletes
  <2>2. released' \in Releases
    BY <1>0, <1>2, <2>1, ReleasedByOK, Zenon DEF Deletes
  <2>3. rows' \in Rows /\ rows'[u] = NoRow /\ \A v \in Uuid \ {u} : rows'[v] = rows[v]
    BY <1>0, <1>2, DeletedOK, Zenon DEF Deletes
  <2> QED
    BY <2>2, <2>3, Zenon DEF RowsOK, Rows, Releases
<1>3. ASSUME NEW u \in Uuid, NEW n \in Name, Relabels(u, n)
      PROVE  RowsOK' /\ \A v \in Uuid : rows'[v] # NoRow => rows[v] # NoRow
  <2>1. rows[u] # NoRow /\ rows[u] \in Row
    BY <1>0, <1>3, Zenon DEF Rows, Relabels, RenameOk
  <2>2. released' \in Releases
    BY <1>0, <1>3, <2>1, ReleasedByOK, Zenon DEF Relabels, RenamedReleases
  <2>3. rows' \in Rows /\ \A v \in Uuid \ {u} : rows'[v] = rows[v]
    BY <1>0, <1>3, <2>1, RenamedOK, Zenon DEF Relabels
  <2> QED
    BY <2>1, <2>2, <2>3, Zenon DEF RowsOK, Rows, Releases
<1>4. ASSUME NEW t \in Slot, At(t, "resize", "row"), Resizes(task[t].u, task[t].mem, task[t].disk)
      PROVE  RowsOK' /\ \A v \in Uuid : rows'[v] # NoRow => rows[v] # NoRow
  <2>1. task[t].u \in Uuid /\ task[t].mem \in Memory /\ task[t].disk \in Disk
    BY <1>4, TaskIs, Zenon DEF Types, TasksOK, At, None
  <2>2. rows[task[t].u] # NoRow
    BY <1>4, Zenon DEF Resizes, ResizeOk
  <2>3. rows' \in Rows /\ \A v \in Uuid \ {task[t].u} : rows'[v] = rows[v]
    BY <1>0, <1>4, <2>1, <2>2, ResizedOK, SMT DEF Resizes
  <2>4. released' \in Releases
    BY <1>0, <1>4, Zenon DEF Resizes
  <2> QED
    BY <2>2, <2>3, <2>4, Zenon DEF RowsOK, Rows, Releases
<1>5. ASSUME NEW n \in Name, UNCHANGED rows, released' = [released EXCEPT ![n] = Nobody]
      PROVE  RowsOK' /\ \A v \in Uuid : rows'[v] # NoRow => rows[v] # NoRow
  BY <1>0, <1>5, Zenon DEF RowsOK, Rows, Releases
<1> QED
  BY <1>1, <1>2, <1>3, <1>4, <1>5, Zenon DEF RowChange

\* No change is one of the changes.
LEMMA NoRowChange ==
  ASSUME Types, UNCHANGED db
  PROVE  RowChange
BY NothingKept, Zenon DEF RowChange, Types, db

\* A recorded state is one of the changes.
LEMMA RecordChange ==
  ASSUME Types, NEW t \in Slot, task[t].op # None, NEW s \in {"running", "stopped"},
         rows' = SetObserved(rows, task[t].u, s), UNCHANGED released
  PROVE  RowChange
BY TaskIs, SetObservedOK, Zenon DEF RowChange, Types, TasksOK

\* The steps that write a wish or an observed state.
LEMMA WriteSteps ==
  ASSUME Types, NEW t \in Slot,
         \/ StartDesired(t) \/ StartRecord(t) \/ StopDesired(t) \/ StopRecord(t)
         \/ RestartDesired(t) \/ NewRecord(t) \/ CopyRecord(t)
  PROVE  Types' /\ Fewer /\ RowChange
<1>0. TasksOK /\ task[t] \in TaskRec
  BY Zenon DEF Types, TasksOK
<1>1. ASSUME NEW op \in {"start", "stop", "new", "copy"}, NEW s \in {"running", "stopped"}, Record(t, op, s)
      PROVE  Types' /\ Fewer /\ RowChange
  <2>1. task[t].op # None /\ task[t].at # "insert" /\ Steps(t) /\ UNCHANGED released
    BY <1>1, Zenon DEF Record, At, None, Steps
  <2>2. RowChange
    BY <1>1, <2>1, RecordChange, Zenon DEF Record
  <2>3. TasksOK' /\ TaskFewer
    BY <1>0, <2>1, StepsFewer, Zenon
  <2>4. UNCHANGED <<used, hosts, late, background, asked, faults, built>> /\ halted' \subseteq halted
    BY <1>1, Zenon DEF Record, history
  <2> QED
    BY <2>1, <2>2, <2>3, <2>4, RowChangeOK, RowStep, Zenon
<1>2. ASSUME NEW op \in {"start", "restart"}, NEW next \in {"record", None}, Desire(t, op, next)
      PROVE  Types' /\ Fewer /\ RowChange
  <2>1. task[t].op # None /\ task[t].at # "insert" /\ Steps(t) /\ UNCHANGED released
    BY <1>2, Zenon DEF Desire, At, None, Steps, Place
  <2>2. task[t].u \in Uuid /\ RowsOK
    BY <1>0, <2>1, TaskIs, Zenon DEF Types
  <2>3. ASSUME rows[task[t].u] = NoRow PROVE RowChange
    BY <1>2, <2>1, <2>3, NoRowChange, Zenon DEF Desire, db
  <2>4. ASSUME rows[task[t].u] # NoRow PROVE RowChange
    <3>1. rows' = SetDesired(rows, task[t].u, "running")
      BY <1>2, <2>4, Zenon DEF Desire
    <3> QED
      BY <2>1, <2>2, <2>4, <3>1, SetDesiredOK, Zenon DEF RowChange
  <2>5. TasksOK' /\ TaskFewer
    BY <1>0, <2>1, StepsFewer, Zenon
  <2>6. UNCHANGED <<used, hosts, late, background, asked, faults, built>> /\ halted' \subseteq halted
    BY <1>2, Zenon DEF Desire
  <2> QED
    BY <2>1, <2>3, <2>4, <2>5, <2>6, RowChangeOK, RowStep, Zenon
<1>3. CASE StopDesired(t)
  <2>1. task[t].op # None /\ task[t].at # "insert" /\ Steps(t) /\ UNCHANGED released
    BY <1>3, Zenon DEF StopDesired, At, None, Steps, Place
  <2>2. task[t].u \in Uuid /\ RowsOK
    BY <1>0, <2>1, TaskIs, Zenon DEF Types
  <2>3. ASSUME rows[task[t].u] = NoRow PROVE RowChange
    BY <1>3, <2>1, <2>3, NoRowChange, Zenon DEF StopDesired, db
  <2>4. ASSUME rows[task[t].u] # NoRow PROVE RowChange
    <3>1. rows' = SetDesired(rows, task[t].u, "stopped")
      BY <1>3, <2>4, Zenon DEF StopDesired
    <3> QED
      BY <2>1, <2>2, <2>4, <3>1, SetDesiredOK, Zenon DEF RowChange
  <2>5. TasksOK' /\ TaskFewer
    BY <1>0, <2>1, StepsFewer, Zenon
  <2>6. UNCHANGED <<used, hosts, late, background, asked, faults, built>> /\ halted' \subseteq halted
    BY <1>3, Zenon DEF StopDesired, history
  <2> QED
    BY <2>1, <2>3, <2>4, <2>5, <2>6, RowChangeOK, RowStep, Zenon
<1> QED
  BY <1>1, <1>2, <1>3, Zenon DEF StartDesired, StartRecord, StopRecord, RestartDesired, NewRecord, CopyRecord

\* A deletion is one of the changes.
LEMMA DeleteChange ==
  ASSUME Types, NEW u \in Uuid, DeleteRow(u)
  PROVE  RowChange
BY NoRowChange, Zenon DEF DeleteRow, RowChange, Deletes

\* So is a new name.
LEMMA RelabelChange ==
  ASSUME Types, NEW u \in Uuid, NEW n \in Name, Relabel(u, n)
  PROVE  RowChange
BY NoRowChange, Zenon DEF Relabel, RowChange, Relabels

\* A rename that looked for a seed notes what it found and moves on.
LEMMA RenamedTask ==
  ASSUME TasksOK, NEW t \in Slot, task[t].op = "rename", task[t].at # "insert",
         NEW b, b \in BOOLEAN, NEW s \in Place \ {"insert"},
         task' = [task EXCEPT ![t] = [[task[t] EXCEPT !.iso = b] EXCEPT !.at = s]]
  PROVE  TasksOK' /\ TaskFewer /\ Others(t) /\ task'[t].op = "rename" /\ task'[t].at = s
<1> DEFINE v == [task[t] EXCEPT !.iso = b]
           w == [v EXCEPT !.at = s]
<1>1. task[t] \in RenameTask
  <2>1. task[t] \in TaskRec
    BY Zenon DEF TasksOK
  <2> QED
    BY <2>1, SMT DEF TaskRec, PlainTask, PlainOp, CopyTask, ResizeTask, RenameTask, Idle, None
<1>2. v \in RenameTask /\ v.u = task[t].u
  BY <1>1, SMT DEF RenameTask
<1> HIDE DEF v
<1>3. w \in RenameTask /\ w.u = v.u /\ w.at = s /\ w.op = "rename"
  BY <1>2, SMT DEF RenameTask
<1>4. task' = [task EXCEPT ![t] = w]
  BY Zenon DEF v
<1> HIDE DEF w
<1>5. TasksOK' /\ task'[t] = w /\ Others(t)
  BY <1>3, <1>4, AfterTask, Zenon DEF TaskRec
<1>6. TaskFewer
  <2>1. \A x \in Slot : task'[x] = task[x] \/ (x = t /\ task'[x].at = s /\ task'[x].u = task[x].u)
    BY <1>2, <1>3, <1>5, Zenon DEF Others
  <2>2. task[t].op # None
    BY Zenon DEF None
  <2> QED
    BY <2>1, <2>2, Zenon DEF TaskFewer, Held, Inserting
<1> QED
  BY <1>3, <1>5, <1>6, Zenon

\* The steps that delete, rename or resize a row.
LEMMA ChangeSteps ==
  ASSUME Types, NEW t \in Slot,
         RemoveRow(t) \/ UnwindRow(t) \/ RenameRow(t) \/ RenameRevert(t) \/ ResizeRow(t)
  PROVE  Types' /\ Fewer /\ RowChange
<1>0. TasksOK /\ task[t] \in TaskRec
  BY Zenon DEF Types, TasksOK
<1>1. task[t].op # None /\ task[t].at # "insert" /\ task[t].u \in Uuid /\ task[t].row \in Row
  <2>1. task[t].op # None /\ task[t].at # "insert"
    BY Zenon DEF RemoveRow, UnwindRow, RenameRow, RenameRevert, ResizeRow, At, None
  <2> QED
    BY <1>0, <2>1, TaskIs, Zenon
<1>2. UNCHANGED <<used, hosts, late, background, asked, faults, built>> /\ halted' \subseteq halted
  BY Zenon DEF RemoveRow, UnwindRow, RenameRow, RenameRevert, ResizeRow, history
<1>3. RowChange
  <2>1. CASE RemoveRow(t) \/ UnwindRow(t)
    BY <1>1, <2>1, DeleteChange, Zenon DEF RemoveRow, UnwindRow
  <2>2. CASE RenameRow(t)
    <3>1. task[t].name \in Name
      BY <1>0, <2>2, TaskIs, Zenon DEF RenameRow, At
    <3> QED
      BY <1>1, <2>2, <3>1, RelabelChange, Zenon DEF RenameRow
  <2>3. CASE RenameRevert(t)
    BY <1>1, <2>3, RowFields, RelabelChange, Zenon DEF RenameRevert
  <2>4. CASE ResizeRow(t)
    <3>1. CASE ResizeOk(rows, task[t].u, task[t].mem, task[t].disk)
      BY <2>4, <3>1, Zenon DEF ResizeRow, RowChange, Resizes
    <3>2. CASE ~ResizeOk(rows, task[t].u, task[t].mem, task[t].disk)
      BY <2>4, <3>2, NoRowChange, Zenon DEF ResizeRow, db
    <3> QED
      BY <3>1, <3>2, Zenon
  <2> QED
    BY <2>1, <2>2, <2>3, <2>4, Zenon
<1>4. TasksOK' /\ TaskFewer
  <2>1. CASE RenameRow(t)
    <3> DEFINE done == task[t].gone \/ ~RenameOk(rows, released, task[t].u, task[t].name)
               s == IF task[t].row.host = Local THEN "undefine" ELSE "order"
               b == iso[task[t].u]
    <3>1. CASE done
      <4>1. Steps(t)
        BY <2>1, <3>1, Zenon DEF RenameRow, Steps, End
      <4> QED
        BY <1>0, <1>1, <4>1, StepsFewer, Zenon
    <3>2. CASE ~done
      <4>1. task' = [task EXCEPT ![t] = [[task[t] EXCEPT !.iso = b] EXCEPT !.at = s]]
        BY <2>1, <3>2, SMT DEF RenameRow
      <4>2. b \in BOOLEAN
        BY <1>1, Zenon DEF Types, HostsOK
      <4>3. s \in Place \ {"insert"}
        BY Zenon DEF Place
      <4>4. task[t].op = "rename"
        BY <2>1, Zenon DEF RenameRow, At
      <4> HIDE DEF s, b, done
      <4> QED
        BY <1>0, <1>1, <4>1, <4>2, <4>3, <4>4, RenamedTask, Zenon
    <3> QED
      BY <3>1, <3>2, Zenon
  <2>2. CASE RemoveRow(t) \/ UnwindRow(t) \/ RenameRevert(t) \/ ResizeRow(t)
    <3>1. Steps(t)
      BY <2>2, Zenon DEF RemoveRow, UnwindRow, RenameRevert, ResizeRow, Steps, Place
    <3> QED
      BY <1>0, <1>1, <3>1, StepsFewer, Zenon
  <2> QED
    BY <2>1, <2>2, Zenon
<1> QED
  BY <1>1, <1>2, <1>3, <1>4, RowChangeOK, RowStep, Zenon

\* The steps that work on the files of an instance.
LEMMA FileSteps ==
  ASSUME Types, NEW t \in Slot,
         RemoveFiles(t) \/ CopyFile(t) \/ CopySeed(t) \/ CopyUnwindFiles(t)
  PROVE  Types' /\ Fewer
<1>0. TasksOK /\ task[t] \in TaskRec /\ HostsOK /\ dom \in Doms /\ disk \in Disks /\ iso \in [Uuid -> BOOLEAN]
  BY Zenon DEF Types, TasksOK, HostsOK
<1>1. task[t].op # None /\ task[t].at # "insert" /\ task[t].u \in Uuid
  <2>1. task[t].op # None /\ task[t].at # "insert"
    BY Zenon DEF RemoveFiles, CopyFile, CopySeed, CopyUnwindFiles, At, None
  <2> QED
    BY <1>0, <2>1, TaskIs, Zenon
<1>2. UNCHANGED <<db, used, late, background, asked, halted, dom>> /\ built' \subseteq built \cup {task[t].u}
  BY Zenon DEF RemoveFiles, CopyFile, CopySeed, CopyUnwindFiles, history
<1>3. (Fault \/ UNCHANGED faults) /\ Steps(t)
  BY Zenon DEF RemoveFiles, CopyFile, CopySeed, CopyUnwindFiles, NoFault, Steps, Place
<1>4. 0 \in Disk \cup {0}
  BY Zenon
<1>5. disk' \in Disks /\ \A v \in Uuid \ {task[t].u} : disk'[v] = disk[v]
  <2>1. disk' = disk \/ \E d \in Disk \cup {0} : disk' = [disk EXCEPT ![task[t].u] = d]
    <3>1. CASE CopyFile(t)
      <4>1. task[t].src \in Uuid
        BY <1>0, <3>1, TaskIs, Zenon DEF CopyFile, At
      <4>2. disk[task[t].src] \in Disk \cup {0}
        BY <1>0, <4>1, Zenon DEF Disks
      <4> QED
        BY <3>1, <4>2, Zenon DEF CopyFile
    <3>2. CASE RemoveFiles(t) \/ CopySeed(t) \/ CopyUnwindFiles(t)
      BY <1>4, <3>2, Zenon DEF RemoveFiles, CopySeed, CopyUnwindFiles
    <3> QED
      BY <3>1, <3>2, Zenon
  <2>2. ASSUME NEW d \in Disk \cup {0}, disk' = [disk EXCEPT ![task[t].u] = d]
        PROVE  disk' \in Disks /\ \A v \in Uuid \ {task[t].u} : disk'[v] = disk[v]
    BY <1>0, <1>1, <2>2, Zenon DEF Disks
  <2> QED
    BY <1>0, <2>1, <2>2, Zenon
<1>6. iso' \in [Uuid -> BOOLEAN]
  <2>1. iso' = iso \/ iso' = [iso EXCEPT ![task[t].u] = TRUE] \/ iso' = [iso EXCEPT ![task[t].u] = FALSE]
    BY Zenon DEF RemoveFiles, CopyFile, CopySeed, CopyUnwindFiles
  <2> QED
    BY <1>0, <1>1, <2>1, Zenon
<1>7. dom' \in Doms /\ \A v \in Uuid \ {task[t].u} : dom'[v] = dom[v] /\ disk'[v] = disk[v]
  BY <1>0, <1>2, <1>5, Zenon
<1> QED
  BY <1>1, <1>2, <1>3, <1>5, <1>6, <1>7, FileStep, Zenon

\* The steps that define a domain on the local machine.
LEMMA DomainSteps ==
  ASSUME Types, NEW t \in Slot, CopyCreate(t) \/ RenameDefine(t)
  PROVE  Types' /\ Fewer
<1>0. TasksOK /\ task[t] \in TaskRec /\ HostsOK /\ dom \in Doms /\ disk \in Disks /\ iso \in [Uuid -> BOOLEAN]
  BY Zenon DEF Types, TasksOK, HostsOK
<1>1. /\ task[t].op # None /\ task[t].at # "insert" /\ task[t].u \in Uuid
      /\ task[t].row.name \in Name /\ task[t].row.mem \in Memory
  <2>1. task[t].op # None /\ task[t].at # "insert"
    BY Zenon DEF CopyCreate, RenameDefine, At, None
  <2> QED
    BY <1>0, <2>1, TaskIs, RowFields, Zenon
<1>2. UNCHANGED <<db, used, late, background, asked, halted, disk, iso>> /\ built' \subseteq built \cup {task[t].u}
  BY Zenon DEF CopyCreate, RenameDefine, history
<1>3. (Fault \/ UNCHANGED faults) /\ Steps(t)
  BY Zenon DEF CopyCreate, RenameDefine, NoFault, Steps, Place
<1>4. ASSUME NEW n \in Name, NEW b, b \in BOOLEAN
      PROVE  /\ Define(dom, Local, task[t].u, n, task[t].row.mem, b) \in Doms
             /\ Define(dom, Local, task[t].u, n, task[t].row.mem, b)[task[t].u] # NoDomain
             /\ \A v \in Uuid \ {task[t].u} : Define(dom, Local, task[t].u, n, task[t].row.mem, b)[v] = dom[v]
  <2>1. Local \in Host
    BY LifecycleAssumption, Zenon
  <2> QED
    BY <1>0, <1>1, <1>4, <2>1, DefineOK, SMT
<1>5. dom' \in Doms /\ \A v \in Uuid \ {task[t].u} : dom'[v] = dom[v]
  <2>1. CASE CopyCreate(t)
    <3> DEFINE made == Define(dom, Local, task[t].u, task[t].row.name, task[t].row.mem, TRUE)
    <3>1. dom' \in {dom, made, Powered(made, task[t].u, TRUE)}
      BY <2>1, Zenon DEF CopyCreate, CreateFailures
    <3>2. made \in Doms /\ made[task[t].u] # NoDomain /\ \A v \in Uuid \ {task[t].u} : made[v] = dom[v]
      BY <1>1, <1>4, Zenon
    <3> HIDE DEF made
    <3>3. Powered(made, task[t].u, TRUE) \in Doms
      BY <1>1, <3>2, PoweredOK, Zenon
    <3>4. \A v \in Uuid \ {task[t].u} : Powered(made, task[t].u, TRUE)[v] = made[v]
      BY <1>1, <3>2, Zenon DEF Powered, Doms
    <3> QED
      BY <1>0, <3>1, <3>2, <3>3, <3>4, Zenon
  <2>2. CASE RenameDefine(t)
    <3> DEFINE new == Define(dom, Local, task[t].u, task[t].name, task[t].row.mem, task[t].iso)
               old == Define(dom, Local, task[t].u, task[t].row.name, task[t].row.mem, task[t].iso)
    <3>1. dom' \in {dom, new, old}
      BY <2>2, Zenon DEF RenameDefine
    <3>2. task[t].name \in Name /\ task[t].iso \in BOOLEAN
      BY <1>0, <2>2, TaskIs, Zenon DEF RenameDefine, At
    <3>3. new \in Doms /\ \A v \in Uuid \ {task[t].u} : new[v] = dom[v]
      BY <1>4, <3>2, ZenonT(60)
    <3>4. old \in Doms /\ \A v \in Uuid \ {task[t].u} : old[v] = dom[v]
      BY <1>1, <1>4, <3>2, Zenon
    <3> HIDE DEF new, old
    <3> QED
      BY <1>0, <3>1, <3>3, <3>4, Zenon
  <2> QED
    BY <2>1, <2>2, Zenon
<1>6. \A v \in Uuid \ {task[t].u} : dom'[v] = dom[v] /\ disk'[v] = disk[v]
  BY <1>2, <1>5, Zenon
<1>7. disk' \in Disks /\ iso' \in [Uuid -> BOOLEAN]
  BY <1>0, <1>2, Zenon
<1> QED
  BY <1>1, <1>2, <1>3, <1>5, <1>6, <1>7, FileStep, Zenon

\* Every step of a request but an insertion keeps the types.
LEMMA StepTypes ==
  ASSUME Types, NEW t \in Slot, Step(t)
  PROVE  \/ Types' /\ Fewer
         \/ NewInsert(t) \/ CopyInsert(t)
BY CallSteps, WriteSteps, ChangeSteps, FileSteps, DomainSteps, Zenon DEF Step

-----------------------------------------------------------------------------
(* Requests, and the insertion of a row. *)

\* The row of a new instance is a row, of the size that was asked for.
LEMMA FreshOK ==
  ASSUME NEW o \in Owner, NEW h \in Host, NEW n \in Name, NEW z \in NewSize \cup Size
  PROVE  Fresh(o, h, n, z) \in Row /\ Fresh(o, h, n, z).disk = z.disk
<1>1. z \in [mem : Memory, disk : Disk]
  BY LifecycleAssumption, Zenon
<1> QED
  BY <1>1, SMT DEF Fresh, Row

\* A request about an instance that has a row.
LEMMA AskStep ==
  ASSUME Types, NEW t \in Slot, NEW w \in TaskRec, w.op # None, w.at # "insert",
         rows[w.u] # NoRow, Ask(t, w),
         UNCHANGED <<db, used, hosts, late, background, faults, halted, built>>
  PROVE  /\ Types' /\ Others(t) /\ task'[t] = w /\ task[t] = Idle
         /\ \A u \in Uuid : Known(u)' => Known(u)
<1>1. TasksOK' /\ Others(t) /\ task'[t] = w /\ task[t] = Idle
  BY AfterTask, Zenon DEF Types, Ask
<1>2. RowsOK' /\ HostsOK' /\ PollOK' /\ RestoreOK'
  BY SameTypes, Zenon DEF Types, background
<1>3. HistoryOK'
  BY Zenon DEF Types, HistoryOK
<1>4. BoundsOK'
  BY LifecycleAssumption, SMT DEF Types, BoundsOK, Ask
<1>5. \A u \in Uuid : Known(u)' => Known(u)
  <2>1. \A u \in Uuid : Held(u)' => Held(u) \/ u = w.u
    BY <1>1, Zenon DEF Held, Others
  <2>2. Polled' = Polled /\ Restoring' = Restoring
    BY Zenon DEF Polled, Restoring, background
  <2> QED
    BY <2>1, <2>2, Zenon DEF Known, Pending, db, hosts
<1> QED
  BY <1>1, <1>2, <1>3, <1>4, <1>5, Zenon DEF Types

\* A request that mints a UUID.
LEMMA MintStep ==
  ASSUME Types, NEW t \in Slot, NEW w \in TaskRec, w.op # None, w.at = "insert", w.u \notin used,
         used' = used \cup {w.u}, Ask(t, w),
         UNCHANGED <<db, hosts, late, background, faults, halted, built>>
  PROVE  /\ Types' /\ Others(t) /\ task'[t] = w /\ task[t] = Idle
         /\ \A u \in Uuid : Known(u)' => Known(u)
<1>1. TasksOK' /\ Others(t) /\ task'[t] = w /\ task[t] = Idle
  BY AfterTask, Zenon DEF Types, Ask
<1>2. RowsOK' /\ HostsOK' /\ PollOK' /\ RestoreOK'
  BY SameTypes, Zenon DEF Types, background
<1>3. HistoryOK'
  BY TaskIs, Zenon DEF Types, HistoryOK
<1>4. BoundsOK'
  BY LifecycleAssumption, SMT DEF Types, BoundsOK, Ask
<1>5. \A u \in Uuid : Known(u)' => Known(u)
  <2>1. \A u \in Uuid : Held(u)' => Held(u)
    BY <1>1, Zenon DEF Held, Others
  <2>2. Polled' = Polled /\ Restoring' = Restoring
    BY Zenon DEF Polled, Restoring, background
  <2> QED
    BY <2>1, <2>2, Zenon DEF Known, Pending, db, hosts
<1> QED
  BY <1>1, <1>2, <1>3, <1>4, <1>5, Zenon DEF Types

AskedPlain(t, op, u) == [op |-> op, at |-> "called", u |-> u, row |-> rows[u]]
AskedNew(u, row) == [op |-> "new", at |-> "insert", u |-> u, row |-> row]
AskedCopy(src, u, row) ==
  [op |-> "copy", at |-> "insert", u |-> u, row |-> row, src |-> src,
   grow |-> row.disk > rows[src].disk, whole |-> src \in built]
AskedRename(u, n) ==
  [op |-> "rename", at |-> "label", u |-> u, row |-> rows[u], name |-> n,
   gone |-> Lookup(dom, rows[u].host, rows[u].name) = {}, iso |-> iso[u]]
AskedResize(u, m, d) ==
  [op |-> "resize", at |-> IF d > rows[u].disk THEN "grow" ELSE "row",
   u |-> u, row |-> rows[u], mem |-> m, disk |-> d]

\* What a request notes when it begins is the record of a request.
LEMMA AskedOK ==
  ASSUME Types
  PROVE  /\ \A u \in Uuid, op \in PlainOp, t \in Slot :
              rows[u] # NoRow => AskedPlain(t, op, u) \in TaskRec
         /\ \A u \in Uuid, row \in Row : AskedNew(u, row) \in TaskRec
         /\ \A src, u \in Uuid, row \in Row :
              rows[src] # NoRow => AskedCopy(src, u, row) \in TaskRec
         /\ \A u \in Uuid, n \in Name :
              rows[u] # NoRow => AskedRename(u, n) \in TaskRec
         /\ \A u \in Uuid, m \in Memory, d \in Disk :
              rows[u] # NoRow => AskedResize(u, m, d) \in TaskRec
<1>0. \A u \in Uuid : iso[u] \in BOOLEAN /\ (rows[u] # NoRow => rows[u] \in Row)
  BY Zenon DEF Types, RowsOK, HostsOK
<1>1. ASSUME NEW u \in Uuid, NEW op \in PlainOp, NEW t \in Slot, rows[u] # NoRow
      PROVE  AskedPlain(t, op, u) \in TaskRec
  <2>1. "called" \in Place
    BY Zenon DEF Place
  <2> QED
    BY <1>0, <1>1, <2>1, SMT DEF AskedPlain, TaskRec, PlainTask
<1>2. ASSUME NEW u \in Uuid, NEW row \in Row
      PROVE  AskedNew(u, row) \in TaskRec
  <2>1. "insert" \in Place
    BY Zenon DEF Place
  <2> QED
    BY <2>1, SMT DEF AskedNew, TaskRec, PlainTask, PlainOp
<1>3. ASSUME NEW src \in Uuid, NEW u \in Uuid, NEW row \in Row, rows[src] # NoRow
      PROVE  AskedCopy(src, u, row) \in TaskRec
  <2>1. "insert" \in Place /\ (row.disk > rows[src].disk) \in BOOLEAN /\ (src \in built) \in BOOLEAN
    BY SMT DEF Place
  <2> QED
    BY <2>1, SMT DEF AskedCopy, TaskRec, CopyTask
<1>4. ASSUME NEW u \in Uuid, NEW n \in Name, rows[u] # NoRow
      PROVE  AskedRename(u, n) \in TaskRec
  <2>1. "label" \in Place
    BY Zenon DEF Place
  <2> QED
    BY <1>0, <1>4, <2>1, SMT DEF AskedRename, TaskRec, RenameTask
<1>5. ASSUME NEW u \in Uuid, NEW m \in Memory, NEW d \in Disk, rows[u] # NoRow
      PROVE  AskedResize(u, m, d) \in TaskRec
  <2>1. (IF d > rows[u].disk THEN "grow" ELSE "row") \in Place
    BY Zenon DEF Place
  <2> QED
    BY <1>0, <1>5, <2>1, SMT DEF AskedResize, TaskRec, ResizeTask
<1> QED
  BY <1>1, <1>2, <1>3, <1>4, <1>5, Zenon

\* What a request that just took its slot is.
AskedOf(t, w) ==
  /\ Ask(t, w) /\ w.op # None
  /\ UNCHANGED <<db, hosts, late, background, faults, halted, built>>
  /\ crossed' = crossed \/ crossed' = crossed \ {t}
  /\ \/ /\ w.at # "insert" /\ rows[w.u] # NoRow /\ UNCHANGED used
        /\ w.op # "new" /\ w.op # "copy" /\ (w.op = "stop" => w.at = "called")
        /\ w.op = "resize" /\ w.at = "row" => ~(w.disk > rows[w.u].disk)
     \/ /\ w.at = "insert" /\ w.u \notin used /\ used' = used \cup {w.u}
        /\ \/ w.op = "new"
           \/ /\ w.op = "copy" /\ rows[w.src] # NoRow
              /\ w.whole => w.src \in built
              /\ ~w.grow => ~(w.row.disk > rows[w.src].disk)

\* A request that begins notes the row it read, and nothing else happens.
LEMMA RequestIs ==
  ASSUME Types, NEW t \in Slot, Request(t)
  PROVE  \E w \in TaskRec : AskedOf(t, w)
<1>1. ASSUME NEW u \in Uuid, NEW op \in {"start", "connect", "stop", "restart", "remove"}, AskFor(t, op, u)
      PROVE  \E w \in TaskRec : AskedOf(t, w)
  <2> DEFINE w == AskedPlain(t, op, u)
  <2>1. w \in TaskRec
    BY <1>1, AskedOK, Zenon DEF AskFor, PlainOp
  <2>2. w.op = op /\ w.at = "called" /\ w.u = u
    BY Zenon DEF AskedPlain
  <2>3. Ask(t, w)
    BY <1>1, Zenon DEF AskFor, AskedPlain
  <2> HIDE DEF w
  <2>4. AskedOf(t, w)
    BY <1>1, <2>2, <2>3, Zenon DEF AskFor, AskedOf, None
  <2> QED
    BY <2>1, <2>4, Zenon
<1>2. ASSUME NEW u \in Uuid, NEW o \in Owner, NEW h \in Host, NEW n \in Name, NEW z \in NewSize,
             AskNew(t, u, o, h, n, z)
      PROVE  \E w \in TaskRec : AskedOf(t, w)
  <2> DEFINE w == AskedNew(u, Fresh(o, h, n, z))
  <2>1. w \in TaskRec
    BY <1>2, AskedOK, FreshOK, Zenon
  <2>2. w.op = "new" /\ w.at = "insert" /\ w.u = u
    BY Zenon DEF AskedNew
  <2>3. Ask(t, w)
    BY <1>2, Zenon DEF AskNew, AskedNew
  <2> HIDE DEF w
  <2>4. AskedOf(t, w)
    BY <1>2, <2>2, <2>3, Zenon DEF AskNew, AskedOf, None, history
  <2> QED
    BY <2>1, <2>4, Zenon
<1>3. ASSUME NEW src \in Uuid, NEW u \in Uuid, NEW n \in Name, NEW z \in Size, rows[src] # NoRow,
             AskCopy(t, src, u, Fresh(rows[src].owner, Local, n, z))
      PROVE  \E w \in TaskRec : AskedOf(t, w)
  <2> DEFINE row == Fresh(rows[src].owner, Local, n, z)
             w == AskedCopy(src, u, row)
  <2>1. row \in Row
    <3>1. rows[src].owner \in Owner
      BY <1>3, RowFields, Zenon DEF Types, RowsOK
    <3>2. Local \in Host
      BY LifecycleAssumption, Zenon
    <3> QED
      BY <3>1, <3>2, FreshOK, Zenon
  <2>2. AskCopy(t, src, u, row)
    BY <1>3
  <2> HIDE DEF row
  <2>3. w \in TaskRec
    BY <1>3, <2>1, AskedOK, Zenon
  <2>4. /\ w.op = "copy" /\ w.at = "insert" /\ w.u = u /\ w.src = src /\ w.row = row
        /\ w.whole = (src \in built) /\ w.grow = (row.disk > rows[src].disk)
    BY Zenon DEF AskedCopy
  <2>5. Ask(t, w)
    BY <2>2, Zenon DEF AskCopy, AskedCopy
  <2> HIDE DEF w
  <2>6. AskedOf(t, w)
    BY <2>2, <2>4, <2>5, Zenon DEF AskCopy, AskedOf, None, history
  <2> QED
    BY <2>3, <2>6, Zenon
<1>4. ASSUME NEW u \in Uuid, NEW n \in Name, AskRename(t, u, n)
      PROVE  \E w \in TaskRec : AskedOf(t, w)
  <2> DEFINE w == AskedRename(u, n)
  <2>1. w \in TaskRec
    BY <1>4, AskedOK, Zenon DEF AskRename
  <2>2. w.op = "rename" /\ w.at = "label" /\ w.u = u
    BY Zenon DEF AskedRename
  <2>3. Ask(t, w)
    BY <1>4, Zenon DEF AskRename, AskedRename
  <2> HIDE DEF w
  <2>4. AskedOf(t, w)
    BY <1>4, <2>2, <2>3, Zenon DEF AskRename, AskedOf, None, history
  <2> QED
    BY <2>1, <2>4, Zenon
<1>5. ASSUME NEW u \in Uuid, NEW z \in Size, AskResize(t, u, z.mem, z.disk)
      PROVE  \E w \in TaskRec : AskedOf(t, w)
  <2> DEFINE w == AskedResize(u, z.mem, z.disk)
  <2>1. z.mem \in Memory /\ z.disk \in Disk
    BY LifecycleAssumption, SMT
  <2>2. w \in TaskRec
    BY <1>5, <2>1, AskedOK, Zenon DEF AskResize
  <2>3. /\ w.op = "resize" /\ w.u = u /\ w.disk = z.disk
        /\ w.at = IF z.disk > rows[u].disk THEN "grow" ELSE "row"
    BY Zenon DEF AskedResize
  <2>4. Ask(t, w)
    BY <1>5, Zenon DEF AskResize, AskedResize
  <2> HIDE DEF w
  <2>5. w.at # "insert" /\ (w.at = "row" => ~(w.disk > rows[w.u].disk))
    BY <2>3, Zenon
  <2>6. AskedOf(t, w)
    BY <1>5, <2>3, <2>4, <2>5, Zenon DEF AskResize, AskedOf, None, history
  <2> QED
    BY <2>2, <2>6, Zenon
<1> QED
  BY <1>1, <1>2, <1>3, <1>4, <1>5, Zenon DEF Request

\* A request that begins keeps the types, and a UUID it mints is unknown.
LEMMA RequestOK ==
  ASSUME Types, MintOK, NEW t \in Slot, NEW w \in TaskRec, AskedOf(t, w)
  PROVE  Types' /\ MintOK' /\ Others(t) /\ task'[t] = w /\ task[t] = Idle
<1>0. w.u \in Uuid
  BY TaskIs, Zenon DEF AskedOf
<1>1. /\ Types' /\ Others(t) /\ task'[t] = w /\ task[t] = Idle
      /\ \A u \in Uuid : Known(u)' => Known(u)
  BY AskStep, MintStep, Zenon DEF AskedOf
<1>2. \A s \in Slot : task'[s] = task[s] \/ (s = t /\ task'[s] = w)
  BY <1>1, Zenon DEF Others
<1>3. \A s \in Slot : Inserting(s) => task[s].u \in Uuid
  BY TaskIs, Zenon DEF Types, TasksOK, Inserting
<1>4. \A u \in Uuid : Known(u)' => u \in used'
  BY <1>1, Zenon DEF MintOK, AskedOf
<1>5. CASE w.at # "insert"
  <2>1. UNCHANGED used
    BY <1>5, Zenon DEF AskedOf
  <2>2. \A s \in Slot : Inserting(s)' => Inserting(s) /\ task'[s] = task[s]
    BY <1>2, <1>5, Zenon DEF Inserting
  <2>3. \A s \in Slot : Inserting(s)' => task'[s].u \in used' /\ ~Known(task[s].u)'
    BY <1>1, <1>3, <2>1, <2>2, Zenon DEF MintOK
  <2>4. \A s, x \in Slot : Inserting(s)' /\ Inserting(x)' /\ s # x => task'[s].u # task'[x].u
    BY <2>2, Zenon DEF MintOK
  <2> QED
    BY <1>1, <1>4, <2>3, <2>4, Zenon DEF MintOK
<1>6. CASE w.at = "insert"
  <2>1. w.u \notin used /\ used' = used \cup {w.u}
    BY <1>6, Zenon DEF AskedOf
  <2>2. \A s \in Slot : Inserting(s)' => (Inserting(s) /\ task'[s] = task[s]) \/ (s = t /\ task'[s] = w)
    BY <1>2, Zenon DEF Inserting
  <2>3. ~Known(w.u)'
    BY <1>0, <1>1, <2>1, Zenon DEF MintOK
  <2>4. \A s \in Slot : Inserting(s)' => task'[s].u \in used' /\ ~Known(task[s].u)'
    BY <1>1, <1>3, <2>1, <2>2, <2>3, Zenon DEF MintOK
  <2>5. \A s \in Slot : Inserting(s) => task[s].u # w.u
    BY <2>1, Zenon DEF MintOK
  <2>6. \A s, x \in Slot : Inserting(s)' /\ Inserting(x)' /\ s # x => task'[s].u # task'[x].u
    BY <2>2, <2>5, Zenon DEF MintOK
  <2> QED
    BY <1>1, <1>4, <2>4, <2>6, Zenon DEF MintOK
<1> QED
  BY <1>5, <1>6, Zenon

\* An insertion adds one row.
LEMMA InsertedOK ==
  ASSUME RowsOK, NEW u \in Uuid, NEW r \in Row
  PROVE  /\ Inserted(rows, u, r) \in Rows /\ Inserted(rows, u, r)[u] = r
         /\ \A v \in Uuid \ {u} : Inserted(rows, u, r)[v] = rows[v]
BY Zenon DEF RowsOK, Rows, Inserted

\* The insertion succeeded: what it claimed, what it wrote.
Inserts(t, next) ==
  /\ CreateOk(rows, released, task[t].row)
  /\ rows' = Inserted(rows, task[t].u, task[t].row) /\ UNCHANGED released
  /\ Moves(t, next)

\* The insertion of new or copy adds the row, or the request ends.
LEMMA InsertIs ==
  ASSUME Types, NEW t \in Slot, NewInsert(t) \/ CopyInsert(t)
  PROVE  /\ UNCHANGED <<released, used, hosts, late, background, asked, faults, history>>
         /\ Inserting(t) /\ task[t].u \in Uuid /\ task[t].row \in Row /\ TasksOK'
         /\ \/ Ends(t) /\ UNCHANGED rows
            \/ task[t].op = "new" /\ Inserts(t, "build")
            \/ task[t].op = "copy" /\ Inserts(t, "file")
<1>1. ASSUME NEW op \in {"new", "copy"}, NEW next \in {"build", "file"}, InsertRow(t, op, next)
      PROVE  /\ UNCHANGED <<released, used, hosts, late, background, asked, faults, history>>
             /\ Inserting(t) /\ task[t].u \in Uuid /\ task[t].row \in Row /\ TasksOK'
             /\ \/ Ends(t) /\ UNCHANGED rows
                \/ task[t].op = op /\ Inserts(t, next)
  <2>1. Inserting(t) /\ task[t].op = op /\ TasksOK /\ task[t].op # None
    BY <1>1, Zenon DEF InsertRow, At, Inserting, None, Types
  <2>2. task[t].u \in Uuid /\ task[t].row \in Row
    BY <2>1, TaskIs, Zenon DEF TasksOK
  <2>3. next \in Place
    BY Zenon DEF Place
  <2>4. CASE CreateOk(rows, released, task[t].row)
    <3>1. TasksOK' /\ Moves(t, next)
      BY <1>1, <2>1, <2>3, <2>4, AfterGoto, Zenon DEF InsertRow
    <3> QED
      BY <1>1, <2>1, <2>2, <2>4, <3>1, Zenon DEF InsertRow, Inserts
  <2>5. CASE ~CreateOk(rows, released, task[t].row)
    <3>1. TasksOK' /\ Ends(t)
      BY <1>1, <2>1, <2>5, AfterEnd, Zenon DEF InsertRow
    <3> QED
      BY <1>1, <2>1, <2>2, <2>5, <3>1, Zenon DEF InsertRow
  <2> QED
    BY <2>4, <2>5, Zenon
<1>2. CASE NewInsert(t)
  BY <1>1, <1>2, Zenon DEF NewInsert
<1>3. CASE CopyInsert(t)
  BY <1>1, <1>3, Zenon DEF CopyInsert
<1> QED
  BY <1>2, <1>3, Zenon

\* An insertion keeps the types, and makes a minted UUID known.
LEMMA InsertOK ==
  ASSUME Types, MintOK, NEW t \in Slot, NewInsert(t) \/ CopyInsert(t)
  PROVE  Types' /\ MintOK'
<1>1. /\ UNCHANGED <<released, used, hosts, late, background, asked, faults, history>>
      /\ Inserting(t) /\ task[t].u \in Uuid /\ task[t].row \in Row /\ TasksOK'
      /\ \/ Ends(t) /\ UNCHANGED rows
         \/ Inserts(t, "build") \/ Inserts(t, "file")
  BY InsertIs, Zenon
<1>2. HostsOK' /\ BoundsOK' /\ PollOK' /\ RestoreOK' /\ HistoryOK'
  BY <1>1, SameTypes, Zenon DEF Types, background, history, HistoryOK
<1>3. Polled' = Polled /\ Restoring' = Restoring
  BY <1>1, Zenon DEF Polled, Restoring, background
<1>4. CASE Ends(t) /\ UNCHANGED rows
  <2>1. \A x \in Slot : task'[x] = Idle \/ task'[x] = task[x]
    BY <1>4, Zenon DEF Ends, Others
  <2>2. Idle.op = None
    BY Zenon DEF Idle
  <2>3. TaskFewer
    BY <2>1, <2>2, Zenon DEF TaskFewer, Held, Inserting
  <2>4. RowsOK'
    BY <1>1, <1>4, Zenon DEF Types, RowsOK
  <2>5. Fewer
    BY <1>1, <1>3, <1>4, <2>3, Zenon DEF Fewer, RowFewer, HostFewer, ViewFewer, Known, Pending, hosts, history
  <2> QED
    BY <1>1, <1>2, <2>4, <2>5, FewerMint, Zenon DEF Types
<1>5. ASSUME NEW next \in {"build", "file"}, Inserts(t, next)
      PROVE  Types' /\ MintOK'
  <2>1. rows' \in Rows /\ \A v \in Uuid \ {task[t].u} : rows'[v] = rows[v]
    BY <1>1, <1>5, InsertedOK, Zenon DEF Inserts, Types
  <2>2. RowsOK'
    BY <1>1, <2>1, Zenon DEF Types, RowsOK, Rows
  <2>3. \A x \in Slot : \/ x # t /\ task'[x] = task[x]
                        \/ x = t /\ task'[x].at = next /\ task'[x].u = task[x].u
    BY <1>5, Zenon DEF Inserts, Moves, Others, SameTask
  <2>4. \A u \in Uuid : Held(u)' => Held(u) \/ u = task[t].u
    BY <2>3, Zenon DEF Held
  <2>5. \A u \in Uuid : Known(u)' => Known(u) \/ u = task[t].u
    BY <1>1, <1>3, <2>1, <2>4, Zenon DEF Known, Pending, hosts, history
  <2>6. \A x \in Slot : Inserting(x)' => x # t /\ task'[x] = task[x] /\ Inserting(x)
    BY <2>3, Zenon DEF Inserting
  <2>7. \A x \in Slot : Inserting(x) => task[x].u \in Uuid
    BY TaskIs, Zenon DEF Types, TasksOK, Inserting
  <2>8. \A u \in Uuid : Known(u)' => u \in used'
    BY <1>1, <2>5, Zenon DEF MintOK
  <2>9. \A x \in Slot : Inserting(x)' => task'[x].u \in used' /\ ~Known(task[x].u)'
    BY <1>1, <2>5, <2>6, <2>7, Zenon DEF MintOK
  <2>10. \A x, y \in Slot : Inserting(x)' /\ Inserting(y)' /\ x # y => task'[x].u # task'[y].u
    BY <2>6, Zenon DEF MintOK
  <2> QED
    BY <1>1, <1>2, <2>2, <2>8, <2>9, <2>10, Zenon DEF Types, MintOK
<1> QED
  BY <1>1, <1>4, <1>5, Zenon

-----------------------------------------------------------------------------
(* The polls and the restore. *)

\* What a poll holds at each of its steps.
LEMMA PollIs ==
  ASSUME PollOK
  PROVE  /\ poll.at \in {"listed", "write"} => poll.seen \in Partial({"running", "stopped"})
         /\ poll.at \in {"boots"} \cup Uuid =>
              /\ poll \in [at : {"boots"} \cup Uuid, row : Partial(Row)]
              /\ poll.at \in {"boots"} \cup DOMAIN poll.row
         /\ poll.at \in Elsewhere => poll.row \in Partial({"running", "stopped", "starting"})
<1>1. /\ Elsewhere \cap Uuid = {}
      /\ \A x \in Uuid \cup Elsewhere : x \notin {"none", "listed", "boots", "write"}
  BY LifecycleAssumption, Zenon DEF Elsewhere
<1>2. CASE poll = Quiet
  BY <1>1, <1>2, SMT DEF Quiet, None
<1>3. CASE poll \in [at : {"listed", "write"}, seen : Partial({"running", "stopped"})]
  BY <1>1, <1>3, SMT
<1>4. CASE /\ poll \in [at : {"boots"} \cup Uuid, row : Partial(Row)]
           /\ poll.at \in {"boots"} \cup DOMAIN poll.row
  BY <1>1, <1>4, SMT
<1>5. CASE poll \in [at : Elsewhere, row : Partial({"running", "stopped", "starting"})]
  BY <1>1, <1>5, SMT
<1> QED
  BY <1>2, <1>3, <1>4, <1>5, Zenon DEF PollOK

\* What a restore holds at each of its steps.
LEMMA RestoreIs ==
  ASSUME RestoreOK
  PROVE  /\ restore.at = "listed" => restore.seen \in Partial({"running", "stopped"})
         /\ restore.at \in {"batch"} \cup Uuid =>
              /\ restore \in [at : {"batch"} \cup Uuid, name : Partial(Name),
                              batch : SUBSET Uuid, started : SUBSET Uuid]
              /\ restore.batch \cup restore.started \subseteq DOMAIN restore.name
              /\ restore.batch \cap restore.started = {}
              /\ restore.at \in {"batch"} \cup restore.batch
<1>1. \A x \in Uuid : x \notin {"none", "listed", "list", "batch"}
  BY LifecycleAssumption, Zenon
<1>2. CASE restore = Quiet
  BY <1>1, <1>2, SMT DEF Quiet, None
<1>3. CASE restore = [at |-> "list"]
  BY <1>1, <1>3, SMT
<1>4. CASE restore \in [at : {"listed"}, seen : Partial({"running", "stopped"})]
  BY <1>1, <1>4, SMT
<1>5. CASE /\ restore \in [at : {"batch"} \cup Uuid, name : Partial(Name),
                           batch : SUBSET Uuid, started : SUBSET Uuid]
           /\ restore.batch \cup restore.started \subseteq DOMAIN restore.name
           /\ restore.batch \cap restore.started = {}
           /\ restore.at \in {"batch"} \cup restore.batch
  BY <1>1, <1>5, SMT
<1> QED
  BY <1>2, <1>3, <1>4, <1>5, Zenon DEF RestoreOK

\* A function from some of the UUIDs, and the same without one of them.
LEMMA PartialIs ==
  ASSUME NEW T, NEW f
  PROVE  /\ f \in Partial(T) => DOMAIN f \subseteq Uuid /\ \A u \in DOMAIN f : f[u] \in T
         /\ f \in Partial(T) => \A u : Without(f, u) \in Partial(T) /\ DOMAIN Without(f, u) = DOMAIN f \ {u}
<1>1. ASSUME f \in Partial(T)
      PROVE  /\ DOMAIN f \subseteq Uuid /\ \A u \in DOMAIN f : f[u] \in T
             /\ \A u : Without(f, u) \in Partial(T) /\ DOMAIN Without(f, u) = DOMAIN f \ {u}
  <2>1. PICK S \in SUBSET Uuid : f \in [S -> T]
    BY <1>1, Zenon DEF Partial
  <2>2. DOMAIN f = S /\ \A u \in S : f[u] \in T
    BY <2>1, Zenon
  <2>3. ASSUME NEW u
        PROVE  Without(f, u) \in Partial(T) /\ DOMAIN Without(f, u) = DOMAIN f \ {u}
    <3>1. Without(f, u) \in [S \ {u} -> T]
      BY <2>2, Zenon DEF Without
    <3>2. S \ {u} \in SUBSET Uuid
      BY Zenon
    <3> QED
      BY <2>2, <3>1, <3>2, Zenon DEF Partial
  <2> QED
    BY <2>2, <2>3, Zenon
<1> QED
  BY <1>1, Zenon

\* A function from a set of UUIDs is one from some of them.
LEMMA MakePartial ==
  ASSUME NEW T, NEW S \in SUBSET Uuid, NEW f \in [S -> T]
  PROVE  f \in Partial(T)
BY Zenon DEF Partial

\* What virsh lists is the state of some of the UUIDs.
LEMMA ListingOK ==
  ASSUME NEW h
  PROVE  Listing(dom, h) \in Partial({"running", "stopped"})
<1>1. Domains(dom, h) \in SUBSET Uuid
  BY Zenon DEF Domains
<1>2. Listing(dom, h) \in [Domains(dom, h) -> {"running", "stopped"}]
  BY Zenon DEF Listing, DomainState
<1> QED
  BY <1>1, <1>2, MakePartial, Zenon

\* Requests that do not move bring up no UUID.
LEMMA SameTasks ==
  ASSUME TasksOK, UNCHANGED task
  PROVE  TasksOK' /\ TaskFewer
BY Zenon DEF TasksOK, TaskFewer, Held, Inserting

\* Nor do machines that do not change.
LEMMA SameHosts ==
  ASSUME HostsOK, UNCHANGED <<hosts, late>>
  PROVE  HostsOK' /\ HostFewer
BY SameTypes, Zenon DEF HostFewer, Known, Pending, hosts

\* A poll or a restore that is over holds nothing.
LEMMA QuietOK ==
  /\ poll' = Quiet => PollOK' /\ Polled' = {}
  /\ restore' = Quiet \/ restore' = [at |-> "list"] => RestoreOK' /\ Restoring' = {}
<1>1. ASSUME poll' = Quiet PROVE PollOK' /\ Polled' = {}
  <2>1. poll'.at = "none"
    BY <1>1, Zenon DEF Quiet, None
  <2>2. "none" \notin {"boots"} \cup Uuid
    BY LifecycleAssumption, Zenon
  <2> QED
    BY <1>1, <2>1, <2>2, Zenon DEF PollOK, Polled
<1>2. ASSUME restore' = Quiet \/ restore' = [at |-> "list"] PROVE RestoreOK' /\ Restoring' = {}
  <2>1. restore'.at \in {"none", "list"}
    BY <1>2, SMT DEF Quiet, None
  <2>2. "none" \notin {"batch"} \cup Uuid /\ "list" \notin {"batch"} \cup Uuid
    BY LifecycleAssumption, Zenon
  <2> QED
    BY <1>2, <2>1, <2>2, Zenon DEF RestoreOK, Restoring
<1> QED
  BY <1>1, <1>2, Zenon

\* The next instance of the poll to look at is one it still holds.
LEMMA NextBootOK ==
  ASSUME PollOK, poll.at \in {"boots"} \cup Uuid, NEW u \in DOMAIN poll.row, poll' = NextBoot(u)
  PROVE  PollOK' /\ Polled' \subseteq Polled
<1>1. poll.row \in Partial(Row) /\ Polled = DOMAIN poll.row
  <2>1. poll \in [at : {"boots"} \cup Uuid, row : Partial(Row)]
    BY PollIs, Zenon
  <2> QED
    BY <2>1, SMT DEF Polled
<1>2. CASE poll' = Quiet
  BY <1>2, QuietOK, Zenon
<1>3. CASE poll' # Quiet
  <2> DEFINE f == Without(poll.row, u)
  <2>1. f \in Partial(Row) /\ DOMAIN f = DOMAIN poll.row \ {u}
    BY <1>1, PartialIs, Zenon
  <2>2. poll' = [at |-> "boots", row |-> f]
    BY <1>3, Zenon DEF NextBoot
  <2> HIDE DEF f
  <2>3. poll' \in [at : {"boots"} \cup Uuid, row : Partial(Row)] /\ poll'.at = "boots" /\ poll'.row = f
    BY <2>1, <2>2, SMT
  <2> QED
    BY <1>1, <2>1, <2>3, Zenon DEF PollOK, Polled
<1> QED
  BY <1>2, <1>3, Zenon

\* Steps of a background task that only change what it holds.
LEMMA ViewStep ==
  ASSUME Types, UNCHANGED <<db, used, hosts, late, task, asked, faults, history>>,
         PollOK' /\ RestoreOK', \A u \in Polled' \cup Restoring' : Known(u)
  PROVE  Types' /\ Fewer
<1>1. TasksOK' /\ TaskFewer
  BY SameTasks, Zenon DEF Types
<1>2. HostsOK' /\ HostFewer
  BY SameHosts, Zenon DEF Types
<1>3. BoundsOK' /\ RowsOK'
  BY SameTypes, Zenon DEF Types
<1>4. RowFewer
  BY Zenon DEF RowFewer, Known, db
<1>5. UNCHANGED <<used, built>> /\ halted' \subseteq halted
  BY Zenon DEF history
<1> QED
  BY <1>1, <1>2, <1>3, <1>4, <1>5, BackStep, Zenon

\* Steps of a background task that write observed states as well.
LEMMA ObserveStep ==
  ASSUME Types, UNCHANGED <<released, used, hosts, late, task, asked, faults, history>>,
         rows' \in Rows, Kept(rows'),
         PollOK' /\ RestoreOK', \A u \in Polled' \cup Restoring' : Known(u)
  PROVE  Types' /\ Fewer /\ RowChange
<1>1. TasksOK' /\ TaskFewer
  BY SameTasks, Zenon DEF Types
<1>2. HostsOK' /\ HostFewer
  BY SameHosts, Zenon DEF Types
<1>3. BoundsOK'
  BY SameTypes, Zenon DEF Types
<1>4. RowChange
  BY Zenon DEF RowChange
<1>5. RowsOK' /\ RowFewer
  BY <1>4, RowChangeOK, Zenon DEF RowFewer, Known
<1>6. UNCHANGED <<used, built>> /\ halted' \subseteq halted
  BY Zenon DEF history
<1> QED
  BY <1>1, <1>2, <1>3, <1>4, <1>5, <1>6, BackStep, Zenon

\* A poll that does not move holds only known UUIDs.
LEMMA PollStill ==
  ASSUME Types, UNCHANGED poll
  PROVE  PollOK' /\ \A u \in Polled' : Known(u)
BY SameTypes, Zenon DEF Types, Polled, Known

\* So does a restore.
LEMMA RestoreStill ==
  ASSUME Types, UNCHANGED restore
  PROVE  RestoreOK' /\ \A u \in Restoring' : Known(u)
BY SameTypes, Zenon DEF Types, Restoring, Known

\* The steps at which a poll reads.
LEMMA PollRead ==
  ASSUME Types, PollList \/ LookInventory \/ \E h \in Elsewhere : LookRows(h)
  PROVE  Types' /\ Fewer
<1>1. UNCHANGED <<db, used, hosts, late, task, restore, asked, faults, history>>
  BY Zenon DEF PollList, LookInventory, LookRows
<1>2. PollOK' /\ Polled' = {}
  <2>0. "listed" \notin {"boots"} \cup Uuid /\ "write" \notin {"boots"} \cup Uuid
        /\ \A h \in Elsewhere : h \notin {"boots"} \cup Uuid
    BY LifecycleAssumption, Zenon DEF Elsewhere
  <2>1. CASE PollList
    <3>1. Listing(dom, Local) \in Partial({"running", "stopped"})
      BY ListingOK, Zenon
    <3>2. poll' = [at |-> "listed", seen |-> Listing(dom, Local)]
      BY <2>1, Zenon DEF PollList
    <3>3. poll' \in [at : {"listed", "write"}, seen : Partial({"running", "stopped"})] /\ poll'.at = "listed"
      BY <3>1, <3>2, SMT
    <3> QED
      BY <2>0, <3>3, Zenon DEF PollOK, Polled
  <2>2. ASSUME NEW h \in Elsewhere, LookRows(h) PROVE PollOK' /\ Polled' = {}
    <3> DEFINE S == InstancesOnHost(rows, h)
               f == [u \in S |-> rows[u].state]
    <3>1. S \in SUBSET Uuid /\ \A u \in S : rows[u].state \in {"running", "stopped", "starting"}
      BY RowFields, Zenon DEF InstancesOnHost, Live, Types, RowsOK
    <3>2. f \in Partial({"running", "stopped", "starting"})
      <4> HIDE DEF S
      <4>1. f \in [S -> {"running", "stopped", "starting"}]
        BY <3>1, Zenon
      <4> QED
        BY <3>1, <4>1, MakePartial, Zenon
    <3>3. poll' = [at |-> h, row |-> f]
      BY <2>2, Zenon DEF LookRows
    <3> HIDE DEF f
    <3>4. poll' \in [at : Elsewhere, row : Partial({"running", "stopped", "starting"})] /\ poll'.at = h
      BY <3>2, <3>3, SMT
    <3> QED
      BY <2>0, <3>4, Zenon DEF PollOK, Polled
  <2>3. CASE LookInventory
    <3>1. CASE poll' = Quiet
      BY <3>1, QuietOK, Zenon
    <3>2. CASE poll' # Quiet
      <4> DEFINE now(u) == IF u \in Domains(dom, poll.at) THEN DomainState(dom, u) ELSE "stopped"
                 changed == {u \in DOMAIN poll.row : now(u) # poll.row[u]}
                 f == [u \in changed |-> now(u)]
      <4>1. poll' = [at |-> "write", seen |-> f]
        BY <2>3, <3>2, Zenon DEF LookInventory
      <4>2. changed \in SUBSET Uuid
        <5>0. poll.at \in Elsewhere /\ PollOK
          BY <2>3, Zenon DEF LookInventory, Types
        <5>1. DOMAIN poll.row \subseteq Uuid
          BY <5>0, PollIs, PartialIs, ZenonT(60)
        <5> QED
          BY <5>1, Zenon
      <4>3. \A u : now(u) \in {"running", "stopped"}
        BY Zenon DEF DomainState
      <4> HIDE DEF changed, now
      <4>4. f \in [changed -> {"running", "stopped"}]
        BY <4>3, Zenon
      <4>5. f \in Partial({"running", "stopped"})
        BY <4>2, <4>4, MakePartial, Zenon
      <4> HIDE DEF f
      <4>6. poll' \in [at : {"listed", "write"}, seen : Partial({"running", "stopped"})] /\ poll'.at = "write"
        BY <4>1, <4>5, SMT
      <4> QED
        BY <2>0, <4>6, Zenon DEF PollOK, Polled
    <3> QED
      BY <3>1, <3>2, Zenon
  <2> QED
    BY <2>1, <2>2, <2>3, Zenon
<1>3. RestoreOK' /\ \A u \in Restoring' : Known(u)
  BY <1>1, RestoreStill, Zenon
<1> QED
  BY <1>1, <1>2, <1>3, ViewStep, Zenon

\* The steps at which a poll writes what it read.
LEMMA PollWrites ==
  ASSUME Types, PollWrite \/ LookWrite
  PROVE  Types' /\ Fewer /\ RowChange /\ SameWish(rows')
<1>1. UNCHANGED <<released, used, hosts, late, task, restore, asked, faults, history>>
  BY Zenon DEF PollWrite, LookWrite
<1>2. rows' \in Rows /\ Kept(rows') /\ SameWish(rows')
  <2>1. poll.seen \in Partial({"running", "stopped"})
    BY PollIs, Zenon DEF PollWrite, LookWrite, Types
  <2>2. rows' = ObservedAll(rows, poll.seen)
    BY Zenon DEF PollWrite, LookWrite
  <2> QED
    BY <2>1, <2>2, ObservedAllOK, Zenon DEF Types
<1>3. RestoreOK' /\ \A u \in Restoring' : Known(u)
  BY <1>1, RestoreStill, Zenon
<1>4. PollOK' /\ \A u \in Polled' : Known(u)
  <2>1. CASE poll' = Quiet
    BY <2>1, QuietOK, Zenon
  <2>2. CASE poll' # Quiet
    <3> DEFINE todo == {u \in InstancesOnHost(rows, Local) \cap DOMAIN poll.seen :
                          poll.seen[u] = "running" /\ iso[u]}
               f == [u \in todo |-> rows'[u]]
    <3>1. poll' = [at |-> "boots", row |-> f]
      BY <2>2, Zenon DEF PollWrite, LookWrite
    <3>2. todo \in SUBSET Uuid /\ \A u \in todo : rows[u] # NoRow
      BY Zenon DEF InstancesOnHost, Live
    <3>3. \A u \in todo : rows'[u] \in Row
      BY <1>2, <3>2, Zenon DEF Kept, SameRow
    <3> HIDE DEF todo
    <3>4. f \in [todo -> Row] /\ DOMAIN f = todo
      BY <3>3, Zenon
    <3>5. f \in Partial(Row)
      BY <3>2, <3>4, MakePartial, Zenon
    <3> HIDE DEF f
    <3>6. /\ poll' \in [at : {"boots"} \cup Uuid, row : Partial(Row)] /\ poll'.at = "boots"
          /\ poll'.row = f
      BY <3>1, <3>5, SMT
    <3> QED
      BY <3>2, <3>4, <3>6, Zenon DEF PollOK, Polled, Known
  <2> QED
    BY <2>1, <2>2, Zenon
<1> QED
  BY <1>1, <1>2, <1>3, <1>4, ObserveStep, Zenon

\* The first boot: at most the domain of an instance the poll holds is defined.
LEMMA FirstBoot ==
  ASSUME Types, FirstBootDefine \/ FirstBootDelete
  PROVE  /\ Types' /\ Fewer
         /\ UNCHANGED <<db, used, disk, late, task, restore, asked, faults, history>>
<1>1. UNCHANGED <<db, used, disk, late, task, restore, asked, faults, history>>
  BY Zenon DEF FirstBootDefine, FirstBootDelete
<1>2. /\ poll.at \in {"boots"} \cup Uuid /\ PollOK
      /\ poll \in [at : {"boots"} \cup Uuid, row : Partial(Row)]
      /\ poll.at \in {"boots"} \cup DOMAIN poll.row
  BY PollIs, Zenon DEF FirstBootDefine, FirstBootDelete, Types
<1>3. /\ poll.row \in Partial(Row) /\ Polled = DOMAIN poll.row
      /\ DOMAIN poll.row \subseteq Uuid /\ \A u \in DOMAIN poll.row : poll.row[u] \in Row
  <2>1. poll.row \in Partial(Row)
    BY <1>2, SMT
  <2> QED
    BY <1>2, <2>1, PartialIs, Zenon DEF Polled
<1>4. \A u \in DOMAIN poll.row : Known(u)
  BY <1>3, Zenon DEF Known
<1>5. dom \in Doms /\ iso \in [Uuid -> BOOLEAN]
  BY Zenon DEF Types, HostsOK
<1>6. /\ dom' \in Doms /\ iso' \in [Uuid -> BOOLEAN] /\ PollOK' /\ Polled' \subseteq Polled
      /\ \A v \in Uuid : dom'[v] # NoDomain => Known(v)
  <2>1. ASSUME NEW u \in DOMAIN poll.row, poll.at = "boots", UNCHANGED iso,
               dom' = Define(dom, Local, u, poll.row[u].name, poll.row[u].mem, FALSE),
               poll' = [poll EXCEPT !.at = u]
        PROVE  /\ dom' \in Doms /\ iso' \in [Uuid -> BOOLEAN] /\ PollOK' /\ Polled' \subseteq Polled
               /\ \A v \in Uuid : dom'[v] # NoDomain => Known(v)
    <3>1. u \in Uuid /\ poll.row[u].name \in Name /\ poll.row[u].mem \in Memory /\ Local \in Host
      BY <1>3, RowFields, LifecycleAssumption, Zenon
    <3>2. ASSUME NEW b, b \in BOOLEAN
          PROVE  /\ Define(dom, Local, u, poll.row[u].name, poll.row[u].mem, b) \in Doms
                 /\ \A x \in Uuid \ {u} : Define(dom, Local, u, poll.row[u].name, poll.row[u].mem, b)[x] = dom[x]
      BY <1>5, <3>1, <3>2, DefineOK, SMT
    <3>3. dom' \in Doms /\ \A x \in Uuid \ {u} : dom'[x] = dom[x]
      BY <2>1, <3>2, Zenon
    <3>4. /\ poll' \in [at : {"boots"} \cup Uuid, row : Partial(Row)]
          /\ poll'.at = u /\ poll'.row = poll.row
      BY <1>2, <2>1, <3>1, SMT
    <3>5. PollOK' /\ Polled' = Polled
      BY <1>3, <3>1, <3>4, Zenon DEF PollOK, Polled
    <3>6. \A v \in Uuid : dom'[v] # NoDomain => Known(v)
      BY <1>4, <3>3, Zenon DEF Known
    <3> QED
      BY <1>5, <2>1, <3>3, <3>5, <3>6, Zenon
  <2>2. ASSUME NEW u \in DOMAIN poll.row, poll' = NextBoot(u), UNCHANGED dom,
               iso' = iso \/ iso' = [iso EXCEPT ![u] = FALSE]
        PROVE  /\ dom' \in Doms /\ iso' \in [Uuid -> BOOLEAN] /\ PollOK' /\ Polled' \subseteq Polled
               /\ \A v \in Uuid : dom'[v] # NoDomain => Known(v)
    <3>1. PollOK' /\ Polled' \subseteq Polled
      BY <1>2, <2>2, NextBootOK, Zenon
    <3>2. iso' \in [Uuid -> BOOLEAN]
      BY <1>3, <1>5, <2>2, Zenon
    <3> QED
      BY <1>5, <2>2, <3>1, <3>2, Zenon DEF Known
  <2>3. CASE FirstBootDefine
    BY <2>1, <2>2, <2>3, Zenon DEF FirstBootDefine
  <2>4. CASE FirstBootDelete
    <3>1. poll.at \in DOMAIN poll.row
      <4>1. poll.at \in Uuid /\ "boots" \notin Uuid
        BY <2>4, LifecycleAssumption, Zenon DEF FirstBootDelete
      <4> QED
        BY <1>2, <4>1, Zenon
    <3> QED
      BY <2>2, <2>4, <3>1, Zenon DEF FirstBootDelete
  <2> QED
    BY <2>3, <2>4, Zenon
<1>7. HostsOK'
  BY <1>1, <1>6, Zenon DEF Types, HostsOK, OrderOK
<1>8. HostFewer
  BY <1>1, <1>6, Zenon DEF HostFewer, Known, Pending
<1>9. TasksOK' /\ TaskFewer
  BY <1>1, SameTasks, Zenon DEF Types
<1>10. RestoreOK' /\ \A u \in Restoring' : Known(u)
  BY <1>1, RestoreStill, Zenon
<1>11. BoundsOK' /\ RowsOK' /\ RowFewer
  BY <1>1, SameTypes, Zenon DEF Types, RowFewer, Known, db
<1>12. \A u \in Polled' \cup Restoring' : Known(u)
  BY <1>3, <1>4, <1>6, <1>10, Zenon
<1>13. UNCHANGED <<used, built>> /\ halted' \subseteq halted
  BY <1>1, Zenon DEF history
<1> QED
  BY <1>1, <1>6, <1>7, <1>8, <1>9, <1>10, <1>11, <1>12, <1>13, BackStep, Zenon

\* The listing a restore begins with.
LEMMA RestoreList1 ==
  ASSUME Types, RestoreList
  PROVE  Types' /\ Fewer
<1>1. UNCHANGED <<db, used, hosts, late, task, poll, asked, faults, history>>
  BY Zenon DEF RestoreList
<1>2. restore' \in [at : {"listed"}, seen : Partial({"running", "stopped"})] /\ restore'.at = "listed"
  <2>1. Listing(dom, Local) \in Partial({"running", "stopped"})
    BY ListingOK, Zenon
  <2>2. restore' = [at |-> "listed", seen |-> Listing(dom, Local)]
    BY Zenon DEF RestoreList
  <2> QED
    BY <2>1, <2>2, SMT
<1>3. "listed" \notin {"batch"} \cup Uuid
  BY LifecycleAssumption, Zenon
<1>4. RestoreOK' /\ Restoring' = {}
  BY <1>2, <1>3, Zenon DEF RestoreOK, Restoring
<1>5. PollOK' /\ \A u \in Polled' : Known(u)
  BY <1>1, PollStill, Zenon
<1> QED
  BY <1>1, <1>4, <1>5, ViewStep, Zenon

BatchRec == [at : {"batch"} \cup Uuid, name : Partial(Name), batch : SUBSET Uuid, started : SUBSET Uuid]

\* What a restore writes of that listing.
LEMMA RestoreWrite1 ==
  ASSUME Types, RestoreWrite
  PROVE  Types' /\ Fewer /\ RowChange /\ SameWish(rows')
<1>1. UNCHANGED <<released, used, hosts, late, task, poll, asked, faults, history>>
  BY Zenon DEF RestoreWrite
<1>2. rows' \in Rows /\ Kept(rows') /\ SameWish(rows')
  <2>1. restore.seen \in Partial({"running", "stopped"}) /\ RowsOK
    BY RestoreIs, Zenon DEF RestoreWrite, Types
  <2> QED
    BY <2>1, ObservedAllOK, Zenon DEF RestoreWrite
<1>3. PollOK' /\ \A u \in Polled' : Known(u)
  BY <1>1, PollStill, Zenon
<1>4. RestoreOK' /\ \A u \in Restoring' : Known(u)
  <2>1. CASE restore' = Quiet
    BY <2>1, QuietOK, Zenon
  <2>2. CASE restore' # Quiet
    <3> DEFINE todo == InstancesToRestore(rows', Local)
               f == [u \in todo |-> rows'[u].name]
    <3>1. restore' = [at |-> "batch", name |-> f, batch |-> {}, started |-> {}]
      BY <2>2, Zenon DEF RestoreWrite
    <3>2. todo \in SUBSET Uuid /\ \A u \in todo : rows'[u] # NoRow
      BY Zenon DEF InstancesToRestore, InstancesOnHost, Live
    <3>3. \A u \in todo : rows[u] # NoRow /\ rows'[u].name \in Name
      BY <1>2, <3>2, RowFields, Zenon DEF Kept, SameRow
    <3> HIDE DEF todo
    <3>4. f \in [todo -> Name] /\ DOMAIN f = todo
      BY <3>3, Zenon
    <3>5. f \in Partial(Name)
      BY <3>2, <3>4, MakePartial, Zenon
    <3> HIDE DEF f
    <3>6. /\ restore' \in BatchRec /\ restore'.at = "batch" /\ restore'.name = f
          /\ restore'.batch = {} /\ restore'.started = {}
      BY <3>1, <3>5, SMT DEF BatchRec
    <3>7. RestoreOK'
      BY <3>6, Zenon DEF RestoreOK, BatchRec
    <3> QED
      BY <3>2, <3>3, <3>4, <3>6, <3>7, Zenon DEF Restoring, Known
  <2> QED
    BY <2>1, <2>2, Zenon
<1> QED
  BY <1>1, <1>2, <1>3, <1>4, ObserveStep, Zenon

\* What a restore holds once it has its batches.
LEMMA RestoreHolds ==
  ASSUME RestoreOK, restore.at \in {"batch"} \cup Uuid
  PROVE  /\ restore \in BatchRec /\ restore.name \in Partial(Name) /\ Restoring = DOMAIN restore.name
         /\ DOMAIN restore.name \subseteq Uuid /\ \A u \in DOMAIN restore.name : restore.name[u] \in Name
         /\ restore.batch \cup restore.started \subseteq DOMAIN restore.name
         /\ restore.batch \cap restore.started = {}
         /\ restore.at \in {"batch"} \cup restore.batch
<1>1. /\ restore \in BatchRec
      /\ restore.batch \cup restore.started \subseteq DOMAIN restore.name
      /\ restore.batch \cap restore.started = {}
      /\ restore.at \in {"batch"} \cup restore.batch
  BY RestoreIs, Zenon DEF BatchRec
<1>2. restore.name \in Partial(Name)
  BY <1>1, SMT DEF BatchRec
<1> QED
  BY <1>1, <1>2, PartialIs, Zenon DEF Restoring

WithAt(r, a) == [r EXCEPT !.at = a]
WithName(r, n) == [r EXCEPT !.name = n]
WithBatch(r, b) == [r EXCEPT !.batch = b]
WithStarted(r, s) == [r EXCEPT !.started = s]

\* A restore that goes to an instance keeps its batches.
LEMMA WithAtOK ==
  ASSUME NEW r \in BatchRec, NEW a \in {"batch"} \cup Uuid
  PROVE  /\ WithAt(r, a) \in BatchRec /\ WithAt(r, a).at = a
         /\ WithAt(r, a).name = r.name /\ WithAt(r, a).batch = r.batch /\ WithAt(r, a).started = r.started
BY SMT DEF BatchRec, WithAt

\* One that forgets a name keeps the rest.
LEMMA WithNameOK ==
  ASSUME NEW r \in BatchRec, NEW n \in Partial(Name)
  PROVE  /\ WithName(r, n) \in BatchRec /\ WithName(r, n).name = n
         /\ WithName(r, n).at = r.at /\ WithName(r, n).batch = r.batch /\ WithName(r, n).started = r.started
BY SMT DEF BatchRec, WithName

\* One that takes a batch keeps the rest.
LEMMA WithBatchOK ==
  ASSUME NEW r \in BatchRec, NEW b \in SUBSET Uuid
  PROVE  /\ WithBatch(r, b) \in BatchRec /\ WithBatch(r, b).batch = b
         /\ WithBatch(r, b).at = r.at /\ WithBatch(r, b).name = r.name /\ WithBatch(r, b).started = r.started
BY SMT DEF BatchRec, WithBatch

\* One that counts an instance as started keeps the rest.
LEMMA WithStartedOK ==
  ASSUME NEW r \in BatchRec, NEW s \in SUBSET Uuid
  PROVE  /\ WithStarted(r, s) \in BatchRec /\ WithStarted(r, s).started = s
         /\ WithStarted(r, s).at = r.at /\ WithStarted(r, s).name = r.name /\ WithStarted(r, s).batch = r.batch
BY SMT DEF BatchRec, WithStarted

\* The restore goes on to the next instance of its batch.
Onwards(r, b, s, n) == [r EXCEPT !.at = "batch", !.batch = b, !.started = s, !.name = n]

\* One that is done with an instance goes back to its batch.
LEMMA OnwardsOK ==
  ASSUME NEW r \in BatchRec, NEW b \in SUBSET Uuid, NEW s \in SUBSET Uuid, NEW n \in Partial(Name)
  PROVE  /\ Onwards(r, b, s, n) \in BatchRec /\ Onwards(r, b, s, n).at = "batch"
         /\ Onwards(r, b, s, n).batch = b /\ Onwards(r, b, s, n).started = s
         /\ Onwards(r, b, s, n).name = n
<1> DEFINE q1 == WithAt(r, "batch")
           q2 == WithBatch(q1, b)
           q3 == WithStarted(q2, s)
           q4 == WithName(q3, n)
<1>1. Onwards(r, b, s, n) = q4
  BY Zenon DEF WithAt, WithBatch, WithStarted, WithName, Onwards
<1>2. q1 \in BatchRec /\ q1.at = "batch"
  BY WithAtOK, Zenon
<1> HIDE DEF q1
<1>3. q2 \in BatchRec /\ q2.at = "batch" /\ q2.batch = b
  BY <1>2, WithBatchOK, Zenon
<1> HIDE DEF q2
<1>4. q3 \in BatchRec /\ q3.at = "batch" /\ q3.batch = b /\ q3.started = s
  BY <1>3, WithStartedOK, Zenon
<1> HIDE DEF q3
<1>5. q4 \in BatchRec /\ q4.at = "batch" /\ q4.batch = b /\ q4.started = s /\ q4.name = n
  BY <1>4, WithNameOK, Zenon
<1> HIDE DEF q4
<1> QED
  BY <1>1, <1>5, Zenon

\* A step of the restore keeps to the selection it made.
LEMMA RestoreGoes ==
  ASSUME RestoreOK, restore.at \in {"batch"} \cup Uuid, restore' \in BatchRec,
         restore'.batch \cup restore'.started \subseteq DOMAIN restore'.name,
         restore'.batch \cap restore'.started = {}, restore'.at \in {"batch"} \cup restore'.batch,
         DOMAIN restore'.name \subseteq DOMAIN restore.name
  PROVE  RestoreOK' /\ \A u \in Restoring' : Known(u)
<1>1. RestoreOK'
  BY Zenon DEF RestoreOK, BatchRec
<1>2. Restoring = DOMAIN restore.name /\ Restoring' \subseteq DOMAIN restore'.name
  BY RestoreHolds, Zenon DEF Restoring
<1> QED
  BY <1>1, <1>2, Zenon DEF Known

\* The restore takes its next batch.
LEMMA RestoreReads ==
  ASSUME Types, RestoreBatch
  PROVE  Types' /\ Fewer
<1>1. /\ UNCHANGED <<db, used, hosts, late, task, poll, asked, faults, history>>
      /\ restore.at = "batch" /\ restore.batch = {} /\ restore.started = {} /\ RestoreOK
  BY Zenon DEF RestoreBatch, Types
<1>2. PollOK' /\ \A u \in Polled' : Known(u)
  BY <1>1, PollStill, Zenon
<1>3. RestoreOK' /\ \A u \in Restoring' : Known(u)
  <2>1. CASE restore' = Quiet
    BY <2>1, QuietOK, Zenon
  <2>2. ASSUME NEW b \in SUBSET DOMAIN restore.name, restore' = [restore EXCEPT !.batch = b]
        PROVE  RestoreOK' /\ \A u \in Restoring' : Known(u)
    <3>1. restore \in BatchRec /\ restore.name \in Partial(Name) /\ DOMAIN restore.name \subseteq Uuid
      BY <1>1, RestoreHolds, Zenon
    <3>2. restore' = WithBatch(restore, b) /\ b \in SUBSET Uuid
      BY <2>2, <3>1, Zenon DEF WithBatch
    <3>3. /\ restore' \in BatchRec /\ restore'.at = "batch" /\ restore'.name = restore.name
          /\ restore'.batch = b /\ restore'.started = {}
      BY <1>1, <3>1, <3>2, WithBatchOK, Zenon
    <3> QED
      BY <1>1, <3>1, <3>3, RestoreGoes, Zenon
  <2> QED
    BY <2>1, <2>2, Zenon DEF RestoreBatch
<1> QED
  BY <1>1, <1>2, <1>3, ViewStep, Zenon

\* A restore sees an instance in one of the three states.
LEMMA SeenAsOK ==
  ASSUME NEW n
  PROVE  SeenAs(n) \in {"running", "stopped", "starting"}
BY Zenon DEF SeenAs

\* The restore marks an instance as starting, and waits for it.
LEMMA RestoreWrites ==
  ASSUME Types, RestoreMark \/ RestoreWait
  PROVE  Types' /\ Fewer /\ RowChange /\ SameWish(rows')
<1>1. /\ UNCHANGED <<released, used, hosts, late, task, poll, asked, faults, history>>
      /\ restore.at = "batch" /\ RestoreOK /\ RowsOK
  BY Zenon DEF RestoreMark, RestoreWait, Types
<1>2. /\ restore \in BatchRec /\ restore.name \in Partial(Name) /\ DOMAIN restore.name \subseteq Uuid
      /\ restore.batch \cup restore.started \subseteq DOMAIN restore.name
      /\ restore.batch \cap restore.started = {}
  BY <1>1, RestoreHolds, Zenon
<1>3. PollOK' /\ \A u \in Polled' : Known(u)
  BY <1>1, PollStill, Zenon
<1>4. /\ rows' \in Rows /\ Kept(rows') /\ SameWish(rows')
      /\ RestoreOK' /\ \A u \in Restoring' : Known(u)
  <2>1. ASSUME NEW u \in restore.batch, rows' = SetObserved(rows, u, "starting"),
               restore' = [restore EXCEPT !.at = u]
        PROVE  /\ rows' \in Rows /\ Kept(rows') /\ SameWish(rows')
               /\ RestoreOK' /\ \A v \in Restoring' : Known(v)
    <3>1. u \in Uuid
      BY <1>2, Zenon
    <3>5. restore' = WithAt(restore, u)
      BY <2>1, Zenon DEF WithAt
    <3>2. /\ restore' \in BatchRec /\ restore'.at = u /\ restore'.name = restore.name
          /\ restore'.batch = restore.batch /\ restore'.started = restore.started
      BY <1>2, <3>1, <3>5, WithAtOK, Zenon
    <3>3. RestoreOK' /\ \A v \in Restoring' : Known(v)
      BY <1>1, <1>2, <3>2, RestoreGoes, Zenon
    <3>4. rows' \in Rows /\ Kept(rows') /\ SameWish(rows')
      BY <1>1, <2>1, <3>1, SetObservedOK, Zenon
    <3> QED
      BY <3>3, <3>4, Zenon
  <2>2. ASSUME NEW u \in restore.started, rows' = SetObserved(rows, u, SeenAs(restore.name[u])),
               restore' = [restore EXCEPT !.started = @ \ {u}, !.name = Without(@, u)],
               restore.batch = {}
        PROVE  /\ rows' \in Rows /\ Kept(rows') /\ SameWish(rows')
               /\ RestoreOK' /\ \A v \in Restoring' : Known(v)
    <3> DEFINE n == Without(restore.name, u)
    <3>1. n \in Partial(Name) /\ DOMAIN n = DOMAIN restore.name \ {u}
      BY <1>2, PartialIs, Zenon
    <3>s. PICK s : s = restore.started \ {u}
      BY Zenon
    <3> DEFINE q == WithStarted(restore, s)
    <3>2. restore' = WithName(q, n) /\ s \in SUBSET Uuid
      BY <1>2, <2>2, <3>s, Zenon DEF WithStarted, WithName
    <3> HIDE DEF n
    <3>q. /\ q \in BatchRec /\ q.at = "batch" /\ q.name = restore.name
          /\ q.batch = {} /\ q.started = s
      BY <1>1, <1>2, <2>2, <3>2, WithStartedOK, Zenon
    <3> HIDE DEF q
    <3>r. /\ restore' \in BatchRec /\ restore'.at = "batch" /\ restore'.name = n
          /\ restore'.batch = {} /\ restore'.started = restore.started \ {u}
      BY <3>1, <3>2, <3>q, <3>s, WithNameOK, Zenon
    <3>3. u \in Uuid
      BY <1>2, Zenon
    <3>4. rows' \in Rows /\ Kept(rows') /\ SameWish(rows')
      BY <1>1, <2>2, <3>3, SeenAsOK, SetObservedOK, Zenon
    <3>5. /\ {} \in SUBSET Uuid /\ restore.started \ {u} \in SUBSET Uuid
          /\ {} \cup (restore.started \ {u}) \subseteq DOMAIN n /\ {} \cap (restore.started \ {u}) = {}
          /\ DOMAIN n \subseteq DOMAIN restore.name
      BY <1>2, <3>1, Zenon
    <3>6. RestoreOK' /\ \A v \in Restoring' : Known(v)
      BY <1>1, <3>r, <3>5, RestoreGoes, Zenon
    <3> QED
      BY <3>4, <3>6, Zenon
  <2> QED
    BY <2>1, <2>2, Zenon DEF RestoreMark, RestoreWait
<1> QED
  BY <1>1, <1>3, <1>4, ObserveStep, Zenon

\* The restore starts the guest of an instance.
LEMMA RestoreStarts ==
  ASSUME Types, RestoreStart
  PROVE  Types' /\ Fewer /\ RowChange /\ SameWish(rows')
<1>1. /\ restore.at \in Uuid /\ RestoreOK /\ RowsOK /\ HostsOK /\ BoundsOK
      /\ UNCHANGED <<released, used, task, poll, asked, crossed, built>> /\ Woken
  BY Zenon DEF RestoreStart, Types
<1>2. PICK u, n, o, m :
        /\ u = restore.at /\ n = restore.name[u] /\ o = Order("start", Local, u, n)
        /\ m = Without(restore.name, u)
  OBVIOUS
<1>3. /\ restore \in BatchRec /\ restore.name \in Partial(Name) /\ DOMAIN restore.name \subseteq Uuid
      /\ restore.batch \cup restore.started \subseteq DOMAIN restore.name
      /\ restore.batch \cap restore.started = {} /\ Restoring = DOMAIN restore.name
      /\ \A v \in DOMAIN restore.name : restore.name[v] \in Name
      /\ restore.at \in {"batch"} \cup restore.batch
  BY <1>1, RestoreHolds, Zenon
<1>4. u \in restore.batch /\ u \in DOMAIN restore.name /\ u \in Uuid /\ n \in Name
  <2>1. "batch" \notin Uuid
    BY LifecycleAssumption, Zenon
  <2>2. u \in restore.batch
    BY <1>1, <1>2, <1>3, <2>1, Zenon
  <2> QED
    BY <1>2, <1>3, <2>2, Zenon
<1>5. OrderOK(o) /\ o.u = u
  <2>1. Local \in Host
    BY LifecycleAssumption, Zenon
  <2>2. OrderOK(Order("start", Local, u, n)) /\ Order("start", Local, u, n).u = u
    BY <1>4, <2>1, PlainOrder, ZenonT(60)
  <2> QED
    BY <1>2, <2>2, Zenon
<1>6. m \in Partial(Name) /\ DOMAIN m = DOMAIN restore.name \ {u}
  <2>1. Without(restore.name, u) \in Partial(Name) /\ DOMAIN Without(restore.name, u) = DOMAIN restore.name \ {u}
    <3>1. restore.name \in Partial(Name)
      BY <1>3, Zenon
    <3> QED
      BY <3>1, PartialIs, Zenon
  <2> QED
    BY <1>2, <2>1, Zenon
<1>7. PICK a \in Answers(o) :
        /\ Take(a)
        /\ \/ /\ restore' = Onwards(restore, restore.batch \ {u}, restore.started \cup {u}, restore.name)
              /\ UNCHANGED rows
           \/ /\ rows' = SetObserved(rows, u, SeenAs(n))
              /\ restore' = Onwards(restore, restore.batch \ {u}, restore.started, m)
  BY <1>2, Zenon DEF RestoreStart, Onwards
<1>8. HostsOK' /\ faults' \in 0 .. MaxFaults /\ Effect(o)
  BY <1>1, <1>5, <1>7, TakeOK, Zenon
<1>9. HostFewer
  <2>1. Known(u)
    BY <1>3, <1>4, Zenon DEF Known
  <2> QED
    BY <1>5, <1>8, <2>1, Zenon DEF HostFewer, Effect, Known, Pending
<1>10. rows' \in Rows /\ Kept(rows') /\ SameWish(rows')
  <2>1. /\ SetObserved(rows, u, SeenAs(n)) \in Rows /\ Kept(SetObserved(rows, u, SeenAs(n)))
        /\ SameWish(SetObserved(rows, u, SeenAs(n)))
    BY <1>1, <1>4, SeenAsOK, SetObservedOK, Zenon
  <2>2. rows \in Rows /\ Kept(rows) /\ SameWish(rows)
    BY <1>1, NothingKept, Zenon
  <2>3. rows' = rows \/ rows' = SetObserved(rows, u, SeenAs(n))
    BY <1>7, Zenon
  <2> QED
    BY <2>1, <2>2, <2>3, Zenon
<1>17. RestoreOK' /\ \A v \in Restoring' : Known(v)
  <2>1. PICK b, s : b = restore.batch \ {u} /\ s = restore.started \cup {u}
    BY Zenon
  <2>2. /\ b \in SUBSET Uuid /\ s \in SUBSET Uuid /\ restore.started \in SUBSET Uuid
        /\ b \cup s \subseteq DOMAIN restore.name /\ b \cap s = {}
        /\ b \cup restore.started \subseteq DOMAIN m /\ b \cap restore.started = {}
        /\ DOMAIN m \subseteq DOMAIN restore.name /\ restore.at \in {"batch"} \cup Uuid
    BY <1>1, <1>3, <1>4, <1>6, <2>1, Zenon
  <2>3. restore' = Onwards(restore, b, s, restore.name) \/ restore' = Onwards(restore, b, restore.started, m)
    BY <1>7, <2>1, Zenon
  <2>4. ASSUME restore' = Onwards(restore, b, s, restore.name)
        PROVE  RestoreOK' /\ \A v \in Restoring' : Known(v)
    <3>1. /\ restore' \in BatchRec /\ restore'.at = "batch" /\ restore'.name = restore.name
          /\ restore'.batch = b /\ restore'.started = s
      <4>1. restore \in BatchRec /\ restore.name \in Partial(Name) /\ b \in SUBSET Uuid /\ s \in SUBSET Uuid
        BY <1>3, <2>2, Zenon
      <4> QED
        BY <2>4, <4>1, OnwardsOK, SMT
    <3> QED
      BY <1>1, <2>2, <3>1, RestoreGoes, Zenon
  <2>5. ASSUME restore' = Onwards(restore, b, restore.started, m)
        PROVE  RestoreOK' /\ \A v \in Restoring' : Known(v)
    <3>1. /\ restore' \in BatchRec /\ restore'.at = "batch" /\ restore'.name = m
          /\ restore'.batch = b /\ restore'.started = restore.started
      <4>1. /\ restore \in BatchRec /\ m \in Partial(Name)
            /\ b \in SUBSET Uuid /\ restore.started \in SUBSET Uuid
        BY <1>3, <1>6, <2>2, Zenon
      <4> QED
        BY <2>5, <4>1, OnwardsOK, SMT
    <3> QED
      BY <1>1, <2>2, <3>1, RestoreGoes, Zenon
  <2> QED
    BY <2>3, <2>4, <2>5, Zenon
<1>12. RowChange
  BY <1>1, <1>10, Zenon DEF RowChange
<1>13. RowsOK' /\ RowFewer
  BY <1>12, RowChangeOK, Zenon DEF RowFewer, Known
<1>14. PollOK' /\ \A v \in Polled' : Known(v)
  BY <1>1, PollStill, Zenon
<1>15. TasksOK' /\ TaskFewer
  BY <1>1, SameTasks, Zenon DEF Types
<1>16. BoundsOK' /\ halted' \subseteq halted
  BY <1>1, <1>8, Zenon DEF BoundsOK, Woken
<1> QED
  BY <1>1, <1>8, <1>9, <1>10, <1>12, <1>13, <1>14, <1>15, <1>16, <1>17, BackStep, Zenon

-----------------------------------------------------------------------------
(* Faults and the guests. *)

\* Switching off every guest of a machine creates none.
LEMMA AllOffOK ==
  ASSUME HostsOK, NEW h
  PROVE  AllOff(h) \in Doms /\ \A u \in Uuid : AllOff(h)[u] # NoDomain => dom[u] # NoDomain
<1>1. \A d \in Domain : [d EXCEPT !.on = FALSE] \in Domain
  <2>1. ASSUME NEW d \in Domain, NEW b, b \in BOOLEAN
        PROVE  [d EXCEPT !.on = b] \in Domain
    BY <2>1, SMT DEF Domain
  <2> QED
    BY <2>1, Zenon
<1>2. \A u \in Uuid : dom[u] # NoDomain => [dom[u] EXCEPT !.on = FALSE] \in Domain
  BY <1>1, Zenon DEF HostsOK, Doms
<1>3. \A u \in Uuid : /\ AllOff(h)[u] \in Domain \cup {NoDomain}
                      /\ AllOff(h)[u] # NoDomain => dom[u] # NoDomain
  <2> SUFFICES ASSUME NEW u \in Uuid
               PROVE  /\ AllOff(h)[u] \in Domain \cup {NoDomain}
                      /\ AllOff(h)[u] # NoDomain => dom[u] # NoDomain
    BY Zenon
  <2>1. CASE dom[u] # NoDomain /\ dom[u].host = h
    <3>1. AllOff(h)[u] = [dom[u] EXCEPT !.on = FALSE]
      BY <2>1, Zenon DEF AllOff
    <3>2. AllOff(h)[u] \in Domain
      BY <1>2, <2>1, <3>1
    <3> QED
      BY <2>1, <3>2, Zenon
  <2>2. CASE ~(dom[u] # NoDomain /\ dom[u].host = h)
    <3>1. AllOff(h)[u] = dom[u]
      BY <2>2, Zenon DEF AllOff
    <3> QED
      BY <3>1, Zenon DEF HostsOK, Doms
  <2> QED
    BY <2>1, <2>2, Zenon
<1>4. AllOff(h) = [u \in Uuid |-> AllOff(h)[u]]
  BY Zenon DEF AllOff
<1> QED
  BY <1>3, <1>4, Zenon DEF Doms

\* A crash ends requests and touches no other.
LEMMA CrashedTasks ==
  ASSUME TasksOK, \A x \in Slot : task'[x] = Idle \/ task'[x] = task[x], task' = [x \in Slot |-> task'[x]]
  PROVE  TasksOK' /\ TaskFewer
<1>1. Idle.op = None
  BY Zenon DEF Idle
<1> QED
  BY <1>1, Zenon DEF TasksOK, TaskRec, TaskFewer, Held, Inserting

\* A fault that leaves the database and the files alone.
LEMMA FaultStep ==
  ASSUME Types, UNCHANGED <<db, used, asked, disk, iso, built>>, halted' \subseteq halted,
         Fault \/ UNCHANGED faults,
         TasksOK' /\ TaskFewer, dom' \in Doms, \A u \in Uuid : dom'[u] # NoDomain => dom[u] # NoDomain,
         late' \subseteq late, PollOK' /\ RestoreOK', \A u \in Polled' \cup Restoring' : Known(u)
  PROVE  Types' /\ Fewer
<1>1. BoundsOK' /\ RowsOK'
  BY FaultOK, SameTypes, Zenon DEF Types
<1>2. HostsOK'
  BY Zenon DEF Types, HostsOK, OrderOK
<1>3. HostFewer /\ RowFewer
  BY Zenon DEF HostFewer, RowFewer, Known, Pending, db
<1> QED
  BY <1>1, <1>2, <1>3, BackStep, Zenon

\* A crash of a daemon, and a reboot of the controller, cut requests off.
LEMMA CrashSteps ==
  ASSUME Types, ServeCrash \/ SshdCrash \/ Reboot
  PROVE  Types' /\ Fewer
<1>1. /\ UNCHANGED <<db, used, asked, disk, iso, built, halted, late>> /\ Fault /\ TasksOK /\ HostsOK
      /\ dom' = dom \/ dom' = AllOff(Local)
  BY Zenon DEF ServeCrash, SshdCrash, Reboot, history, hosts, Types
<1>2. dom' \in Doms /\ \A u \in Uuid : dom'[u] # NoDomain => dom[u] # NoDomain
  BY <1>1, AllOffOK, Zenon DEF HostsOK
<1>3. TasksOK' /\ TaskFewer
  <2>1. \/ task' = [task EXCEPT !["api"] = Idle] \/ task' = [task EXCEPT !["sshd"] = Idle]
        \/ task' = [t \in Slot |-> Idle]
    BY Zenon DEF ServeCrash, SshdCrash, Reboot
  <2>2. /\ \A x \in Slot : task'[x] = Idle \/ task'[x] = task[x]
        /\ task' = [x \in Slot |-> task'[x]]
    BY <1>1, <2>1, Zenon DEF TasksOK
  <2> QED
    BY <1>1, <2>2, CrashedTasks, Zenon
<1>4. PollOK' /\ \A u \in Polled' : Known(u)
  BY PollStill, QuietOK, Zenon DEF ServeCrash, SshdCrash, Reboot, background
<1>5. RestoreOK' /\ \A u \in Restoring' : Known(u)
  BY RestoreStill, QuietOK, Zenon DEF ServeCrash, SshdCrash, Reboot, background
<1> QED
  BY <1>1, <1>2, <1>3, <1>4, <1>5, FaultStep, Zenon

\* A reboot of a runner, and a guest that halts by itself.
LEMMA PowerSteps ==
  ASSUME Types, (\E h \in Elsewhere : RunnerReboot(h)) \/ \E u \in Uuid : GuestHalts(u)
  PROVE  Types' /\ Fewer
<1>1. /\ UNCHANGED <<db, used, asked, disk, iso, built, halted, task, poll, restore>> /\ Fault
      /\ late' \subseteq late /\ HostsOK /\ TasksOK
  BY Zenon DEF RunnerReboot, GuestHalts, history, background, Types
<1>2. dom' \in Doms /\ \A u \in Uuid : dom'[u] # NoDomain => dom[u] # NoDomain
  <2>1. ASSUME NEW u \in Uuid, GuestHalts(u)
        PROVE  dom' \in Doms /\ \A v \in Uuid : dom'[v] # NoDomain => dom[v] # NoDomain
    <3>1. dom \in Doms /\ dom[u] # NoDomain /\ dom' = Powered(dom, u, FALSE)
      BY <1>1, <2>1, Zenon DEF GuestHalts, On, HostsOK
    <3> QED
      BY <3>1, PoweredOK, Zenon
  <2>2. ASSUME NEW h \in Elsewhere, RunnerReboot(h)
        PROVE  dom' \in Doms /\ \A v \in Uuid : dom'[v] # NoDomain => dom[v] # NoDomain
    BY <1>1, <2>2, AllOffOK, Zenon DEF RunnerReboot
  <2> QED
    BY <2>1, <2>2, Zenon
<1>3. TasksOK' /\ TaskFewer
  BY <1>1, SameTasks, Zenon
<1>4. PollOK' /\ RestoreOK' /\ \A u \in Polled' \cup Restoring' : Known(u)
  BY <1>1, PollStill, RestoreStill, Zenon
<1> QED
  BY <1>1, <1>2, <1>3, <1>4, FaultStep, Zenon

\* A released name becomes free for everybody.
LEMMA CooldownStep ==
  ASSUME Types, NEW n \in Name, CooldownEnds(n)
  PROVE  Types' /\ Fewer /\ RowChange
<1>1. /\ UNCHANGED <<rows, used, hosts, late, task, poll, restore, asked, built, halted>>
      /\ Fault /\ released' = [released EXCEPT ![n] = Nobody]
  BY Zenon DEF CooldownEnds, background, history
<1>2. RowChange
  BY <1>1, Zenon DEF RowChange
<1>3. RowsOK' /\ RowFewer
  BY <1>2, RowChangeOK, Zenon DEF RowFewer, Known
<1>4. BoundsOK'
  BY <1>1, FaultOK, Zenon DEF Types
<1>5. HostsOK' /\ HostFewer /\ TasksOK' /\ TaskFewer
  BY <1>1, SameHosts, SameTasks, Zenon DEF Types
<1>6. PollOK' /\ RestoreOK' /\ \A u \in Polled' \cup Restoring' : Known(u)
  BY <1>1, PollStill, RestoreStill, Zenon
<1> QED
  BY <1>1, <1>2, <1>3, <1>4, <1>5, <1>6, BackStep, Zenon

\* An order that arrives late finds the UUID it was sent for.
LateIs(o, r) ==
  /\ o \in late /\ OutcomeOK(o, r)
  /\ dom' = r.dom /\ disk' = r.disk /\ iso' = r.iso /\ late' = {} /\ UNCHANGED faults

\* An order that arrives late is carried out as the machine now is.
LEMMA LateOrderIs ==
  ASSUME Types, LateOrder
  PROVE  /\ \E o \in late : \E r : LateIs(o, r)
         /\ UNCHANGED <<db, used, task, background, asked, crossed, built>> /\ Woken
<1>0. PICK o \in late : \E r \in Perform(o) : Take(Answer(r.code, r, {}, 0))
  BY Zenon DEF LateOrder
<1>1. PICK r \in Perform(o) : Take(Answer(r.code, r, {}, 0))
  BY <1>0, Zenon
<1>2. OutcomeOK(o, r)
  BY <1>1, PerformOK, Zenon DEF Types, HostsOK
<1> DEFINE a == Answer(r.code, r, {}, 0)
<1>3. a.dom = r.dom /\ a.disk = r.disk /\ a.iso = r.iso /\ a.late = {} /\ a.cost = 0
  BY Zenon DEF Answer
<1> HIDE DEF a
<1>4. dom' = r.dom /\ disk' = r.disk /\ iso' = r.iso /\ late' = {} /\ faults' = faults + 0
  BY <1>1, <1>3, Zenon DEF Take, a
<1>5. faults' = faults
  BY <1>4, SMT DEF Types, BoundsOK
<1>6. LateIs(o, r)
  BY <1>1, <1>2, <1>4, <1>5, Zenon DEF LateIs
<1> QED
  BY <1>6, Zenon DEF LateOrder

\* It touches only what an order may touch.
LEMMA LateStep ==
  ASSUME Types, LateOrder
  PROVE  Types' /\ Fewer
<1>0. PICK o \in late : \E r : LateIs(o, r)
  BY LateOrderIs, Zenon
<1>1. PICK r : LateIs(o, r)
  BY <1>0, Zenon
<1>2. UNCHANGED <<db, used, task, poll, restore, asked, faults, built>> /\ halted' \subseteq halted
  BY <1>1, LateOrderIs, Zenon DEF background, Woken, LateIs
<1>3. OutcomeOK(o, r) /\ Known(o.u)
  BY <1>1, Zenon DEF LateIs, Known, Pending
<1>4. HostsOK' /\ \A v \in Uuid : disk'[v] = disk[v] \/ disk'[v] = 0 \/ v = o.u
  BY <1>1, <1>3, Zenon DEF LateIs, OutcomeOK, HostsOK
<1>5. \A v \in Uuid : dom'[v] # NoDomain => dom[v] # NoDomain \/ v = o.u
  BY <1>1, <1>3, Zenon DEF LateIs, OutcomeOK
<1>6. late' = {}
  BY <1>1, Zenon DEF LateIs
<1>7. HostFewer
  BY <1>3, <1>4, <1>5, <1>6, Zenon DEF HostFewer, Known, Pending
<1>8. TasksOK' /\ TaskFewer /\ RowsOK' /\ BoundsOK' /\ RowFewer
  BY <1>2, SameTasks, SameTypes, Zenon DEF Types, RowFewer, Known, db
<1>9. PollOK' /\ RestoreOK' /\ \A u \in Polled' \cup Restoring' : Known(u)
  BY <1>2, PollStill, RestoreStill, Zenon
<1> QED
  BY <1>2, <1>4, <1>7, <1>8, <1>9, BackStep, Zenon

-----------------------------------------------------------------------------
(* Types, and minted UUIDs, at every step. *)

\* A background task, a machine or a guest starts no request, wishes nothing
\* and halts nothing.
Quietly ==
  /\ SameWish(rows') /\ halted' \subseteq halted /\ UNCHANGED <<crossed, built>>
  /\ \A x \in Slot : task'[x] = Idle \/ task'[x] = task[x]

\* The polls change states, never wishes, sizes or names.
LEMMA PollSteps ==
  ASSUME Types, Poll \/ Look
  PROVE  Types' /\ Fewer /\ RowChange /\ Quietly
<1>1. UNCHANGED <<task, history>>
  BY Zenon DEF Poll, Look, PollList, PollWrite, FirstBootDefine, FirstBootDelete, LookInventory, LookWrite, LookRows
<1>2. UNCHANGED <<crossed, built>> /\ halted' \subseteq halted /\ \A x \in Slot : task'[x] = task[x]
  BY <1>1, Zenon DEF history
<1>3. CASE PollList \/ LookInventory \/ \E h \in Elsewhere : LookRows(h)
  <2>1. Types' /\ Fewer
    BY <1>3, PollRead, Zenon
  <2>2. UNCHANGED db
    BY <1>3, Zenon DEF PollList, LookInventory, LookRows
  <2>3. SameWish(rows')
    BY <2>2, NothingKept, Zenon DEF Types, db
  <2> QED
    BY <1>2, <2>1, <2>2, <2>3, NoRowChange, Zenon DEF Quietly
<1>4. CASE FirstBootDefine \/ FirstBootDelete
  <2>1. Types' /\ Fewer /\ UNCHANGED db
    BY <1>4, FirstBoot, Zenon
  <2>2. SameWish(rows')
    BY <2>1, NothingKept, Zenon DEF Types, db
  <2> QED
    BY <1>2, <2>1, <2>2, NoRowChange, Zenon DEF Quietly
<1>5. CASE PollWrite \/ LookWrite
  BY <1>2, <1>5, PollWrites, Zenon DEF Quietly
<1> QED
  BY <1>3, <1>4, <1>5, Zenon DEF Poll, Look

\* Neither does the restore.
LEMMA RestoreSteps ==
  ASSUME Types, Restore
  PROVE  Types' /\ Fewer /\ RowChange /\ Quietly
<1>1. UNCHANGED <<task, crossed, built>> /\ halted' \subseteq halted
  BY Zenon DEF Restore, RestoreList, RestoreWrite, RestoreBatch, RestoreMark, RestoreStart, RestoreWait, history, Woken
<1>2. CASE RestoreList \/ RestoreBatch
  <2>1. Types' /\ Fewer
    BY <1>2, RestoreList1, RestoreReads, Zenon
  <2>2. UNCHANGED db
    BY <1>2, Zenon DEF RestoreList, RestoreBatch
  <2>3. SameWish(rows')
    BY <2>2, NothingKept, Zenon DEF Types, db
  <2> QED
    BY <1>1, <2>1, <2>2, <2>3, NoRowChange, Zenon DEF Quietly
<1>3. CASE RestoreWrite \/ RestoreMark \/ RestoreWait \/ RestoreStart
  BY <1>1, <1>3, RestoreWrite1, RestoreWrites, RestoreStarts, Zenon DEF Quietly
<1> QED
  BY <1>2, <1>3, Zenon DEF Restore

\* Neither do crashes, reboots, late orders and the end of a cooldown.
LEMMA UpsetSteps ==
  ASSUME Types, Upset
  PROVE  Types' /\ Fewer /\ RowChange /\ Quietly
<1>1. UNCHANGED <<rows, crossed, built>> /\ halted' \subseteq halted
  BY Zenon DEF Upset, ServeCrash, SshdCrash, Reboot, LateOrder, RunnerReboot, GuestHalts, CooldownEnds,
               history, Woken, db
<1>2. \A x \in Slot : task'[x] = Idle \/ task'[x] = task[x]
  BY Zenon DEF Upset, ServeCrash, SshdCrash, Reboot, LateOrder, RunnerReboot, GuestHalts, CooldownEnds,
               Types, TasksOK
<1>3. SameWish(rows')
  BY <1>1, NothingKept, Zenon DEF Types
<1>4. CASE \E n \in Name : CooldownEnds(n)
  BY <1>1, <1>2, <1>3, <1>4, CooldownStep, Zenon DEF Quietly
<1>5. CASE ~ \E n \in Name : CooldownEnds(n)
  <2>1. Types' /\ Fewer
    BY <1>5, CrashSteps, PowerSteps, LateStep, Zenon DEF Upset
  <2>2. UNCHANGED db
    BY <1>5, Zenon DEF Upset, ServeCrash, SshdCrash, Reboot, LateOrder, RunnerReboot, GuestHalts
  <2> QED
    BY <1>1, <1>2, <1>3, <2>1, <2>2, NoRowChange, Zenon DEF Quietly
<1> QED
  BY <1>4, <1>5, Zenon

\* The initial state has the types.
LEMMA InitTypes ==
  ASSUME Init
  PROVE  Types /\ MintOK
<1>1. PICK row \in [Existing -> Settled] :
        /\ \A u, v \in Existing : u # v => row[u].name # row[v].name
        /\ rows = [u \in Uuid |-> IF u \in Existing THEN row[u] ELSE NoRow]
  BY Zenon DEF Init
<1>2. /\ Existing \subseteq Uuid /\ \A u \in Existing : rows[u] \in Row
      /\ \A u \in Uuid \ Existing : rows[u] = NoRow
  BY <1>1, LifecycleAssumption, Zenon
<1>3. RowsOK
  <2>1. rows \in [Uuid -> Row \cup {NoRow}]
    BY <1>1, <1>2, Zenon
  <2> QED
    BY <2>1, Zenon DEF RowsOK, Init
<1>4. \A u \in Existing : /\ rows[u].name \in Name /\ rows[u].mem \in Memory /\ rows[u].disk \in Disk
                          /\ rows[u].host \in Host /\ (rows[u].state = "running") \in BOOLEAN
  BY <1>2, RowFields, Zenon
<1>5. iso \in [Uuid -> BOOLEAN] /\ disk \in Disks /\ \A u \in Uuid : disk[u] # 0 => u \in Existing
  BY <1>4, Zenon DEF Init, Disks
<1>6. dom \in Doms /\ \A u \in Uuid : dom[u] # NoDomain => u \in Existing
  <2>1. ASSUME NEW u \in Existing
        PROVE  dom[u] \in Domain
    <3>1. PICK n, m, h, b, r : /\ n = rows[u].name /\ m = rows[u].mem /\ h = rows[u].host
                               /\ b = iso[u] /\ r = (rows[u].state = "running")
      OBVIOUS
    <3>2. n \in Name /\ m \in Memory /\ h \in Host /\ b \in BOOLEAN /\ r \in BOOLEAN
      BY <1>2, <1>4, <1>5, <3>1, Zenon
    <3>3. [host |-> h, name |-> n, mem |-> m, iso |-> b, on |-> r] \in Domain
      BY <3>2, SMT DEF Domain
    <3>4. dom[u] = [host |-> rows[u].host, name |-> rows[u].name, mem |-> rows[u].mem, iso |-> iso[u],
                    on |-> rows[u].state = "running"]
      BY <1>2, <2>1, Zenon DEF Init
    <3> QED
      BY <3>1, <3>3, <3>4, Zenon
  <2>2. \A u \in Uuid \ Existing : dom[u] = NoDomain
    BY Zenon DEF Init
  <2>3. dom = [u \in Uuid |-> dom[u]]
    BY Zenon DEF Init
  <2> QED
    BY <2>1, <2>2, <2>3, Zenon DEF Doms
<1>7. HostsOK /\ late = {}
  BY <1>5, <1>6, Zenon DEF HostsOK, Init
<1>8. TasksOK /\ \A t \in Slot : task[t].op = None
  BY Zenon DEF TasksOK, TaskRec, Init, Idle
<1>9. PollOK /\ RestoreOK /\ Polled = {} /\ Restoring = {}
  <2>1. poll = Quiet /\ restore = Quiet /\ Quiet.at = "none"
    BY Zenon DEF Init, Quiet, None
  <2>2. "none" \notin {"boots"} \cup Uuid /\ "none" \notin {"batch"} \cup Uuid
    BY LifecycleAssumption, Zenon
  <2> QED
    BY <2>1, <2>2, Zenon DEF PollOK, RestoreOK, Polled, Restoring
<1>10. BoundsOK
  BY LifecycleAssumption, SMT DEF BoundsOK, Init
<1>11. HistoryOK /\ used = Existing /\ built = Existing /\ halted = {}
  BY <1>2, Zenon DEF HistoryOK, Init
<1>12. \A u \in Uuid : Known(u) => u \in used
  BY <1>2, <1>5, <1>6, <1>7, <1>8, <1>9, <1>11, Zenon DEF Known, Pending, Held
<1>13. MintOK
  BY <1>8, <1>12, Zenon DEF MintOK, Inserting
<1> QED
  BY <1>3, <1>7, <1>8, <1>9, <1>10, <1>11, <1>13, Zenon DEF Types

\* What a step of the system is, with what is known of it.
LEMMA NextIs ==
  ASSUME Types, MintOK, Next
  PROVE  \/ \E t \in Slot : \E w \in TaskRec : AskedOf(t, w)
         \/ \E t \in Slot : NewInsert(t) \/ CopyInsert(t)
         \/ \E t \in Slot : Step(t) /\ ~NewInsert(t) /\ ~CopyInsert(t) /\ Types' /\ Fewer
         \/ (Poll \/ Look \/ Restore \/ Upset) /\ Types' /\ Fewer /\ RowChange /\ Quietly
BY RequestIs, StepTypes, PollSteps, RestoreSteps, UpsetSteps, Zenon DEF Next

\* Every step keeps the types.
LEMMA NextTypes ==
  ASSUME Types, MintOK, Next
  PROVE  Types' /\ MintOK'
BY NextIs, RequestOK, InsertOK, FewerMint, Zenon

\* So does a step of something else.
LEMMA StutterTypes ==
  ASSUME Types, MintOK, UNCHANGED vars
  PROVE  Types' /\ MintOK'
<1>1. /\ UNCHANGED <<db, used, hosts, late, task, poll, restore, asked, faults, history>>
      /\ UNCHANGED <<rows, dom, disk, built, halted>>
  BY Zenon DEF vars, db, hosts, history
<1>2. Types'
  BY <1>1, SameTypes, Zenon DEF Types, HistoryOK
<1>3. Polled' = Polled /\ Restoring' = Restoring
  BY <1>1, Zenon DEF Polled, Restoring
<1>4. Fewer
  BY <1>1, <1>3, Zenon DEF Fewer, RowFewer, HostFewer, TaskFewer, ViewFewer, Known, Pending, Held, Inserting
<1> QED
  BY <1>2, <1>4, FewerMint, Zenon

\* A step of a request changes the table in one of the ways of RowChange.
LEMMA StepChange ==
  ASSUME Types, NEW t \in Slot, Step(t), ~NewInsert(t), ~CopyInsert(t)
  PROVE  RowChange
<1>1. CASE \/ StartDesired(t) \/ StartRecord(t) \/ StopDesired(t) \/ StopRecord(t)
           \/ RestartDesired(t) \/ NewRecord(t) \/ CopyRecord(t)
           \/ RemoveRow(t) \/ UnwindRow(t) \/ RenameRow(t) \/ RenameRevert(t) \/ ResizeRow(t)
  BY <1>1, WriteSteps, ChangeSteps, Zenon
<1>2. CASE \/ StartDomain(t) \/ StopDomain(t) \/ RestartReboot(t) \/ RemoveDomain(t)
           \/ NewProvision(t) \/ CopyGrow(t) \/ RenameUndefine(t) \/ RenameElsewhere(t)
           \/ ResizeGrow(t) \/ ResizeRedefine(t)
           \/ RemoveFiles(t) \/ CopyFile(t) \/ CopySeed(t) \/ CopyUnwindFiles(t)
           \/ CopyCreate(t) \/ RenameDefine(t)
  <2>1. UNCHANGED db
    BY <1>2, Zenon DEF StartDomain, StopDomain, RestartReboot, RemoveDomain, NewProvision, CopyGrow,
                       RenameUndefine, RenameElsewhere, ResizeGrow, ResizeRedefine,
                       RemoveFiles, CopyFile, CopySeed, CopyUnwindFiles, CopyCreate, RenameDefine
  <2> QED
    BY <2>1, NoRowChange, Zenon
<1> QED
  BY <1>1, <1>2, Zenon DEF Step

\* A free slot is no request.
LEMMA IdleIs == Idle.op = None /\ Idle.op # "stop" /\ Idle.op # "resize" /\ Idle.op # "new" /\ Idle.op # "copy"
BY Zenon DEF Idle, None

\* Types, and that a minted UUID is in nobody's hands before its insertion,
\* hold in every state.
THEOREM LifecycleTypes == Spec => [](Types /\ MintOK)
<1>1. Init => Types /\ MintOK
  BY InitTypes, Zenon
<1>2. Types /\ MintOK /\ [Next]_vars => (Types /\ MintOK)'
  BY NextTypes, StutterTypes, Zenon
<1> QED
  BY <1>1, <1>2, PTL DEF Spec

\* The tables, the machines and the bounds keep their types whatever requests,
\* polls, restores, late orders and faults interleave.
THEOREM LifecycleTypeOK == Spec => []TypeOK
<1>1. Types => TypeOK
  BY Zenon DEF Types, RowsOK, HostsOK, BoundsOK, TypeOK, Doms, Disks
<1> QED
  BY <1>1, LifecycleTypes, PTL
=============================================================================
