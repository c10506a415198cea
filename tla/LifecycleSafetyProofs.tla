------------------------ MODULE LifecycleSafetyProofs ------------------------
(***************************************************************************)
(* Three properties of the instance lifecycle, each on top of Types and    *)
(* MintOK: names stay with their owners, what a user halted stays halted,  *)
(* and no machine promises more than its ceilings.                         *)
(*                                                                         *)
(* Capacity is about sums over all instances of a machine. What is needed  *)
(* of sums is proved here from the definition of SumFunction: the          *)
(* recursion has a solution on every finite set, and any element of the    *)
(* set may be split off. Induction over finite sets is the choice of a     *)
(* minimal counterexample (MinimalSet).                                    *)
(***************************************************************************)
EXTENDS LifecycleProofs

-----------------------------------------------------------------------------
(* Names. *)

NamesOK ==
  /\ \A u, v \in Live(rows) : rows[u].name = rows[v].name => u = v
  /\ \A u \in Live(rows) : released[rows[u].name] \in {Nobody, rows[u].owner}

\* A change of the table takes no name that is held or reserved for another.
LEMMA ChangeNames ==
  ASSUME Types, NamesOK, RowChange
  PROVE  NamesOK'
<1>0. RowsOK /\ rows \in Rows /\ released \in Releases
  BY Zenon DEF Types, RowsOK, Rows, Releases
<1>1. CASE rows' \in Rows /\ Kept(rows') /\ UNCHANGED released
  <2>1. \A u \in Uuid : rows'[u] # NoRow => /\ rows[u] # NoRow /\ rows'[u].name = rows[u].name
                                            /\ rows'[u].owner = rows[u].owner
    BY <1>1, RowFields, Zenon DEF Kept, SameRow
  <2> QED
    BY <1>1, <2>1, SMT DEF NamesOK, Live
<1>2. ASSUME NEW u \in Uuid, Deletes(u)
      PROVE  NamesOK'
  <2>1. rows[u] \in Row /\ rows[u] # NoRow
    BY <1>0, <1>2, Zenon DEF Rows, Deletes
  <2>2. rows'[u] = NoRow /\ \A v \in Uuid \ {u} : rows'[v] = rows[v]
    BY <1>0, <1>2, DeletedOK, Zenon DEF Deletes
  <2>3. \A n \in Name \ {rows[u].name} : released'[n] = released[n]
    BY <1>0, <1>2, Zenon DEF Deletes, ReleasedBy, Releases
  <2>4. \A v \in Uuid : rows'[v] # NoRow => /\ rows[v] # NoRow /\ rows'[v] = rows[v]
                                            /\ rows[v].name \in Name \ {rows[u].name}
    BY <1>0, <2>1, <2>2, RowFields, SMT DEF NamesOK, Live, Rows
  <2> QED
    BY <2>3, <2>4, SMT DEF NamesOK, Live
<1>3. ASSUME NEW u \in Uuid, NEW n \in Name, Relabels(u, n)
      PROVE  NamesOK'
  <2>1. rows[u] \in Row /\ rows[u] # NoRow /\ rows[u].name \in Name
    BY <1>0, <1>3, RowFields, Zenon DEF Rows, Relabels, RenameOk
  <2>2. /\ rows'[u].name = n /\ rows'[u].owner = rows[u].owner
        /\ \A v \in Uuid \ {u} : rows'[v] = rows[v]
    BY <1>0, <1>3, <2>1, RenamedOK, Zenon DEF Relabels
  <2>3. CASE rows[u].name = n
    <3>1. released' = released
      BY <1>3, <2>3, Zenon DEF Relabels, RenamedReleases
    <3>2. \A v \in Uuid : rows'[v] # NoRow => /\ rows[v] # NoRow /\ rows'[v].name = rows[v].name
                                              /\ rows'[v].owner = rows[v].owner
      BY <2>1, <2>2, <2>3, Zenon
    <3> QED
      BY <3>1, <3>2, SMT DEF NamesOK, Live
  <2>4. CASE rows[u].name # n
    <3>1. Named(rows, n) = {} /\ released[n] \in {Nobody, rows[u].owner}
      BY <1>3, <2>4, Zenon DEF Relabels, RenameOk, ClaimOk
    <3>2. \A m \in Name \ {rows[u].name} : released'[m] = released[m]
      BY <1>0, <1>3, <2>4, Zenon DEF Relabels, RenamedReleases, ReleasedBy, Releases
    <3>3. \A v \in Uuid \ {u} : rows'[v] # NoRow => /\ rows[v] # NoRow /\ rows'[v] = rows[v]
                                                    /\ rows[v].name # n
                                                    /\ rows[v].name \in Name \ {rows[u].name}
      BY <1>0, <2>1, <2>2, <3>1, RowFields, SMT DEF NamesOK, Live, Rows, Named
    <3>4. released'[n] \in {Nobody, rows[u].owner}
      BY <2>4, <3>1, <3>2, Zenon
    <3>5. \A v, w \in Live(rows') : rows'[v].name = rows'[w].name => v = w
      BY <2>2, <3>3, SMT DEF NamesOK, Live
    <3>6. ASSUME NEW v \in Live(rows')
          PROVE  released'[rows'[v].name] \in {Nobody, rows'[v].owner}
      <4>1. CASE v = u
        BY <2>2, <3>4, <4>1, Zenon
      <4>2. CASE v # u
        BY <3>2, <3>3, <3>6, <4>2, ZenonT(60) DEF NamesOK, Live
      <4> QED
        BY <4>1, <4>2, Zenon
    <3> QED
      BY <3>5, <3>6, Zenon DEF NamesOK
  <2> QED
    BY <2>3, <2>4, Zenon
<1>4. ASSUME NEW t \in Slot, At(t, "resize", "row"), Resizes(task[t].u, task[t].mem, task[t].disk)
      PROVE  NamesOK'
  <2>1. task[t].u \in Uuid /\ task[t].mem \in Memory /\ task[t].disk \in Disk
    BY <1>4, TaskIs, Zenon DEF Types, TasksOK, At, None
  <2>2. PICK u, m, d : u = task[t].u /\ m = task[t].mem /\ d = task[t].disk
    OBVIOUS
  <2>3. /\ u \in Uuid /\ m \in Memory /\ d \in Disk
        /\ rows' = ResizedRows(rows, u, m, d) /\ rows[u] # NoRow /\ released' = released
    BY <1>4, <2>1, <2>2, Zenon DEF Resizes, ResizeOk
  <2>4. /\ rows'[u].name = rows[u].name /\ rows'[u].owner = rows[u].owner
        /\ \A v \in Uuid \ {u} : rows'[v] = rows[v]
    BY <1>0, <2>3, ResizedOK, SMT
  <2>5. \A v \in Uuid : rows'[v] # NoRow => /\ rows[v] # NoRow /\ rows'[v].name = rows[v].name
                                            /\ rows'[v].owner = rows[v].owner
    BY <2>3, <2>4, Zenon
  <2> QED
    BY <2>3, <2>5, SMT DEF NamesOK, Live
<1>5. ASSUME NEW n \in Name, UNCHANGED rows, released' = [released EXCEPT ![n] = Nobody]
      PROVE  NamesOK'
  <2>1. \A m \in Name : released'[m] = Nobody \/ released'[m] = released[m]
    BY <1>0, <1>5, Zenon DEF Releases
  <2>2. \A v \in Live(rows) : rows[v].name \in Name
    BY <1>0, RowFields, Zenon DEF Live, Rows
  <2>3. \A v \in Live(rows) : released'[rows[v].name] \in {Nobody, rows[v].owner}
    BY <2>1, <2>2, Zenon DEF NamesOK
  <2> QED
    BY <1>5, <2>3, Zenon DEF NamesOK
<1> QED
  BY <1>1, <1>2, <1>3, <1>4, <1>5, Zenon DEF RowChange

\* Nor does an insertion: insert_instance looks at both tables.
LEMMA InsertNames ==
  ASSUME Types, NamesOK, NEW t \in Slot, NewInsert(t) \/ CopyInsert(t)
  PROVE  NamesOK'
<1>1. /\ UNCHANGED released /\ task[t].u \in Uuid /\ task[t].row \in Row /\ RowsOK
      /\ \/ UNCHANGED rows
         \/ /\ CreateOk(rows, released, task[t].row)
            /\ rows' = Inserted(rows, task[t].u, task[t].row)
  BY InsertIs, Zenon DEF Inserts, Types
<1>2. CASE UNCHANGED rows
  BY <1>1, <1>2, Zenon DEF NamesOK
<1>3. CASE CreateOk(rows, released, task[t].row) /\ rows' = Inserted(rows, task[t].u, task[t].row)
  <2>1. PICK u, r : u = task[t].u /\ r = task[t].row
    OBVIOUS
  <2>2. /\ u \in Uuid /\ r \in Row /\ rows' = Inserted(rows, u, r)
        /\ Named(rows, r.name) = {} /\ released[r.name] \in {Nobody, r.owner}
    BY <1>1, <1>3, <2>1, Zenon DEF CreateOk, ClaimOk
  <2>3. rows'[u] = r /\ \A v \in Uuid \ {u} : rows'[v] = rows[v]
    BY <1>1, <2>2, InsertedOK, Zenon
  <2>4. \A v \in Live(rows') : v = u \/ (v \in Live(rows) /\ rows'[v] = rows[v] /\ rows[v].name # r.name)
    BY <2>2, <2>3, Zenon DEF Live, Named
  <2>5. \A v, w \in Live(rows') : rows'[v].name = rows'[w].name => v = w
    BY <2>3, <2>4, Zenon DEF NamesOK
  <2>6. \A v \in Live(rows') : released'[rows'[v].name] \in {Nobody, rows'[v].owner}
    BY <1>1, <2>2, <2>3, <2>4, Zenon DEF NamesOK
  <2> QED
    BY <2>5, <2>6, Zenon DEF NamesOK
<1> QED
  BY <1>1, <1>2, <1>3, Zenon

\* The names of the first instances differ, and none is reserved.
LEMMA InitNames ==
  ASSUME Init
  PROVE  NamesOK
<1>1. PICK row \in [Existing -> Settled] :
        /\ \A u, v \in Existing : u # v => row[u].name # row[v].name
        /\ rows = [u \in Uuid |-> IF u \in Existing THEN row[u] ELSE NoRow]
  BY Zenon DEF Init
<1>2. \A u \in Live(rows) : u \in Existing /\ rows[u] = row[u] /\ rows[u] \in Row
  BY <1>1, LifecycleAssumption, Zenon DEF Live
<1>3. \A u \in Live(rows) : released[rows[u].name] = Nobody
  BY <1>2, RowFields, Zenon DEF Init
<1> QED
  BY <1>1, <1>2, <1>3, SMT DEF NamesOK

\* Every step keeps names with their owners.
LEMMA NextNames ==
  ASSUME Types, MintOK, NamesOK, Next
  PROVE  NamesOK'
<1>1. ASSUME NEW t \in Slot, NEW w \in TaskRec, AskedOf(t, w)
      PROVE  NamesOK'
  BY <1>1, Zenon DEF AskedOf, db, NamesOK
<1> QED
  BY <1>1, NextIs, InsertNames, StepChange, ChangeNames, Zenon

-----------------------------------------------------------------------------
(* Halted instances. *)

Resting(u) == rows[u] # NoRow => rows[u].desired = "stopped"

HaltOK ==
  /\ \A u \in halted : Resting(u)
  /\ \A t \in Slot : At(t, "stop", "stopping") /\ t \notin crossed => Resting(task[t].u)

WishKept ==
  \A u \in Uuid : rows'[u] # NoRow => rows[u] # NoRow /\ rows'[u].desired = rows[u].desired

\* A deletion writes no wish.
LEMMA DeleteWish ==
  ASSUME Types, NEW u \in Uuid, DeleteRow(u)
  PROVE  WishKept
<1>1. CASE rows[u] = NoRow
  BY <1>1, Zenon DEF DeleteRow, db, WishKept
<1>2. CASE rows[u] # NoRow
  <2>1. rows'[u] = NoRow /\ \A v \in Uuid \ {u} : rows'[v] = rows[v]
    BY <1>2, DeletedOK, Zenon DEF DeleteRow, Types
  <2> QED
    BY <2>1, Zenon DEF WishKept
<1> QED
  BY <1>1, <1>2, Zenon

\* Nor does a new name.
LEMMA RelabelWish ==
  ASSUME Types, NEW u \in Uuid, NEW n \in Name, Relabel(u, n)
  PROVE  WishKept
<1>1. CASE ~RenameOk(rows, released, u, n)
  BY <1>1, Zenon DEF Relabel, db, WishKept
<1>2. CASE RenameOk(rows, released, u, n)
  <2>1. rows[u] # NoRow
    BY <1>2, Zenon DEF RenameOk
  <2>2. rows'[u].desired = rows[u].desired /\ \A v \in Uuid \ {u} : rows'[v] = rows[v]
    <3>1. rows' = RenamedRows(rows, u, n) /\ RowsOK
      BY <1>2, Zenon DEF Relabel, Types
    <3> QED
      BY <2>1, <3>1, RenamedOK, SMT
  <2> QED
    BY <2>1, <2>2, Zenon DEF WishKept
<1> QED
  BY <1>1, <1>2, Zenon

\* Nor do new sizes.
LEMMA ResizeWish ==
  ASSUME Types, NEW t \in Slot, ResizeRow(t)
  PROVE  WishKept
<1>1. CASE ~ResizeOk(rows, task[t].u, task[t].mem, task[t].disk)
  BY <1>1, Zenon DEF ResizeRow, WishKept
<1>2. CASE ResizeOk(rows, task[t].u, task[t].mem, task[t].disk)
  <2>1. task[t].u \in Uuid /\ task[t].mem \in Memory /\ task[t].disk \in Disk
    BY TaskIs, Zenon DEF Types, TasksOK, At, None, ResizeRow
  <2>2. PICK u, m, d : u = task[t].u /\ m = task[t].mem /\ d = task[t].disk
    OBVIOUS
  <2>3. /\ u \in Uuid /\ m \in Memory /\ d \in Disk /\ RowsOK
        /\ rows' = ResizedRows(rows, u, m, d) /\ rows[u] # NoRow
    BY <1>2, <2>1, <2>2, Zenon DEF ResizeRow, ResizeOk, Types
  <2>4. rows'[u].desired = rows[u].desired /\ \A v \in Uuid \ {u} : rows'[v] = rows[v]
    BY <2>3, ResizedOK, SMT
  <2> QED
    BY <2>3, <2>4, Zenon DEF WishKept
<1> QED
  BY <1>1, <1>2, Zenon

\* Nor does a recorded state.
LEMMA RecordWish ==
  ASSUME Types, NEW u \in Uuid, NEW s \in {"running", "stopped", "starting"}, rows' = SetObserved(rows, u, s)
  PROVE  WishKept
<1>1. Kept(rows') /\ SameWish(rows')
  BY SetObservedOK, Zenon DEF Types
<1>2. NoRow \notin Row
  BY LifecycleAssumption, Zenon
<1> QED
  BY <1>1, <1>2, Zenon DEF WishKept, Kept, SameRow, SameWish

\* No wish changes, and no stop gets as far as its effect.
LEMMA WishHalt ==
  ASSUME Types, HaltOK, halted' \subseteq halted, WishKept,
         \A x \in Slot : \/ task'[x] = task[x] /\ (x \in crossed => x \in crossed')
                         \/ ~At(x, "stop", "stopping")'
  PROVE  HaltOK'
<1>1. \A u \in Uuid : Resting(u) => Resting(u)'
  BY Zenon DEF Resting, WishKept
<1>2. halted \subseteq Uuid
  BY Zenon DEF Types, HistoryOK
<1>3. \A u \in halted' : Resting(u)'
  BY <1>1, <1>2, Zenon DEF HaltOK
<1>4. ASSUME NEW x \in Slot, At(x, "stop", "stopping")', x \notin crossed'
      PROVE  Resting(task[x].u)'
  <2>1. task'[x] = task[x] /\ x \notin crossed
    BY <1>4, Zenon
  <2>2. At(x, "stop", "stopping")
    BY <1>4, <2>1, Zenon DEF At
  <2>3. task[x].u \in Uuid
    BY <2>2, TaskIs, Zenon DEF Types, TasksOK, At, None
  <2>4. Resting(task[x].u)
    BY <2>1, <2>2, Zenon DEF HaltOK
  <2> QED
    BY <1>1, <2>1, <2>3, <2>4, Zenon DEF Resting
<1> QED
  BY <1>3, <1>4, Zenon DEF HaltOK

\* The step of a request that neither wishes nor inserts.
PlainStep(t) ==
  \/ StartDomain(t) \/ RestartReboot(t) \/ RemoveDomain(t) \/ NewProvision(t) \/ CopyGrow(t)
  \/ RenameUndefine(t) \/ RenameElsewhere(t) \/ ResizeGrow(t) \/ ResizeRedefine(t)
  \/ RemoveFiles(t) \/ CopyFile(t) \/ CopySeed(t) \/ CopyUnwindFiles(t)
  \/ CopyCreate(t) \/ RenameDefine(t)
  \/ StartRecord(t) \/ StopRecord(t) \/ NewRecord(t) \/ CopyRecord(t)
  \/ RemoveRow(t) \/ UnwindRow(t) \/ RenameRow(t) \/ RenameRevert(t) \/ ResizeRow(t)

\* A step other than those of stop does not come to be stopping.
LEMMA PlainTasks ==
  ASSUME Types, NEW t \in Slot, PlainStep(t)
  PROVE  Others(t) /\ ~At(t, "stop", "stopping")'
<1>0. TasksOK /\ task[t] \in TaskRec
  BY Zenon DEF Types, TasksOK
<1>1. Idle.op = None /\ None # "stop"
  BY Zenon DEF Idle, None
<1>2. ASSUME task[t].op # None, End(t) \/ \E s \in Place \ {"stopping"} : Goto(t, s)
      PROVE  Others(t) /\ ~At(t, "stop", "stopping")'
  <2>1. CASE End(t)
    BY <1>0, <1>1, <2>1, AfterEnd, Zenon DEF Ends, At
  <2>2. CASE \E s \in Place \ {"stopping"} : Goto(t, s)
    BY <1>0, <1>2, <2>2, AfterGoto, Zenon DEF Moves, At
  <2> QED
    BY <1>2, <2>1, <2>2, Zenon
<1>3. CASE RenameRow(t)
  <2>1. task[t].op = "rename" /\ task[t].at # "insert" /\ task[t].op # None
    BY <1>3, Zenon DEF RenameRow, At, None
  <2> DEFINE done == task[t].gone \/ ~RenameOk(rows, released, task[t].u, task[t].name)
             s == IF task[t].row.host = Local THEN "undefine" ELSE "order"
             b == iso[task[t].u]
  <2>2. CASE done
    <3>1. End(t)
      BY <1>3, <2>2, Zenon DEF RenameRow, End
    <3> QED
      BY <1>2, <2>1, <3>1, Zenon
  <2>3. CASE ~done
    <3>1. task' = [task EXCEPT ![t] = [[task[t] EXCEPT !.iso = b] EXCEPT !.at = s]]
      BY <1>3, <2>3, SMT DEF RenameRow
    <3>2. b \in BOOLEAN
      BY <1>0, <2>1, TaskIs, Zenon DEF Types, HostsOK
    <3>3. s \in Place \ {"insert"}
      BY Zenon DEF Place
    <3> HIDE DEF s, b, done
    <3>4. Others(t) /\ task'[t].op = "rename"
      BY <1>0, <2>1, <3>1, <3>2, <3>3, RenamedTask, Zenon
    <3> QED
      BY <3>4, Zenon DEF At
  <2> QED
    BY <2>2, <2>3, Zenon
<1>4. CASE \/ StartDomain(t) \/ RestartReboot(t) \/ RemoveDomain(t) \/ NewProvision(t) \/ CopyGrow(t)
           \/ RenameUndefine(t) \/ RenameElsewhere(t) \/ ResizeGrow(t) \/ ResizeRedefine(t)
  <2>1. task[t].op # None /\ (End(t) \/ \E s \in Place \ {"stopping"} : Goto(t, s))
    BY <1>4, Zenon DEF StartDomain, RestartReboot, RemoveDomain, NewProvision, CopyGrow, RenameUndefine,
                       RenameElsewhere, ResizeGrow, ResizeRedefine, At, None, Place
  <2> QED
    BY <1>2, <2>1, Zenon
<1>5. CASE \/ RemoveFiles(t) \/ CopyFile(t) \/ CopySeed(t) \/ CopyUnwindFiles(t)
           \/ CopyCreate(t) \/ RenameDefine(t)
  <2>1. task[t].op # None /\ (End(t) \/ \E s \in Place \ {"stopping"} : Goto(t, s))
    BY <1>5, Zenon DEF RemoveFiles, CopyFile, CopySeed, CopyUnwindFiles, CopyCreate, RenameDefine, At, None, Place
  <2> QED
    BY <1>2, <2>1, Zenon
<1>6. CASE \/ StartRecord(t) \/ StopRecord(t) \/ NewRecord(t) \/ CopyRecord(t)
           \/ RemoveRow(t) \/ UnwindRow(t) \/ RenameRevert(t) \/ ResizeRow(t)
  <2>1. task[t].op # None /\ (End(t) \/ \E s \in Place \ {"stopping"} : Goto(t, s))
    BY <1>6, Zenon DEF StartRecord, StopRecord, NewRecord, CopyRecord, Record, RemoveRow, UnwindRow,
                       RenameRevert, ResizeRow, At, None, Place
  <2> QED
    BY <1>2, <2>1, Zenon
<1> QED
  BY <1>3, <1>4, <1>5, <1>6, Zenon DEF PlainStep

\* And it writes no wish.
LEMMA PlainWish ==
  ASSUME Types, NEW t \in Slot, PlainStep(t)
  PROVE  WishKept /\ halted' \subseteq halted /\ UNCHANGED crossed
<1>1. CASE \/ StartDomain(t) \/ RestartReboot(t) \/ RemoveDomain(t) \/ NewProvision(t) \/ CopyGrow(t)
           \/ RenameUndefine(t) \/ RenameElsewhere(t) \/ ResizeGrow(t) \/ ResizeRedefine(t)
           \/ RemoveFiles(t) \/ CopyFile(t) \/ CopySeed(t) \/ CopyUnwindFiles(t)
           \/ CopyCreate(t) \/ RenameDefine(t)
  <2>1. UNCHANGED <<rows, crossed>> /\ halted' \subseteq halted
    BY <1>1, Zenon DEF StartDomain, RestartReboot, RemoveDomain, NewProvision, CopyGrow, RenameUndefine,
                       RenameElsewhere, ResizeGrow, ResizeRedefine, RemoveFiles, CopyFile, CopySeed,
                       CopyUnwindFiles, CopyCreate, RenameDefine, Woken, db, history
  <2> QED
    BY <2>1, Zenon DEF WishKept
<1>2. CASE StartRecord(t) \/ StopRecord(t) \/ NewRecord(t) \/ CopyRecord(t)
  <2>1. PICK s \in {"running", "stopped"} : rows' = SetObserved(rows, task[t].u, s) /\ task[t].op # None
    BY <1>2, Zenon DEF StartRecord, StopRecord, NewRecord, CopyRecord, Record, At, None
  <2>2. task[t].u \in Uuid
    BY <2>1, TaskIs, Zenon DEF Types, TasksOK
  <2>3. UNCHANGED history
    BY <1>2, Zenon DEF StartRecord, StopRecord, NewRecord, CopyRecord, Record
  <2> QED
    BY <2>1, <2>2, <2>3, RecordWish, Zenon DEF history
<1>3. CASE RemoveRow(t) \/ UnwindRow(t) \/ RenameRow(t) \/ RenameRevert(t) \/ ResizeRow(t)
  <2>1. task[t].u \in Uuid /\ task[t].row.name \in Name
    <3>1. task[t].op # None
      BY <1>3, Zenon DEF RemoveRow, UnwindRow, RenameRow, RenameRevert, ResizeRow, At, None
    <3> QED
      BY <3>1, TaskIs, RowFields, Zenon DEF Types, TasksOK
  <2>2. RenameRow(t) => task[t].name \in Name
    BY TaskIs, Zenon DEF Types, TasksOK, RenameRow, At
  <2>3. WishKept
    BY <1>3, <2>1, <2>2, DeleteWish, RelabelWish, ResizeWish, Zenon DEF RemoveRow, UnwindRow, RenameRow, RenameRevert
  <2>4. UNCHANGED history
    BY <1>3, Zenon DEF RemoveRow, UnwindRow, RenameRow, RenameRevert, ResizeRow
  <2> QED
    BY <2>3, <2>4, Zenon DEF history
<1> QED
  BY <1>1, <1>2, <1>3, Zenon DEF PlainStep

\* It keeps halted instances resting.
LEMMA PlainHalt ==
  ASSUME Types, HaltOK, NEW t \in Slot, PlainStep(t)
  PROVE  HaltOK'
BY PlainTasks, PlainWish, WishHalt, Zenon DEF Others


\* start and restart write the wish again: the instance is no longer halted,
\* and a stop of it that is under way has been crossed.
LEMMA DesireHalt ==
  ASSUME Types, HaltOK, NEW t \in Slot, StartDesired(t) \/ RestartDesired(t)
  PROVE  HaltOK'
<1>0. TasksOK /\ task[t] \in TaskRec /\ RowsOK
  BY Zenon DEF Types, TasksOK
<1>1. PICK op \in {"start", "restart"}, next \in {"record", None} : Desire(t, op, next)
  BY Zenon DEF StartDesired, RestartDesired
<1>2. PICK u : u = task[t].u
  OBVIOUS
<1>3. task[t].op # None /\ halted' = halted \ {u}
  BY <1>1, <1>2, Zenon DEF Desire, At, None
<1>4. u \in Uuid
  BY <1>0, <1>2, <1>3, TaskIs, Zenon
<1>5. Others(t) /\ ~At(t, "stop", "stopping")'
  <2>1. Idle.op = None /\ None # "stop"
    BY Zenon DEF Idle, None
  <2>2. End(t) \/ Goto(t, "record")
    BY <1>1, Zenon DEF Desire
  <2>3. CASE End(t)
    BY <1>0, <2>1, <2>3, AfterEnd, Zenon DEF Ends, At
  <2>4. CASE Goto(t, "record")
    <3>1. "record" \in Place /\ "record" # "stopping"
      BY Zenon DEF Place
    <3> QED
      BY <1>0, <1>3, <2>4, <3>1, AfterGoto, Zenon DEF Moves, At
  <2> QED
    BY <2>2, <2>3, <2>4, Zenon
<1>6. CASE rows[u] = NoRow
  <2>1. UNCHANGED <<rows, crossed>>
    BY <1>1, <1>2, <1>6, Zenon DEF Desire
  <2> QED
    BY <1>3, <1>5, <2>1, WishHalt, Zenon DEF WishKept, Others
<1>7. CASE rows[u] # NoRow
  <2>1. rows' = SetDesired(rows, u, "running") /\ Crossing(u)
    BY <1>1, <1>2, <1>7, Zenon DEF Desire
  <2>2. \A v \in Uuid \ {u} : rows'[v] = rows[v]
    BY <1>0, <1>4, <1>7, <2>1, SetDesiredOK, Zenon
  <2>3. \A v \in Uuid \ {u} : Resting(v) => Resting(v)'
    BY <2>2, Zenon DEF Resting
  <2>4. \A v \in halted' : Resting(v)'
    <3>1. halted \subseteq Uuid
      BY Zenon DEF Types, HistoryOK
    <3> QED
      BY <1>3, <2>3, <3>1, Zenon DEF HaltOK
  <2>5. ASSUME NEW x \in Slot, At(x, "stop", "stopping")', x \notin crossed'
        PROVE  Resting(task[x].u)'
    <3>1. task'[x] = task[x]
      BY <1>5, <2>5, Zenon DEF Others
    <3>2. At(x, "stop", "stopping") /\ x \notin crossed /\ task[x].u # u
      BY <2>1, <2>5, <3>1, Zenon DEF At, Crossing
    <3>3. task[x].u \in Uuid /\ Resting(task[x].u)
      BY <3>2, TaskIs, Zenon DEF Types, TasksOK, At, None, HaltOK
    <3> QED
      BY <2>3, <3>1, <3>2, <3>3, Zenon DEF Resting
  <2> QED
    BY <2>4, <2>5, Zenon DEF HaltOK
<1> QED
  BY <1>6, <1>7, Zenon

\* stop writes the wish before it touches the guest.
LEMMA StopDesiredHalt ==
  ASSUME Types, HaltOK, NEW t \in Slot, StopDesired(t)
  PROVE  HaltOK'
<1>0. TasksOK /\ task[t] \in TaskRec /\ RowsOK
  BY Zenon DEF Types, TasksOK
<1>1. task[t].op # None /\ UNCHANGED <<halted, crossed>>
  BY Zenon DEF StopDesired, At, None, history
<1>2. task[t].u \in Uuid
  BY <1>0, <1>1, TaskIs, Zenon
<1>3. CASE rows[task[t].u] = NoRow
  <2>1. UNCHANGED rows /\ End(t)
    BY <1>3, Zenon DEF StopDesired
  <2>2. Idle.op = None /\ None # "stop"
    BY Zenon DEF Idle, None
  <2>3. Others(t) /\ ~At(t, "stop", "stopping")'
    BY <1>0, <2>1, <2>2, AfterEnd, Zenon DEF Ends, At
  <2> QED
    BY <1>1, <2>1, <2>3, WishHalt, Zenon DEF WishKept, Others
<1>4. CASE rows[task[t].u] # NoRow
  <2>1. rows' = SetDesired(rows, task[t].u, "stopped") /\ Goto(t, "stopping")
    BY <1>4, Zenon DEF StopDesired
  <2>2. /\ rows'[task[t].u].desired = "stopped"
        /\ \A v \in Uuid \ {task[t].u} : rows'[v] = rows[v]
    BY <1>0, <1>2, <1>4, <2>1, SetDesiredOK, Zenon
  <2>3. \A v \in Uuid : Resting(v) \/ v = task[t].u => Resting(v)'
    BY <2>2, Zenon DEF Resting
  <2>4. Others(t) /\ task'[t].u = task[t].u
    <3>1. "stopping" \in Place
      BY Zenon DEF Place
    <3> QED
      BY <1>0, <1>1, <2>1, <3>1, AfterGoto, Zenon DEF Moves, SameTask
  <2>5. halted \subseteq Uuid
    BY Zenon DEF Types, HistoryOK
  <2>6. \A v \in halted' : Resting(v)'
    BY <1>1, <2>3, <2>5, Zenon DEF HaltOK
  <2>7. ASSUME NEW x \in Slot, At(x, "stop", "stopping")', x \notin crossed'
        PROVE  Resting(task[x].u)'
    <3>1. CASE x = t
      BY <1>2, <2>3, <2>4, <3>1, Zenon DEF Resting
    <3>2. CASE x # t
      <4>1. task'[x] = task[x]
        BY <2>4, <3>2, Zenon DEF Others
      <4>2. At(x, "stop", "stopping") /\ x \notin crossed
        BY <1>1, <2>7, <4>1, Zenon DEF At
      <4>3. task[x].u \in Uuid /\ Resting(task[x].u)
        BY <4>2, TaskIs, Zenon DEF Types, TasksOK, At, None, HaltOK
      <4> QED
        BY <2>3, <4>1, <4>3, Zenon DEF Resting
    <3> QED
      BY <3>1, <3>2, Zenon
  <2> QED
    BY <2>6, <2>7, Zenon DEF HaltOK
<1> QED
  BY <1>3, <1>4, Zenon

\* So the guest it halts has a row that wishes it stopped.
LEMMA StopDomainHalt ==
  ASSUME Types, HaltOK, NEW t \in Slot, StopDomain(t)
  PROVE  HaltOK'
<1>0. TasksOK /\ task[t] \in TaskRec
  BY Zenon DEF Types, TasksOK
<1>1. /\ task[t].op # None /\ At(t, "stop", "stopping") /\ UNCHANGED <<rows, crossed>>
      /\ halted' = halted \/ (t \notin crossed /\ halted' \subseteq halted \cup {task[t].u})
      /\ End(t) \/ Goto(t, "record")
  BY Zenon DEF StopDomain, At, None, db
<1>2. Others(t) /\ ~At(t, "stop", "stopping")'
  <2>1. Idle.op = None /\ None # "stop" /\ "record" \in Place /\ "record" # "stopping"
    BY Zenon DEF Idle, None, Place
  <2>2. CASE End(t)
    BY <1>0, <2>1, <2>2, AfterEnd, Zenon DEF Ends, At
  <2>3. CASE Goto(t, "record")
    BY <1>0, <1>1, <2>1, <2>3, AfterGoto, Zenon DEF Moves, At
  <2> QED
    BY <1>1, <2>2, <2>3, Zenon
<1>3. \A v : Resting(v)' <=> Resting(v)
  BY <1>1, Zenon DEF Resting
<1>4. \A v \in halted' : Resting(v)'
  BY <1>1, <1>3, Zenon DEF HaltOK
<1>5. ASSUME NEW x \in Slot, At(x, "stop", "stopping")', x \notin crossed'
      PROVE  Resting(task[x].u)'
  <2>1. task'[x] = task[x]
    BY <1>2, <1>5, Zenon DEF Others
  <2>2. At(x, "stop", "stopping") /\ x \notin crossed
    BY <1>1, <1>5, <2>1, Zenon DEF At
  <2>3. Resting(task[x].u)
    BY <2>2, Zenon DEF HaltOK
  <2> QED
    BY <1>1, <2>1, <2>3, Zenon DEF Resting
<1> QED
  BY <1>4, <1>5, Zenon DEF HaltOK

\* A row appears only under a UUID that nobody stopped or is stopping.
LEMMA InsertHalt ==
  ASSUME Types, MintOK, HaltOK, NEW t \in Slot, NewInsert(t) \/ CopyInsert(t)
  PROVE  HaltOK'
<1>1. /\ UNCHANGED <<halted, crossed>> /\ Inserting(t) /\ task[t].u \in Uuid /\ task[t].row \in Row /\ RowsOK
      /\ \/ Ends(t) /\ UNCHANGED rows
         \/ task[t].op \in {"new", "copy"} /\ \E s \in {"build", "file"} : Inserts(t, s)
  BY InsertIs, Zenon DEF Types, history
<1>2. CASE Ends(t) /\ UNCHANGED rows
  <2>1. ~At(t, "stop", "stopping")'
    BY <1>2, IdleIs, Zenon DEF Ends, At
  <2> QED
    BY <1>1, <1>2, <2>1, WishHalt, Zenon DEF WishKept, Ends, Others
<1>3. CASE task[t].op \in {"new", "copy"} /\ \E s \in {"build", "file"} : Inserts(t, s)
  <2>1. PICK u : u = task[t].u
    OBVIOUS
  <2>2. \A v \in Uuid \ {u} : rows'[v] = rows[v]
    <3>1. rows' = Inserted(rows, u, task[t].row)
      BY <1>3, <2>1, Zenon DEF Inserts
    <3> QED
      BY <1>1, <2>1, <3>1, InsertedOK, SMT
  <2>3. \A v \in Uuid \ {u} : Resting(v) => Resting(v)'
    BY <2>2, Zenon DEF Resting
  <2>4. ~Known(u)
    BY <1>1, <2>1, Zenon DEF MintOK
  <2>5. \A v \in halted' : Resting(v)'
    <3>1. halted \subseteq Uuid /\ u \notin halted
      BY <2>4, Zenon DEF Types, HistoryOK, Known
    <3> QED
      BY <1>1, <2>3, <3>1, Zenon DEF HaltOK
  <2>6. ASSUME NEW x \in Slot, At(x, "stop", "stopping")', x \notin crossed'
        PROVE  Resting(task[x].u)'
    <3>1. x # t
      BY <1>3, <2>6, Zenon DEF At, Inserts, Moves, SameTask
    <3>2. task'[x] = task[x]
      BY <1>3, <3>1, Zenon DEF Inserts, Moves, Others
    <3>3. At(x, "stop", "stopping") /\ x \notin crossed
      BY <1>1, <2>6, <3>2, Zenon DEF At
    <3>4. task[x].u \in Uuid /\ Resting(task[x].u) /\ task[x].op # None /\ task[x].at # "insert"
      BY <3>3, TaskIs, Zenon DEF Types, TasksOK, At, None, HaltOK
    <3>5. task[x].u # u
      BY <2>4, <3>4, HolderKnown, Zenon
    <3> QED
      BY <2>3, <3>2, <3>4, <3>5, Zenon DEF Resting
  <2> QED
    BY <2>5, <2>6, Zenon DEF HaltOK
<1> QED
  BY <1>1, <1>2, <1>3, Zenon

\* A request that begins changes no row.
LEMMA AskHalt ==
  ASSUME Types, MintOK, HaltOK, NEW t \in Slot, NEW w \in TaskRec, AskedOf(t, w)
  PROVE  HaltOK'
<1>1. Others(t) /\ task'[t] = w
  BY RequestOK, Zenon
<1>2. UNCHANGED <<rows, halted>> /\ (crossed' = crossed \/ crossed' = crossed \ {t})
  BY Zenon DEF AskedOf, db
<1>3. ~(w.op = "stop" /\ w.at = "stopping")
  BY Zenon DEF AskedOf
<1>4. ~At(t, "stop", "stopping")'
  BY <1>1, <1>3, Zenon DEF At
<1> QED
  BY <1>1, <1>2, <1>4, WishHalt, Zenon DEF WishKept, Others

\* Polls, restores, crashes and late orders write no wish.
LEMMA QuietHalt ==
  ASSUME Types, HaltOK, RowChange, Quietly
  PROVE  HaltOK'
<1>1. \A x \in Slot : task'[x] = task[x] \/ ~At(x, "stop", "stopping")'
  BY IdleIs, Zenon DEF Quietly, At
<1>2. WishKept
  BY RowChangeOK, Zenon DEF Quietly, SameWish, WishKept
<1> QED
  BY <1>1, <1>2, WishHalt, Zenon DEF Quietly

\* Every step keeps halted instances resting.
LEMMA NextHalt ==
  ASSUME Types, MintOK, HaltOK, Next
  PROVE  HaltOK'
<1>1. ASSUME NEW t \in Slot, Step(t), ~NewInsert(t), ~CopyInsert(t)
      PROVE  HaltOK'
  BY <1>1, PlainHalt, DesireHalt, StopDesiredHalt, StopDomainHalt, Zenon DEF Step, PlainStep
<1> QED
  BY <1>1, NextIs, AskHalt, InsertHalt, QuietHalt, Zenon

\* An instance its user halted is not one a restore would start, whatever
\* crashes, unless a start crossed the stop: Manager::stop writes the wish
\* before it touches the guest, and the wish stays until start or restart.
THEOREM HaltsPersist == Spec => []HaltIsPersistent
<1>1. Init => HaltOK
  <2>1. Init => halted = {} /\ \A t \in Slot : task[t] = Idle
    BY Zenon DEF Init
  <2> QED
    BY <2>1, IdleIs, Zenon DEF HaltOK, At
<1>2. Types /\ MintOK /\ HaltOK /\ [Next]_vars => HaltOK'
  <2>1. UNCHANGED vars /\ HaltOK => HaltOK'
    BY Zenon DEF vars, HaltOK, Resting, At
  <2> QED
    BY <2>1, NextHalt, Zenon
<1>3. HaltOK => HaltIsPersistent
  BY Zenon DEF HaltOK, HaltIsPersistent, Resting
<1> QED
  BY <1>1, <1>2, <1>3, LifecycleTypes, PTL DEF Spec

INSTANCE FiniteSetTheorems
INSTANCE WellFoundedInduction

\* However removals, renames, their unwinding, creates and the ends of
\* cooldowns overlap, one name never serves two instances, and a name in
\* cooldown only ever the user who released it: claim_name_tx is inside the
\* transaction that writes.
THEOREM NamesAreOwned == Spec => []NameNeverStolen
<1>1. Init => NamesOK
  BY InitNames, Zenon
<1>2. Types /\ MintOK /\ NamesOK /\ [Next]_vars => NamesOK'
  <2>1. UNCHANGED vars /\ NamesOK => NamesOK'
    BY Zenon DEF vars, NamesOK
  <2> QED
    BY <2>1, NextNames, Zenon
<1>3. NamesOK => NameNeverStolen
  <2> SUFFICES ASSUME NamesOK, NEW n \in Name
               PROVE  /\ Cardinality(Named(rows, n)) <= 1
                      /\ \A u \in Named(rows, n) : released[n] \in {Nobody, rows[u].owner}
    BY Zenon DEF NameNeverStolen
  <2>1. \A u \in Named(rows, n) : released[n] \in {Nobody, rows[u].owner}
    BY Zenon DEF NamesOK, Named
  <2>2. Named(rows, n) = {} \/ \E u : Named(rows, n) = {u}
    BY SMTT(30) DEF NamesOK, Named
  <2>3. Cardinality(Named(rows, n)) <= 1
    <3>1. Cardinality(Named(rows, n)) = 0 \/ Cardinality(Named(rows, n)) = 1
      BY <2>2, FS_EmptySet, FS_Singleton, Zenon
    <3> QED
      BY <3>1, SMT
  <2> QED
    BY <2>1, <2>3, SMT
<1> QED
  BY <1>1, <1>2, <1>3, LifecycleTypes, PTL DEF Spec

-----------------------------------------------------------------------------
(* Sums. *)

Pick(s) == CHOOSE x \in s : TRUE
Recurs(f, g) == g = [s \in SUBSET DOMAIN f |-> IF s = {} THEN 0 ELSE f[Pick(s)] + g[s \ {Pick(s)}]]
Iter(f) == CHOOSE g : Recurs(f, g)

\* What the sum of a function is by definition.
LEMMA Unfold == ASSUME NEW f PROVE SumFunction(f) = Iter(f)[DOMAIN f]
  BY Zenon DEF SumFunction, SumFunctionOnSet, FoldFunctionOnSet, MapThenFoldSet, Iter, Recurs, Pick

\* A set of subsets of a finite set has a minimal one: this is induction.
LEMMA MinimalSet ==
  ASSUME NEW S, IsFiniteSet(S), NEW B, B \subseteq SUBSET S, B # {}
  PROVE  \E T \in B : \A U \in B : U \subseteq T => U = T
<1>1. IsWellFoundedOn(StrictSubsetOrdering(S), FiniteSubsetsOf(S))
  BY FS_StrictSubsetOrderingWellFounded, Zenon
<1>2. FiniteSubsetsOf(S) = SUBSET S
  BY FS_FiniteSubsetsOfFinite, Zenon
<1>3. PICK T \in B : \A U \in B : ~(<<U, T>> \in StrictSubsetOrdering(S))
  BY <1>1, <1>2, WFMin, Zenon
<1>4. ASSUME NEW U \in B, U \subseteq T, U # T PROVE FALSE
  <2>1. <<U, T>> \in StrictSubsetOrdering(S)
    BY <1>4, Zenon DEF StrictSubsetOrdering
  <2> QED
    BY <2>1, <1>3, Zenon
<1> QED
  BY <1>4, Zenon

\* The element that is picked is in the set.
LEMMA PickOK == ASSUME NEW s, s # {} PROVE Pick(s) \in s
  BY Zenon DEF Pick

\* The recursion at one set.
LEMMA RecursAt ==
  ASSUME NEW f, NEW g, Recurs(f, g), NEW s, s \subseteq DOMAIN f
  PROVE  /\ s = {} => g[s] = 0
         /\ s # {} => g[s] = f[Pick(s)] + g[s \ {Pick(s)}]
<1>1. g = [z \in SUBSET DOMAIN f |-> IF z = {} THEN 0 ELSE f[Pick(z)] + g[z \ {Pick(z)}]]
  BY Zenon DEF Recurs
<1>2. s \in SUBSET DOMAIN f
  BY Zenon
<1> HIDE DEF Pick
<1> QED
  BY <1>1, <1>2, Zenon

\* Two functions that agree on a finite set have the same sum over it.
LEMMA Agree ==
  ASSUME NEW f, NEW g, Recurs(f, g), NEW e, NEW h, Recurs(e, h),
         NEW S, IsFiniteSet(S), S \subseteq DOMAIN f, S \subseteq DOMAIN e,
         \A x \in S : f[x] = e[x]
  PROVE  g[S] = h[S]
<1> DEFINE B == {T \in SUBSET S : g[T] # h[T]}
<1>1. SUFFICES ASSUME B # {} PROVE FALSE
  BY Zenon
<1>2. B \subseteq SUBSET S
  BY Zenon
<1>3. PICK T \in B : \A U \in B : U \subseteq T => U = T
  <2> HIDE DEF B
  <2> QED
    BY <1>1, <1>2, MinimalSet, SMTT(30)
<1>4. T \subseteq S /\ g[T] # h[T]
  BY <1>3, Zenon
<1>5. T \subseteq DOMAIN f /\ T \subseteq DOMAIN e
  BY <1>4, Zenon
<1>6. CASE T = {}
  BY <1>4, <1>5, <1>6, RecursAt, SMTT(30)
<1>7. CASE T # {}
  <2> DEFINE x == Pick(T)
  <2>1. x \in T
    BY <1>7, PickOK, Zenon
  <2>2. g[T] = f[x] + g[T \ {x}]
    BY <1>5, <1>7, RecursAt, SMTT(30)
  <2>3. h[T] = e[x] + h[T \ {x}]
    BY <1>5, <1>7, RecursAt, SMTT(30)
  <2> HIDE DEF x
  <2>4. T \ {x} \notin B
    BY <1>3, <2>1, Zenon
  <2>5. T \ {x} \in SUBSET S
    BY <1>4, Zenon
  <2>6. g[T \ {x}] = h[T \ {x}]
    BY <2>4, <2>5, Zenon
  <2>7. f[x] = e[x]
    BY <1>4, <2>1, Zenon
  <2> QED
    BY <2>2, <2>3, <2>6, <2>7, <1>4, Zenon
<1> QED
  BY <1>6, <1>7, Zenon

Restr(f, s) == [x \in s |-> f[x]]

\* On a finite domain the recursion has a solution.
LEMMA Solvable ==
  ASSUME NEW f, IsFiniteSet(DOMAIN f)
  PROVE  \A s \in SUBSET DOMAIN f : Recurs(Restr(f, s), Iter(Restr(f, s)))
<1> DEFINE OK(s) == \E g : Recurs(Restr(f, s), g)
<1> DEFINE B == {s \in SUBSET DOMAIN f : ~OK(s)}
<1>1. ASSUME NEW s, OK(s) PROVE Recurs(Restr(f, s), Iter(Restr(f, s)))
  BY <1>1, Zenon DEF Iter
<1>2. ASSUME B # {} PROVE FALSE
  <2>1. B \subseteq SUBSET DOMAIN f
    BY Zenon
  <2>2. PICK T \in B : \A U \in B : U \subseteq T => U = T
    <3> HIDE DEF B
    <3> QED
      BY <1>2, <2>1, MinimalSet, SMTT(30)
  <2>3. T \subseteq DOMAIN f /\ ~OK(T)
    BY <2>2, Zenon
  <2>4. ASSUME NEW U, U \subseteq T, U # T PROVE Recurs(Restr(f, U), Iter(Restr(f, U))) /\ IsFiniteSet(U)
    <3>1. U \in SUBSET DOMAIN f
      BY <2>3, <2>4, Zenon
    <3>2. U \notin B
      BY <2>2, <2>4, Zenon
    <3>3. OK(U)
      BY <3>1, <3>2, Zenon
    <3> HIDE DEF OK
    <3> QED
      BY <1>1, <3>3, <3>1, FS_Subset, Zenon
  <2> DEFINE I(U) == Iter(Restr(f, U))[U]
  <2> DEFINE h == [s \in SUBSET T |-> IF s = {} THEN 0 ELSE f[Pick(s)] + I(s \ {Pick(s)})]
  <2>5. ASSUME NEW V, V \subseteq T, V # T PROVE h[V] = I(V)
    <3>0. V \in SUBSET T /\ DOMAIN Restr(f, V) = V
      BY <2>5, Zenon DEF Restr
    <3>1. Recurs(Restr(f, V), Iter(Restr(f, V)))
      BY <2>4, <2>5, Zenon
    <3>2. CASE V = {}
      BY <3>0, <3>1, <3>2, RecursAt, Zenon
    <3>3. CASE V # {}
      <4> DEFINE y == Pick(V)  W == V \ {y}
      <4>1. y \in V
        BY <3>3, PickOK, Zenon
      <4>2. h[V] = f[y] + I(W)
        BY <3>0, <3>3, Zenon
      <4>3. Iter(Restr(f, V))[V] = Restr(f, V)[y] + Iter(Restr(f, V))[W]
        BY <3>0, <3>1, <3>3, RecursAt, SMTT(30)
      <4>4. Restr(f, V)[y] = f[y]
        BY <4>1, Zenon DEF Restr
      <4>5. W \subseteq T /\ W # T /\ W \subseteq V /\ DOMAIN Restr(f, W) = W
        BY <2>5, <4>1, Zenon DEF Restr
      <4>6. Recurs(Restr(f, W), Iter(Restr(f, W))) /\ IsFiniteSet(W)
        BY <4>5, <2>4, Zenon
      <4>7. \A x \in W : Restr(f, V)[x] = Restr(f, W)[x]
        BY <4>5, Zenon DEF Restr
      <4> HIDE DEF W
      <4>8. Iter(Restr(f, V))[W] = Iter(Restr(f, W))[W]
        BY <3>0, <3>1, <4>5, <4>6, <4>7, Agree, SMTT(30)
      <4> QED
        BY <4>2, <4>3, <4>4, <4>8, Zenon
    <3> QED
      BY <3>2, <3>3, Zenon
  <2>6. \A s \in SUBSET T : s # {} => I(s \ {Pick(s)}) = h[s \ {Pick(s)}]
    <3> SUFFICES ASSUME NEW s \in SUBSET T, s # {} PROVE I(s \ {Pick(s)}) = h[s \ {Pick(s)}]
      BY Zenon
    <3>1. s \ {Pick(s)} \subseteq T /\ s \ {Pick(s)} # T
      BY PickOK, Zenon
    <3> HIDE DEF h, I
    <3> QED
      BY <3>1, <2>5, Zenon
  <2>7. \A s \in SUBSET T : s # {} => Restr(f, T)[Pick(s)] = f[Pick(s)]
    BY PickOK, Zenon DEF Restr
  <2>8. h = [s \in SUBSET T |-> IF s = {} THEN 0 ELSE Restr(f, T)[Pick(s)] + h[s \ {Pick(s)}]]
    <3>1. ASSUME NEW s \in SUBSET T
          PROVE  (IF s = {} THEN 0 ELSE f[Pick(s)] + I(s \ {Pick(s)}))
                   = (IF s = {} THEN 0 ELSE Restr(f, T)[Pick(s)] + h[s \ {Pick(s)}])
      <4> HIDE DEF h, I
      <4> QED
        BY <2>6, <2>7, Zenon
    <3>2. h = [s \in SUBSET T |-> IF s = {} THEN 0 ELSE f[Pick(s)] + I(s \ {Pick(s)})]
      BY Zenon
    <3> HIDE DEF h, I
    <3> QED
      BY <3>1, <3>2, Zenon
  <2>9. DOMAIN Restr(f, T) = T
    BY Zenon DEF Restr
  <2>10. Recurs(Restr(f, T), h)
    <3> HIDE DEF h
    <3> QED
      BY <2>8, <2>9, Zenon DEF Recurs
  <2> QED
    BY <2>3, <2>10, Zenon
<1> HIDE DEF OK
<1> QED
  BY <1>1, <1>2, Zenon

\* The sum is that solution at the whole domain.
LEMMA IterOK ==
  ASSUME NEW D, IsFiniteSet(D), NEW f \in [D -> Int]
  PROVE  Recurs(f, Iter(f)) /\ SumFunction(f) = Iter(f)[D]
<1>1. f = Restr(f, D) /\ DOMAIN f = D /\ D \in SUBSET D
  BY Zenon DEF Restr
<1>2. Recurs(Restr(f, D), Iter(Restr(f, D)))
  BY <1>1, Solvable, Zenon
<1> QED
  BY <1>1, <1>2, Unfold, Zenon

\* Partial sums of integers are integers.
LEMMA IterInt ==
  ASSUME NEW D, IsFiniteSet(D), NEW f \in [D -> Int], NEW S, S \subseteq D
  PROVE  Iter(f)[S] \in Int
<1> DEFINE g == Iter(f)  B == {T \in SUBSET D : g[T] \notin Int}
<1>0. Recurs(f, g)
  BY IterOK, Zenon
<1> HIDE DEF g
<1>1. ASSUME B # {} PROVE FALSE
  <2>1. B \subseteq SUBSET D
    BY Zenon
  <2>2. PICK T \in B : \A U \in B : U \subseteq T => U = T
    <3> HIDE DEF B
    <3> QED
      BY <1>1, <2>1, MinimalSet, SMTT(30)
  <2>3. T \subseteq D /\ T \subseteq DOMAIN f /\ g[T] \notin Int
    BY <2>2, Zenon
  <2>4. ASSUME T = {} PROVE FALSE
    <3>1. g[T] = 0
      BY <1>0, <2>3, <2>4, RecursAt, Zenon
    <3> QED
      BY <2>3, <3>1, SMTT(30)
  <2> DEFINE x == Pick(T)
  <2>5. x \in T
    BY <2>4, PickOK, Zenon
  <2>6. g[T] = f[x] + g[T \ {x}]
    BY <1>0, <2>3, <2>4, RecursAt, SMTT(30)
  <2> HIDE DEF x
  <2>7. T \ {x} \notin B /\ T \ {x} \in SUBSET D /\ f[x] \in Int
    BY <2>2, <2>3, <2>5, Zenon
  <2>8. g[T \ {x}] \in Int
    BY <2>7, Zenon
  <2> QED
    BY <2>3, <2>6, <2>7, <2>8, SMTT(30)
<1> QED
  BY <1>1, Zenon DEF g

\* Any element may be split off, not only the one that is picked.
LEMMA IterSplit ==
  ASSUME NEW D, IsFiniteSet(D), NEW f \in [D -> Int], NEW S, S \subseteq D, NEW x \in S
  PROVE  Iter(f)[S] = f[x] + Iter(f)[S \ {x}]
<1> DEFINE g == Iter(f)  B == {T \in SUBSET D : \E z \in T : g[T] # f[z] + g[T \ {z}]}
<1>0. Recurs(f, g) /\ \A T : T \subseteq D => g[T] \in Int
  BY IterOK, IterInt, Zenon
<1> HIDE DEF g
<1>1. ASSUME B # {} PROVE FALSE
  <2>1. B \subseteq SUBSET D
    BY Zenon
  <2>2. PICK T \in B : \A U \in B : U \subseteq T => U = T
    <3> HIDE DEF B
    <3> QED
      BY <1>1, <2>1, MinimalSet, SMTT(30)
  <2>3. PICK z \in T : g[T] # f[z] + g[T \ {z}]
    BY <2>2, Zenon
  <2>4. T \subseteq D /\ T \subseteq DOMAIN f /\ T # {}
    BY <2>2, <2>3, Zenon
  <2> DEFINE y == Pick(T)
  <2>5. y \in T
    BY <2>4, PickOK, Zenon
  <2>6. g[T] = f[y] + g[T \ {y}]
    BY <1>0, <2>4, RecursAt, SMTT(30)
  <2> HIDE DEF y
  <2>7. y # z
    BY <2>3, <2>6, Zenon
  <2>8. T \ {y} \notin B /\ T \ {z} \notin B /\ T \ {y} \in SUBSET D /\ T \ {z} \in SUBSET D
    BY <2>2, <2>3, <2>4, <2>5, Zenon
  <2>9. z \in T \ {y} /\ y \in T \ {z}
    BY <2>3, <2>5, <2>7, Zenon
  <2>10. g[T \ {y}] = f[z] + g[(T \ {y}) \ {z}] /\ g[T \ {z}] = f[y] + g[(T \ {z}) \ {y}]
    BY <2>8, <2>9, Zenon
  <2>11. (T \ {y}) \ {z} = (T \ {z}) \ {y} /\ (T \ {z}) \ {y} \subseteq D
    BY <2>4, Zenon
  <2>12. f[y] \in Int /\ f[z] \in Int /\ g[(T \ {z}) \ {y}] \in Int
    BY <1>0, <2>3, <2>4, <2>5, <2>11, Zenon
  <2>13. \A a, b, c \in Int : a + (b + c) = b + (a + c)
    BY SMTT(30)
  <2>14. f[y] + (f[z] + g[(T \ {z}) \ {y}]) = f[z] + (f[y] + g[(T \ {z}) \ {y}])
    BY <2>12, <2>13, Zenon
  <2> QED
    BY <2>3, <2>6, <2>10, <2>11, <2>14, Zenon
<1>2. S \in SUBSET D /\ S \notin B
  BY <1>1, Zenon
<1>3. g[S] = f[x] + g[S \ {x}]
  BY <1>2, Zenon
<1> QED
  BY <1>3, Zenon DEF g

\* A sum of integers is one.
LEMMA SumInt ==
  ASSUME NEW D, IsFiniteSet(D), NEW f \in [D -> Int]
  PROVE  SumFunction(f) \in Int
  BY IterOK, IterInt, SMTT(30)

\* One more summand: committed sizes change by one instance at a time.
LEMMA SumAdd ==
  ASSUME NEW D, IsFiniteSet(D), NEW x, x \notin D, NEW f \in [D -> Int], NEW e \in [D \cup {x} -> Int],
         \A y \in D : e[y] = f[y]
  PROVE  SumFunction(e) = e[x] + SumFunction(f)
<1> DEFINE E == D \cup {x}
<1>1. IsFiniteSet(E) /\ E \ {x} = D /\ x \in E
  BY FS_AddElement, Zenon
<1> HIDE DEF E
<1>2. e \in [E -> Int] /\ D \subseteq E
  BY Zenon DEF E
<1>3. SumFunction(e) = Iter(e)[E] /\ Recurs(e, Iter(e)) /\ SumFunction(f) = Iter(f)[D] /\ Recurs(f, Iter(f))
  BY <1>1, <1>2, IterOK, Zenon
<1>4. Iter(e)[E] = e[x] + Iter(e)[D]
  BY <1>1, <1>2, IterSplit, SMTT(30)
<1>5. Iter(e)[D] = Iter(f)[D]
  BY <1>2, <1>3, Agree, SMTT(30)
<1> QED
  BY <1>3, <1>4, <1>5, Zenon

-----------------------------------------------------------------------------
(* Capacity. *)

OnHost(f, h) == {u \in Live(f) : f[u].host = h}
MemOf(f, S) == [u \in S |-> f[u].mem]
DiskOf(f, S) == [u \in S |-> f[u].disk]

\* The sums of a machine without one of the UUIDs.
Fits(f, S, m, d) ==
  /\ SumFunction(MemOf(f, S)) + m <= MemCeiling
  /\ SumFunction(DiskOf(f, S)) + d <= DiskCeiling

\* Capacity in terms of the two sums of a machine.
LEMMA CapacityIs ==
  ASSUME NEW f, NEW h, NEW e, NEW m, NEW d
  PROVE  CapacityOk(f, h, e, m, d) <=> Fits(f, OnHost(f, h) \ e, m, d)
<1>1. {u \in Live(f) \ e : f[u].host = h} = OnHost(f, h) \ e
  BY Zenon DEF OnHost
<1> QED
  BY <1>1, Zenon DEF CapacityOk, Fits, MemOf, DiskOf

\* The sums of a machine are sums of integers over a finite set.
LEMMA HostSums ==
  ASSUME NEW f \in Rows, NEW h, NEW e
  PROVE  LET S == OnHost(f, h) \ e
         IN /\ IsFiniteSet(S) /\ S \subseteq Uuid
            /\ MemOf(f, S) \in [S -> Int] /\ DiskOf(f, S) \in [S -> Int]
            /\ SumFunction(MemOf(f, S)) \in Int /\ SumFunction(DiskOf(f, S)) \in Int
<1> DEFINE S == OnHost(f, h) \ e
<1>1. S \subseteq Uuid
  BY Zenon DEF OnHost, Live
<1>2. IsFiniteSet(S)
  BY <1>1, LifecycleAssumption, FS_Subset, Zenon
<1>3. \A u \in S : f[u] \in Row
  BY Zenon DEF OnHost, Live, Rows
<1>4. \A u \in S : f[u].mem \in Nat /\ f[u].disk \in Nat
  BY <1>3, RowFields, LifecycleAssumption, Zenon
<1> HIDE DEF S
<1>5. MemOf(f, S) \in [S -> Int] /\ DiskOf(f, S) \in [S -> Int]
  BY <1>4, SMT DEF MemOf, DiskOf
<1>6. SumFunction(MemOf(f, S)) \in Int /\ SumFunction(DiskOf(f, S)) \in Int
  BY <1>2, <1>5, SumInt, Zenon
<1> QED
  BY <1>1, <1>2, <1>5, <1>6, Zenon DEF S

\* With one more instance, the sums grow by its sizes.
LEMMA MoreFits ==
  ASSUME NEW f \in Rows, NEW g \in Rows, NEW h, NEW u \in OnHost(g, h),
         OnHost(f, h) \ {u} = OnHost(g, h) \ {u},
         \A v \in OnHost(g, h) \ {u} : f[v].mem = g[v].mem /\ f[v].disk = g[v].disk
  PROVE  Fits(f, OnHost(f, h) \ {u}, g[u].mem, g[u].disk) <=> Fits(g, OnHost(g, h), 0, 0)
<1> DEFINE S == OnHost(g, h) \ {u}
           E == S \cup {u}
<1>0. OnHost(f, h) \ {u} = S /\ OnHost(g, h) = E /\ u \notin S
  BY Zenon
<1>1. /\ IsFiniteSet(S) /\ MemOf(f, S) \in [S -> Int] /\ DiskOf(f, S) \in [S -> Int]
      /\ SumFunction(MemOf(f, S)) \in Int /\ SumFunction(DiskOf(f, S)) \in Int
  <2>1. LET T == OnHost(f, h) \ {u}
        IN /\ IsFiniteSet(T) /\ MemOf(f, T) \in [T -> Int] /\ DiskOf(f, T) \in [T -> Int]
           /\ SumFunction(MemOf(f, T)) \in Int /\ SumFunction(DiskOf(f, T)) \in Int
    BY HostSums, Zenon
  <2> QED
    BY <1>0, <2>1, Zenon
<1>2. MemOf(g, E) \in [E -> Int] /\ DiskOf(g, E) \in [E -> Int]
  <2>1. OnHost(g, h) \ {} = E
    BY <1>0, Zenon
  <2>2. LET T == OnHost(g, h) \ {}
        IN MemOf(g, T) \in [T -> Int] /\ DiskOf(g, T) \in [T -> Int]
    BY HostSums, Zenon
  <2> QED
    BY <2>1, <2>2, Zenon
<1>3. \A v \in S : MemOf(g, E)[v] = MemOf(f, S)[v] /\ DiskOf(g, E)[v] = DiskOf(f, S)[v]
  BY Zenon DEF MemOf, DiskOf
<1>4. MemOf(g, E)[u] = g[u].mem /\ DiskOf(g, E)[u] = g[u].disk
  BY Zenon DEF MemOf, DiskOf
<1>5. g[u].mem \in Int /\ g[u].disk \in Int
  BY <1>2, <1>4, Zenon
<1> HIDE DEF S
<1>6. ASSUME NEW a, NEW b, a \in [S -> Int], b \in [S \cup {u} -> Int], \A v \in S : b[v] = a[v]
      PROVE  SumFunction(b) = b[u] + SumFunction(a)
  <2>1. IsFiniteSet(S) /\ u \notin S
    BY <1>0, <1>1, Zenon
  <2> QED
    BY <1>6, <2>1, SumAdd, SMT
<1>7. SumFunction(MemOf(g, E)) = g[u].mem + SumFunction(MemOf(f, S))
  BY <1>1, <1>2, <1>3, <1>4, <1>6, Zenon
<1>8. SumFunction(DiskOf(g, E)) = g[u].disk + SumFunction(DiskOf(f, S))
  BY <1>1, <1>2, <1>3, <1>4, <1>6, Zenon
<1> HIDE DEF E
<1>9. PICK a, b, m, d : /\ a = SumFunction(MemOf(f, S)) /\ b = SumFunction(DiskOf(f, S))
                        /\ m = g[u].mem /\ d = g[u].disk
  BY Zenon
<1>10. a \in Int /\ b \in Int /\ m \in Int /\ d \in Int /\ MemCeiling \in Int /\ DiskCeiling \in Int
  BY <1>1, <1>5, <1>9, LifecycleAssumption, SMT
<1>11. a + m <= MemCeiling /\ b + d <= DiskCeiling <=> (m + a) + 0 <= MemCeiling /\ (d + b) + 0 <= DiskCeiling
  BY <1>10, SMT
<1> QED
  BY <1>0, <1>7, <1>8, <1>9, <1>11, Zenon DEF Fits

\* They are the same when the sizes on the machine are.
LEMMA SameFits ==
  ASSUME NEW f, NEW g, NEW h, OnHost(f, h) = OnHost(g, h),
         \A v \in OnHost(g, h) : f[v].mem = g[v].mem /\ f[v].disk = g[v].disk
  PROVE  CapacityOk(f, h, {}, 0, 0) <=> CapacityOk(g, h, {}, 0, 0)
<1>1. MemOf(f, OnHost(f, h)) = MemOf(g, OnHost(g, h)) /\ DiskOf(f, OnHost(f, h)) = DiskOf(g, OnHost(g, h))
  BY Zenon DEF MemOf, DiskOf
<1>2. OnHost(f, h) \ {} = OnHost(f, h) /\ OnHost(g, h) \ {} = OnHost(g, h)
  BY Zenon
<1> QED
  BY <1>1, <1>2, CapacityIs, Zenon DEF Fits

\* What capacity depends on.
SameLoad(g) ==
  \A v \in Uuid : \/ rows[v] = NoRow /\ g[v] = NoRow
                  \/ /\ rows[v] # NoRow /\ g[v] # NoRow /\ g[v].host = rows[v].host
                     /\ g[v].mem = rows[v].mem /\ g[v].disk = rows[v].disk

\* So capacity holds on after a change that leaves sizes and machines alone.
LEMMA LoadFits ==
  ASSUME CapacityRespected, SameLoad(rows')
  PROVE  CapacityRespected'
<1> SUFFICES ASSUME NEW h \in Host
             PROVE  CapacityOk(rows', h, {}, 0, 0)
  BY Zenon DEF CapacityRespected
<1>1. OnHost(rows', h) = OnHost(rows, h)
  BY Zenon DEF OnHost, Live, SameLoad
<1>2. \A v \in OnHost(rows, h) : rows'[v].mem = rows[v].mem /\ rows'[v].disk = rows[v].disk
  BY Zenon DEF OnHost, Live, SameLoad
<1>3. CapacityOk(rows, h, {}, 0, 0)
  BY Zenon DEF CapacityRespected
<1> QED
  BY <1>1, <1>2, <1>3, SameFits, Zenon

\* A row that is new, or has new sizes, on a machine that was asked for them.
LEMMA OneMore ==
  ASSUME RowsOK, CapacityRespected, rows' \in Rows, NEW u \in Uuid, rows'[u] \in Row,
         \A v \in Uuid \ {u} : rows'[v] = rows[v],
         rows[u] = NoRow \/ rows[u].host = rows'[u].host,
         CapacityOk(rows, rows'[u].host, {u}, rows'[u].mem, rows'[u].disk)
  PROVE  CapacityRespected'
<1> SUFFICES ASSUME NEW h \in Host
             PROVE  CapacityOk(rows', h, {}, 0, 0)
  BY Zenon DEF CapacityRespected
<1>0. rows \in Rows /\ rows'[u] # NoRow
  BY LifecycleAssumption, Zenon DEF RowsOK, Rows
<1>1. OnHost(rows', h) \ {u} = OnHost(rows, h) \ {u}
  BY Zenon DEF OnHost, Live
<1>2. \A v \in OnHost(rows', h) \ {u} : rows[v].mem = rows'[v].mem /\ rows[v].disk = rows'[v].disk
  BY Zenon DEF OnHost, Live
<1>3. CASE rows'[u].host = h
  <2>1. u \in OnHost(rows', h)
    BY <1>0, <1>3, Zenon DEF OnHost, Live
  <2>2. Fits(rows, OnHost(rows, h) \ {u}, rows'[u].mem, rows'[u].disk)
    BY <1>3, CapacityIs, Zenon
  <2>3. Fits(rows', OnHost(rows', h), 0, 0)
    BY <1>0, <1>1, <1>2, <2>1, <2>2, MoreFits, SMT
  <2>4. OnHost(rows', h) \ {} = OnHost(rows', h)
    BY Zenon
  <2> QED
    BY <2>3, <2>4, CapacityIs, Zenon
<1>4. CASE rows'[u].host # h
  <2>1. u \notin OnHost(rows', h) /\ u \notin OnHost(rows, h)
    BY <1>4, Zenon DEF OnHost, Live
  <2>2. OnHost(rows', h) = OnHost(rows, h)
    BY <1>1, <2>1, SMT
  <2>3. \A v \in OnHost(rows, h) : rows'[v].mem = rows[v].mem /\ rows'[v].disk = rows[v].disk
    BY <1>2, <2>1, <2>2, Zenon
  <2>4. CapacityOk(rows, h, {}, 0, 0)
    BY Zenon DEF CapacityRespected
  <2> QED
    BY <2>2, <2>3, <2>4, SameFits, Zenon
<1> QED
  BY <1>3, <1>4, Zenon

\* And after a row is gone.
LEMMA OneLess ==
  ASSUME RowsOK, CapacityRespected, rows' \in Rows, NEW u \in Uuid, rows[u] \in Row, rows'[u] = NoRow,
         \A v \in Uuid \ {u} : rows'[v] = rows[v]
  PROVE  CapacityRespected'
<1> SUFFICES ASSUME NEW h \in Host
             PROVE  CapacityOk(rows', h, {}, 0, 0)
  BY Zenon DEF CapacityRespected
<1>0. rows \in Rows /\ rows[u] # NoRow
  BY LifecycleAssumption, Zenon DEF RowsOK, Rows
<1>1. OnHost(rows', h) \ {u} = OnHost(rows, h) \ {u} /\ u \notin OnHost(rows', h)
  BY Zenon DEF OnHost, Live
<1>2. \A v \in OnHost(rows, h) \ {u} : rows'[v].mem = rows[v].mem /\ rows'[v].disk = rows[v].disk
  BY Zenon DEF OnHost, Live
<1>3. CapacityOk(rows, h, {}, 0, 0)
  BY Zenon DEF CapacityRespected
<1>4. CASE u \in OnHost(rows, h)
  <2>1. OnHost(rows, h) \ {} = OnHost(rows, h) /\ OnHost(rows', h) \ {} = OnHost(rows', h)
    BY Zenon
  <2>2. Fits(rows, OnHost(rows, h), 0, 0)
    BY <1>3, <2>1, CapacityIs, Zenon
  <2>3. Fits(rows', OnHost(rows', h) \ {u}, rows[u].mem, rows[u].disk)
    BY <1>0, <1>1, <1>2, <1>4, <2>2, MoreFits, Zenon
  <2>4. OnHost(rows', h) \ {u} = OnHost(rows', h)
    BY <1>1, Zenon
  <2>5. PICK a, b, m, d : /\ a = SumFunction(MemOf(rows', OnHost(rows', h)))
                          /\ b = SumFunction(DiskOf(rows', OnHost(rows', h)))
                          /\ m = rows[u].mem /\ d = rows[u].disk
    OBVIOUS
  <2>6. a \in Int /\ b \in Int
    <3>1. LET T == OnHost(rows', h) \ {}
          IN SumFunction(MemOf(rows', T)) \in Int /\ SumFunction(DiskOf(rows', T)) \in Int
      BY HostSums, Zenon
    <3> QED
      BY <2>1, <2>5, <3>1, Zenon
  <2>7. m \in Nat /\ d \in Nat /\ MemCeiling \in Nat /\ DiskCeiling \in Nat
    BY <2>5, RowFields, LifecycleAssumption, Zenon
  <2>8. a + m <= MemCeiling /\ b + d <= DiskCeiling
    BY <2>3, <2>4, <2>5, Zenon DEF Fits
  <2>9. a + 0 <= MemCeiling /\ b + 0 <= DiskCeiling
    BY <2>6, <2>7, <2>8, SMT
  <2>10. Fits(rows', OnHost(rows', h), 0, 0)
    BY <2>5, <2>9, Zenon DEF Fits
  <2> QED
    BY <2>1, <2>10, CapacityIs, Zenon
<1>5. CASE u \notin OnHost(rows, h)
  <2>2. OnHost(rows', h) = OnHost(rows, h)
    BY <1>1, <1>5, SMT
  <2>3. \A v \in OnHost(rows, h) : rows'[v].mem = rows[v].mem /\ rows'[v].disk = rows[v].disk
    BY <1>2, <1>5, Zenon
  <2> QED
    BY <1>3, <2>2, <2>3, SameFits, Zenon
<1> QED
  BY <1>4, <1>5, Zenon

\* A change of the table keeps within capacity: a resize looks at it.
LEMMA ChangeCapacity ==
  ASSUME Types, CapacityRespected, RowChange
  PROVE  CapacityRespected'
<1>0. RowsOK /\ rows \in Rows
  BY Zenon DEF Types, RowsOK, Rows
<1>1. CASE rows' \in Rows /\ Kept(rows') /\ UNCHANGED released
  <2>1. SameLoad(rows')
    BY <1>1, RowFields, Zenon DEF Kept, SameRow, SameLoad
  <2> QED
    BY <2>1, LoadFits, Zenon
<1>2. ASSUME NEW u \in Uuid, Deletes(u)
      PROVE  CapacityRespected'
  <2>1. rows[u] \in Row
    BY <1>0, <1>2, Zenon DEF Rows, Deletes
  <2>2. rows' \in Rows /\ rows'[u] = NoRow /\ \A v \in Uuid \ {u} : rows'[v] = rows[v]
    BY <1>0, <1>2, DeletedOK, Zenon DEF Deletes
  <2> QED
    BY <1>0, <2>1, <2>2, OneLess, Zenon
<1>3. ASSUME NEW u \in Uuid, NEW n \in Name, Relabels(u, n)
      PROVE  CapacityRespected'
  <2>1. rows[u] # NoRow
    BY <1>3, Zenon DEF Relabels, RenameOk
  <2>2. /\ rows'[u] \in Row /\ rows'[u].host = rows[u].host
        /\ rows'[u].mem = rows[u].mem /\ rows'[u].disk = rows[u].disk
        /\ \A v \in Uuid \ {u} : rows'[v] = rows[v]
    BY <1>0, <1>3, <2>1, RenamedOK, Zenon DEF Relabels
  <2>3. rows'[u] # NoRow
    BY <2>2, RowFields, Zenon
  <2>4. SameLoad(rows')
    BY <2>1, <2>2, <2>3, Zenon DEF SameLoad
  <2> QED
    BY <2>4, LoadFits, Zenon
<1>4. ASSUME NEW t \in Slot, At(t, "resize", "row"), Resizes(task[t].u, task[t].mem, task[t].disk)
      PROVE  CapacityRespected'
  <2>1. task[t].u \in Uuid /\ task[t].mem \in Memory /\ task[t].disk \in Disk
    BY <1>4, TaskIs, Zenon DEF Types, TasksOK, At, None
  <2>2. PICK u, m, d : u = task[t].u /\ m = task[t].mem /\ d = task[t].disk
    OBVIOUS
  <2>3. /\ u \in Uuid /\ m \in Memory /\ d \in Disk
        /\ rows' = ResizedRows(rows, u, m, d) /\ rows[u] # NoRow
        /\ CapacityOk(rows, rows[u].host, {u}, m, d)
    BY <1>4, <2>1, <2>2, Zenon DEF Resizes, ResizeOk
  <2>4. /\ rows' \in Rows /\ rows'[u] \in Row /\ rows'[u].host = rows[u].host
        /\ rows'[u].mem = m /\ rows'[u].disk = d
        /\ \A v \in Uuid \ {u} : rows'[v] = rows[v]
    BY <1>0, <2>3, ResizedOK, SMT
  <2>5. CapacityOk(rows, rows'[u].host, {u}, rows'[u].mem, rows'[u].disk)
    BY <2>3, <2>4, Zenon
  <2> QED
    BY <1>0, <2>3, <2>4, <2>5, OneMore, Zenon
<1>5. CASE UNCHANGED rows
  BY <1>5, Zenon DEF CapacityRespected
<1> QED
  BY <1>1, <1>2, <1>3, <1>4, <1>5, Zenon DEF RowChange

\* So does an insertion: insert_instance looks at it too.
LEMMA InsertCapacity ==
  ASSUME Types, MintOK, CapacityRespected, NEW t \in Slot, NewInsert(t) \/ CopyInsert(t)
  PROVE  CapacityRespected'
<1>1. /\ task[t].u \in Uuid /\ task[t].row \in Row /\ RowsOK /\ Inserting(t)
      /\ \/ UNCHANGED rows
         \/ /\ CreateOk(rows, released, task[t].row)
            /\ rows' = Inserted(rows, task[t].u, task[t].row)
  BY InsertIs, Zenon DEF Inserts, Types
<1>2. CASE UNCHANGED rows
  BY <1>2, Zenon DEF CapacityRespected
<1>3. CASE CreateOk(rows, released, task[t].row) /\ rows' = Inserted(rows, task[t].u, task[t].row)
  <2>1. PICK u, r : u = task[t].u /\ r = task[t].row
    OBVIOUS
  <2>2. /\ u \in Uuid /\ r \in Row /\ rows' = Inserted(rows, u, r) /\ RowsOK
        /\ CapacityOk(rows, r.host, {}, r.mem, r.disk)
    BY <1>1, <1>3, <2>1, Zenon DEF CreateOk
  <2>3. rows' \in Rows /\ rows'[u] = r /\ \A v \in Uuid \ {u} : rows'[v] = rows[v]
    BY <2>2, InsertedOK, SMT
  <2>4. rows[u] = NoRow
    BY <1>1, <2>1, Zenon DEF MintOK, Known
  <2>5. OnHost(rows, r.host) \ {} = OnHost(rows, r.host) \ {u}
    BY <2>4, SMT DEF OnHost, Live
  <2>6. CapacityOk(rows, r.host, {u}, r.mem, r.disk)
    BY <2>2, <2>5, CapacityIs, Zenon
  <2> QED
    BY <2>2, <2>3, <2>4, <2>6, OneMore, Zenon
<1> QED
  BY <1>1, <1>2, <1>3, Zenon

\* Every step keeps within capacity.
LEMMA NextCapacity ==
  ASSUME Types, MintOK, CapacityRespected, Next
  PROVE  CapacityRespected'
<1>1. ASSUME NEW t \in Slot, NEW w \in TaskRec, AskedOf(t, w)
      PROVE  CapacityRespected'
  BY <1>1, Zenon DEF AskedOf, db, CapacityRespected
<1> QED
  BY <1>1, NextIs, InsertCapacity, StepChange, ChangeCapacity, Zenon

\* However creates, copies and resizes overlap, for any number of instances
\* and any ceilings, what a machine has promised stays under them:
\* check_capacity_tx runs inside the transaction that writes.
THEOREM CapacityHolds == Spec => []CapacityRespected
<1>1. Init => CapacityRespected
  BY Zenon DEF Init, CapacityRespected
<1>2. Types /\ MintOK /\ CapacityRespected /\ [Next]_vars => CapacityRespected'
  <2>1. UNCHANGED vars /\ CapacityRespected => CapacityRespected'
    BY Zenon DEF vars, CapacityRespected
  <2> QED
    BY <2>1, NextCapacity, Zenon
<1> QED
  BY <1>1, <1>2, LifecycleTypes, PTL DEF Spec
=============================================================================
