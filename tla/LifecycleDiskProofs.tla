------------------------- MODULE LifecycleDiskProofs -------------------------
(***************************************************************************)
(* The file of an instance that was built covers the disk its row says.    *)
(* What makes the property inductive: a request that makes an instance is  *)
(* alone in doing so and an order that is late is not for an instance in   *)
(* the making (MakersOK), and each step of a create, a copy or a resize    *)
(* has left the file as large as the next one relies on (SizesOK).         *)
(***************************************************************************)
EXTENDS LifecycleProofs

-----------------------------------------------------------------------------
(* Files and rows. *)

\* No row of u, and no resize of u that only has its row left to write, asks
\* for more than d.
Below(u, d) ==
  /\ rows[u] # NoRow => rows[u].disk <= d
  /\ \A s \in Slot : At(s, "resize", "row") /\ task[s].u = u => task[s].disk <= d

Covers(u) == disk[u] > 0 => Below(u, disk[u])

Maker(t) == task[t].op \in {"new", "copy"}

Making(t) ==
  \/ task[t].op = "new" /\ task[t].at \in {"insert", "build"}
  \/ task[t].op = "copy" /\ task[t].at \in {"insert", "file", "grow", "seed", "create"}

\* An instance is made by one request, and is not built before that request
\* ends; a provision that is still to arrive is for an instance its request
\* has given up.
MakersOK ==
  /\ \A s, t \in Slot : Maker(s) /\ Maker(t) /\ s # t => task[s].u # task[t].u
  /\ \A t \in Slot : Making(t) => task[t].u \notin built
  /\ \A o \in late : o.kind = "provision" =>
       /\ o.u \notin built
       /\ \A t \in Slot : Maker(t) /\ task[t].u = o.u => At(t, "new", "unwind")

NewOK(t) ==
  At(t, "new", "build") => disk[task[t].u] = 0 /\ Below(task[t].u, task[t].row.disk)

CopyOK(t) ==
  task[t].op = "copy" /\ task[t].whole =>
    /\ task[t].at \in {"insert", "file"} =>
         /\ task[t].src \in built
         /\ ~task[t].grow /\ disk[task[t].src] > 0 => disk[task[t].src] >= task[t].row.disk
    /\ task[t].at = "file" => disk[task[t].u] = 0 /\ Below(task[t].u, task[t].row.disk)
    /\ task[t].at = "grow" /\ disk[task[t].u] > 0 =>
         Below(task[t].u, task[t].row.disk) \/ Below(task[t].u, disk[task[t].u])
    /\ task[t].at \in {"seed", "create"} => Covers(task[t].u)

SizesOK ==
  /\ \A u \in built : Covers(u)
  /\ \A t \in Slot : NewOK(t) /\ CopyOK(t)

-----------------------------------------------------------------------------
(* Makers. *)

\* A request that does not go on making anything.
Past(x) ==
  \/ task'[x].op \notin {"new", "copy", "resize"}
  \/ task[x].op = "copy" /\ task'[x].op = "copy" /\ task'[x].u = task[x].u /\ task'[x].at = "unwind"
  \/ task'[x].op = "resize" /\ task'[x].at = "redefine"

\* One that goes on with the same instance.
Goes(x) ==
  /\ task'[x].op = task[x].op /\ task'[x].u = task[x].u
  /\ Making(x)' => Making(x)
  /\ ~At(x, "new", "unwind")

NoProvision == \A o \in late' : o.kind = "provision" => o \in late

\* Requests that stay, go on or are past keep each to its own instance.
LEMMA MakersKept ==
  ASSUME MakersOK, \A x \in Slot : task'[x] = task[x] \/ Past(x) \/ Goes(x)
  PROVE  /\ \A s, t \in Slot : Maker(s)' /\ Maker(t)' /\ s # t => task'[s].u # task'[t].u
         /\ \A t \in Slot : Maker(t)' => Maker(t) /\ task'[t].u = task[t].u
         /\ \A t \in Slot : Making(t)' => Making(t) /\ task'[t].u = task[t].u
         /\ \A t \in Slot : At(t, "new", "unwind") => At(t, "new", "unwind")' \/ ~Maker(t)'
<1>1. ASSUME NEW t \in Slot
      PROVE  /\ Maker(t)' => Maker(t) /\ task'[t].u = task[t].u
             /\ Making(t)' => Making(t) /\ task'[t].u = task[t].u
             /\ At(t, "new", "unwind") => At(t, "new", "unwind")' \/ ~Maker(t)'
  <2>1. CASE task'[t] = task[t]
    BY <2>1, Zenon DEF Maker, Making, At
  <2>2. CASE Past(t)
    BY <2>2, Zenon DEF Past, Maker, Making, At
  <2>3. CASE Goes(t)
    BY <2>3, Zenon DEF Goes, Maker
  <2> QED
    BY <2>1, <2>2, <2>3, Zenon
<1>2. \A s, t \in Slot : Maker(s)' /\ Maker(t)' /\ s # t => task'[s].u # task'[t].u
  BY <1>1, Zenon DEF MakersOK
<1> QED
  BY <1>1, <1>2, Zenon

\* Then nothing of MakersOK can break without a build or a late provision.
LEMMA MakersFrame ==
  ASSUME MakersOK, \A x \in Slot : task'[x] = task[x] \/ Past(x) \/ Goes(x),
         UNCHANGED built, NoProvision
  PROVE  MakersOK'
<1>1. /\ \A s, t \in Slot : Maker(s)' /\ Maker(t)' /\ s # t => task'[s].u # task'[t].u
      /\ \A t \in Slot : Maker(t)' => Maker(t) /\ task'[t].u = task[t].u
      /\ \A t \in Slot : Making(t)' => Making(t) /\ task'[t].u = task[t].u
      /\ \A t \in Slot : At(t, "new", "unwind") => At(t, "new", "unwind")' \/ ~Maker(t)'
  BY MakersKept, Zenon
<1>2. \A t \in Slot : Making(t)' => task'[t].u \notin built'
  BY <1>1, Zenon DEF MakersOK
<1>3. ASSUME NEW o \in late', o.kind = "provision"
      PROVE  /\ o.u \notin built'
             /\ \A t \in Slot : Maker(t)' /\ task'[t].u = o.u => At(t, "new", "unwind")'
  BY <1>1, <1>3, Zenon DEF MakersOK, NoProvision
<1> QED
  BY <1>1, <1>2, <1>3, Zenon DEF MakersOK

-----------------------------------------------------------------------------
(* Sizes. *)

Grows(v) == disk'[v] = disk[v] \/ disk'[v] = 0 \/ (disk[v] > 0 /\ disk'[v] >= disk[v])

\* What is asked for u rises at most together with its file.
Lower(v) ==
  \A d \in Nat : Below(v, d) =>
    Below(v, d)' \/ (disk[v] > 0 /\ disk'[v] > 0 /\ Below(v, disk[v])')

\* Sizes are numbers.
LEMMA DiskNat ==
  ASSUME Types
  PROVE  /\ \A v \in Uuid : disk[v] \in Nat
         /\ \A v \in Uuid : rows[v] # NoRow => rows[v] \in Row /\ rows[v].disk \in Nat
         /\ \A t \in Slot : task[t].op # None => /\ task[t].u \in Uuid /\ task[t].row.disk \in Nat
                                                 /\ task[t].row.disk > 0
         /\ \A t \in Slot : task[t].op = "resize" => task[t].disk \in Nat
<1>1. Disk \subseteq Nat \ {0}
  BY LifecycleAssumption, Zenon
<1>2. \A v \in Uuid : disk[v] \in Nat
  <2>1. \A v \in Uuid : disk[v] \in Disk \cup {0}
    BY Zenon DEF Types, HostsOK, Disks
  <2>2. \A d \in Disk \cup {0} : d \in Nat
    BY <1>1, SMT
  <2> QED
    BY <2>1, <2>2, Zenon
<1>3. \A v \in Uuid : rows[v] # NoRow => rows[v] \in Row /\ rows[v].disk \in Nat
  BY <1>1, RowFields, Zenon DEF Types, RowsOK
<1>4. \A t \in Slot : /\ task[t].op # None => task[t].u \in Uuid /\ task[t].row.disk \in Disk
                      /\ task[t].op = "resize" => task[t].disk \in Disk
  BY TaskIs, RowFields, Zenon DEF Types, TasksOK
<1>5. \A d \in Disk : d \in Nat /\ d > 0
  BY <1>1, SMT
<1> QED
  BY <1>2, <1>3, <1>4, <1>5, Zenon

\* What is below c is below anything larger.
LEMMA BelowRises ==
  ASSUME Types, NEW u \in Uuid, NEW c \in Nat, NEW d \in Nat, c <= d, Below(u, c)
  PROVE  Below(u, d)
<1>1. rows[u] # NoRow => rows[u].disk <= d
  <2>1. rows[u] # NoRow => rows[u].disk \in Nat /\ rows[u].disk <= c
    BY DiskNat, Zenon DEF Below
  <2> QED
    BY <2>1, SMT
<1>2. ASSUME NEW s \in Slot, At(s, "resize", "row"), task[s].u = u
      PROVE  task[s].disk <= d
  <2>1. task[s].disk \in Nat /\ task[s].disk <= c
    BY <1>2, DiskNat, Zenon DEF Below, At
  <2> QED
    BY <2>1, SMT
<1> QED
  BY <1>1, <1>2, Zenon DEF Below

\* A file that grows was there before.
LEMMA GrowsOK ==
  ASSUME Types, Types', NEW v \in Uuid, Grows(v)
  PROVE  /\ disk[v] \in Nat /\ disk'[v] \in Nat
         /\ disk'[v] > 0 => disk[v] > 0 /\ disk[v] <= disk'[v]
         /\ disk[v] = 0 => disk'[v] = 0
<1>1. disk[v] \in Nat
  BY DiskNat, Zenon
<1>2. disk'[v] \in Nat
  <2>1. \A w \in Uuid : disk'[w] \in Disk \cup {0}
    BY Zenon DEF Types, HostsOK, Disks
  <2>2. \A d \in Disk \cup {0} : d \in Nat
    BY LifecycleAssumption, SMT
  <2> QED
    BY <2>1, <2>2, Zenon
<1> QED
  BY <1>1, <1>2, SMT DEF Grows

\* What is below c after the step is below anything larger.
LEMMA RisesNext ==
  ASSUME Types', NEW u \in Uuid, NEW c \in Nat, NEW d \in Nat, c <= d, Below(u, c)'
  PROVE  Below(u, d)'
<1>1. Disk \subseteq Nat
  BY LifecycleAssumption, Zenon
<1>2. rows'[u] # NoRow => rows'[u].disk <= d
  <2>1. rows'[u] # NoRow => rows'[u].disk \in Nat /\ rows'[u].disk <= c
    BY <1>1, RowFields, Zenon DEF Types, RowsOK, Below
  <2> QED
    BY <2>1, SMT
<1>3. ASSUME NEW s \in Slot, At(s, "resize", "row")', task'[s].u = u
      PROVE  task'[s].disk <= d
  <2>1. task'[s] \in TaskRec /\ task'[s].op = "resize"
    BY <1>3, Zenon DEF Types, TasksOK, At
  <2>2. task'[s].disk \in Nat
    BY <1>1, <2>1, TaskIs, Zenon
  <2>3. task'[s].disk <= c
    BY <1>3, Zenon DEF Below
  <2> QED
    BY <2>2, <2>3, SMT
<1> QED
  BY <1>2, <1>3, Zenon DEF Below

\* A file that covers its row goes on covering it.
LEMMA CoversOn ==
  ASSUME Types, Types', NEW v \in Uuid, Grows(v), Lower(v), Covers(v)
  PROVE  Covers(v)'
<1>1. SUFFICES ASSUME disk'[v] > 0
               PROVE  Below(v, disk[v])'
  BY Zenon DEF Covers
<1>2. PICK c, d : c = disk[v] /\ d = disk'[v]
  OBVIOUS
<1>3. c > 0 /\ c <= d /\ c \in Nat /\ d \in Nat
  BY <1>1, <1>2, GrowsOK, Zenon
<1>4. Below(v, c)
  BY <1>2, <1>3, Zenon DEF Covers
<1>5. Below(v, c)' \/ Below(v, disk[v])'
  BY <1>3, <1>4, Zenon DEF Lower
<1>6. CASE Below(v, c)'
  <2>1. Below(v, d)'
    BY <1>3, <1>6, RisesNext, Zenon
  <2> QED
    BY <1>2, <2>1, Zenon DEF Below
<1> QED
  BY <1>5, <1>6, Zenon

\* A request that stays where it is keeps what it relies on.
LEMMA MakerOn ==
  ASSUME Types, Types', NEW x \in Slot, task'[x] = task[x], NewOK(x), CopyOK(x), built \subseteq built',
         \A v \in built : Grows(v), Maker(x) => Grows(task[x].u) /\ Lower(task[x].u)
  PROVE  NewOK(x)' /\ CopyOK(x)'
<1>1. PICK w : w = task[x]
  OBVIOUS
<1>2. PICK u, d : u = w.u /\ d = w.row.disk
  OBVIOUS
<1>3. task[x] = w /\ task'[x] = w
  BY <1>1, Zenon
<1>4. Maker(x) => u \in Uuid /\ d \in Nat /\ Grows(u) /\ Lower(u)
  <2>1. Maker(x) => task[x].op # None
    BY Zenon DEF Maker, None
  <2> QED
    BY <1>2, <1>3, <2>1, DiskNat, Zenon
<1>5. ASSUME Maker(x), disk[u] = 0, Below(u, d)
      PROVE  disk'[u] = 0 /\ Below(u, d)'
  <2>1. disk'[u] = 0
    BY <1>4, <1>5, GrowsOK, Zenon
  <2>2. ~(disk[u] > 0)
    BY <1>5, SMT
  <2> QED
    BY <1>4, <1>5, <2>1, <2>2, Zenon DEF Lower
<1>6. NewOK(x)'
  <2> SUFFICES ASSUME At(x, "new", "build")'
               PROVE  disk'[u] = 0 /\ Below(u, d)'
    BY <1>2, <1>3, Zenon DEF NewOK
  <2>1. At(x, "new", "build") /\ Maker(x)
    BY <1>3, Zenon DEF At, Maker
  <2>2. disk[u] = 0 /\ Below(u, d)
    BY <1>2, <1>3, <2>1, Zenon DEF NewOK
  <2> QED
    BY <1>5, <2>1, <2>2, Zenon
<1>7. CASE ~(w.op = "copy" /\ w.whole)
  BY <1>3, <1>6, <1>7, Zenon DEF CopyOK
<1>8. CASE w.op = "copy" /\ w.whole
  <2>0. Maker(x)
    BY <1>3, <1>8, Zenon DEF Maker
  <2>1. w.at \in {"insert", "file"} =>
          w.src \in built' /\ (~w.grow /\ disk'[w.src] > 0 => disk'[w.src] >= d)
    <3> SUFFICES ASSUME w.at \in {"insert", "file"}
                 PROVE  w.src \in built' /\ (~w.grow /\ disk'[w.src] > 0 => disk'[w.src] >= d)
      BY Zenon
    <3>1. w.src \in built /\ (~w.grow /\ disk[w.src] > 0 => disk[w.src] >= d)
      BY <1>2, <1>3, <1>8, Zenon DEF CopyOK
    <3>2. PICK v : v = w.src
      OBVIOUS
    <3>3. v \in Uuid /\ Grows(v)
      BY <3>1, <3>2, Zenon DEF Types, HistoryOK
    <3>4. /\ disk[v] \in Nat /\ disk'[v] \in Nat
          /\ disk'[v] > 0 => disk[v] > 0 /\ disk[v] <= disk'[v]
      BY <3>3, GrowsOK, Zenon
    <3>5. disk[v] >= d /\ disk[v] <= disk'[v] => disk'[v] >= d
      BY <1>4, <2>0, <3>4, SMT
    <3> QED
      BY <3>1, <3>2, <3>4, <3>5, Zenon
  <2>2. w.at = "file" => disk'[u] = 0 /\ Below(u, d)'
    <3> SUFFICES ASSUME w.at = "file"
                 PROVE  disk'[u] = 0 /\ Below(u, d)'
      BY Zenon
    <3>1. disk[u] = 0 /\ Below(u, d)
      BY <1>2, <1>3, <1>8, Zenon DEF CopyOK
    <3> QED
      BY <1>5, <2>0, <3>1, Zenon
  <2>3. w.at = "grow" /\ disk'[u] > 0 => Below(u, d)' \/ Below(u, disk[u])'
    <3> SUFFICES ASSUME w.at = "grow", disk'[u] > 0
                 PROVE  Below(u, d)' \/ Below(u, disk[u])'
      BY Zenon
    <3>1. disk[u] > 0
      BY <1>4, <2>0, GrowsOK, Zenon
    <3>2. Below(u, d) \/ Below(u, disk[u])
      BY <1>2, <1>3, <1>8, <3>1, Zenon DEF CopyOK
    <3>3. CASE Below(u, d)
      BY <1>4, <2>0, <3>3, Zenon DEF Lower
    <3>4. CASE Below(u, disk[u])
      <4>1. Covers(u)
        BY <3>4, Zenon DEF Covers
      <4>2. Covers(u)'
        BY <1>4, <2>0, <4>1, CoversOn, Zenon
      <4> QED
        BY <4>2, Zenon DEF Covers
    <3> QED
      BY <3>2, <3>3, <3>4, Zenon
  <2>4. w.at \in {"seed", "create"} => Covers(u)'
    <3> SUFFICES ASSUME w.at \in {"seed", "create"}
                 PROVE  Covers(u)'
      BY Zenon
    <3>1. Covers(u)
      BY <1>2, <1>3, <1>8, Zenon DEF CopyOK
    <3> QED
      BY <1>4, <2>0, <3>1, CoversOn, Zenon
  <2>5. CopyOK(x)'
    BY <1>2, <1>3, <2>1, <2>2, <2>3, <2>4, Zenon DEF CopyOK
  <2> QED
    BY <1>6, <2>5, Zenon
<1> QED
  BY <1>7, <1>8, Zenon

\* A step keeps the sizes right when outside of E files only grow and no more
\* is asked of them.
LEMMA SizeStep ==
  ASSUME Types, Types', SizesOK, NEW E, E \cap built = {},
         \A v \in Uuid \ E : Grows(v) /\ Lower(v),
         \A x \in Slot : \/ task'[x] = task[x] /\ (Maker(x) => task[x].u \notin E)
                         \/ NewOK(x)' /\ CopyOK(x)',
         built \subseteq built', \A v \in built' \ built : Covers(v)'
  PROVE  SizesOK'
<1>0. built \subseteq Uuid \ E
  BY Zenon DEF Types, HistoryOK
<1>1. \A v \in built : Covers(v)'
  BY <1>0, CoversOn, Zenon DEF SizesOK
<1>2. ASSUME NEW x \in Slot, task'[x] = task[x], Maker(x) => task[x].u \notin E
      PROVE  NewOK(x)' /\ CopyOK(x)'
  <2>1. Maker(x) => task[x].u \in Uuid \ E
    <3>1. Maker(x) => task[x].op # None
      BY Zenon DEF Maker, None
    <3> QED
      BY <1>2, <3>1, DiskNat, Zenon
  <2>2. Maker(x) => Grows(task[x].u) /\ Lower(task[x].u)
    BY <2>1, Zenon
  <2>3. NewOK(x) /\ CopyOK(x) /\ \A v \in built : Grows(v)
    BY <1>0, Zenon DEF SizesOK
  <2> QED
    BY <1>2, <2>2, <2>3, MakerOn, Zenon
<1> QED
  BY <1>1, <1>2, Zenon DEF SizesOK

-----------------------------------------------------------------------------
(* What is asked for an instance. *)

\* Rows keep their disk, or get the one of a resize that only has its row
\* left to write.
RowsUnder ==
  \A v \in Uuid : rows'[v] # NoRow =>
    /\ rows[v] # NoRow
    /\ \/ rows'[v].disk = rows[v].disk
       \/ \E s \in Slot : At(s, "resize", "row") /\ task[s].u = v /\ task[s].disk = rows'[v].disk

\* A resize that comes to have only its row left asks for no more than it has.
TaskUnder(x) ==
  At(x, "resize", "row")' =>
    \/ At(x, "resize", "row") /\ task'[x].u = task[x].u /\ task'[x].disk = task[x].disk
    \/ rows[task'[x].u] # NoRow /\ ~(task'[x].disk > rows[task'[x].u].disk)

\* What is asked of an instance does not rise by a row that stays or that a
\* resize grew for.
LEMMA BelowStays ==
  ASSUME Types, Types', NEW v \in Uuid, NEW d \in Nat, Below(v, d),
         rows'[v] # NoRow =>
           /\ rows[v] # NoRow
           /\ \/ rows'[v].disk = rows[v].disk
              \/ \E s \in Slot : At(s, "resize", "row") /\ task[s].u = v /\ task[s].disk = rows'[v].disk,
         \A x \in Slot : task'[x].u = v => TaskUnder(x)
  PROVE  Below(v, d)'
<1>1. rows'[v] # NoRow => rows'[v].disk <= d
  BY Zenon DEF Below
<1>2. ASSUME NEW x \in Slot, At(x, "resize", "row")', task'[x].u = v
      PROVE  task'[x].disk <= d
  <2>1. CASE At(x, "resize", "row") /\ task'[x].u = task[x].u /\ task'[x].disk = task[x].disk
    BY <1>2, <2>1, Zenon DEF Below
  <2>2. CASE rows[v] # NoRow /\ ~(task'[x].disk > rows[v].disk)
    <3>1. rows[v].disk <= d /\ rows[v].disk \in Nat
      BY <2>2, DiskNat, Zenon DEF Below
    <3>2. task'[x].disk \in Nat
      <4>1. task'[x] \in TaskRec /\ task'[x].op = "resize"
        BY <1>2, Zenon DEF Types, TasksOK, At
      <4> QED
        BY <4>1, TaskIs, LifecycleAssumption, Zenon
    <3>3. PICK a, b : a = task'[x].disk /\ b = rows[v].disk
      OBVIOUS
    <3>4. a \in Nat /\ b \in Nat /\ b <= d /\ ~(a > b)
      BY <2>2, <3>1, <3>2, <3>3, Zenon
    <3>5. a <= d
      BY <3>4, SMT
    <3> QED
      BY <3>3, <3>5, Zenon
  <2> QED
    BY <1>2, <2>1, <2>2, Zenon DEF TaskUnder
<1> QED
  BY <1>1, <1>2, Zenon DEF Below

\* So it rises for no instance.
LEMMA LowerIs ==
  ASSUME Types, Types', RowsUnder, \A x \in Slot : TaskUnder(x)
  PROVE  \A v \in Uuid : Lower(v)
BY BelowStays, Zenon DEF Lower, RowsUnder

\* A change of the table asks for no more than was there or than a resize grew
\* for.
LEMMA ChangeUnder ==
  ASSUME Types, RowChange
  PROVE  RowsUnder
<1>0. RowsOK /\ rows \in Rows
  BY Zenon DEF Types, RowsOK, Rows
<1>1. CASE rows' \in Rows /\ Kept(rows') /\ UNCHANGED released
  BY <1>1, RowFields, Zenon DEF Kept, SameRow, RowsUnder
<1>2. ASSUME NEW u \in Uuid, Deletes(u)
      PROVE  RowsUnder
  <2>1. rows'[u] = NoRow /\ \A v \in Uuid \ {u} : rows'[v] = rows[v]
    BY <1>0, <1>2, DeletedOK, Zenon DEF Deletes
  <2> QED
    BY <2>1, Zenon DEF RowsUnder
<1>3. ASSUME NEW u \in Uuid, NEW n \in Name, Relabels(u, n)
      PROVE  RowsUnder
  <2>1. rows[u] # NoRow
    BY <1>3, Zenon DEF Relabels, RenameOk
  <2>2. rows'[u].disk = rows[u].disk /\ \A v \in Uuid \ {u} : rows'[v] = rows[v]
    BY <1>0, <1>3, <2>1, RenamedOK, Zenon DEF Relabels
  <2> QED
    BY <2>1, <2>2, Zenon DEF RowsUnder
<1>4. ASSUME NEW t \in Slot, At(t, "resize", "row"), Resizes(task[t].u, task[t].mem, task[t].disk)
      PROVE  RowsUnder
  <2>1. task[t].u \in Uuid /\ task[t].mem \in Memory /\ task[t].disk \in Disk
    BY <1>4, TaskIs, Zenon DEF Types, TasksOK, At, None
  <2>2. PICK u, m, d : u = task[t].u /\ m = task[t].mem /\ d = task[t].disk
    OBVIOUS
  <2>3. /\ u \in Uuid /\ m \in Memory /\ d \in Disk
        /\ rows' = ResizedRows(rows, u, m, d) /\ rows[u] # NoRow
    BY <1>4, <2>1, <2>2, Zenon DEF Resizes, ResizeOk
  <2>4. rows'[u].disk = d /\ \A v \in Uuid \ {u} : rows'[v] = rows[v]
    BY <1>0, <2>3, ResizedOK, SMT
  <2> QED
    BY <1>4, <2>2, <2>3, <2>4, Zenon DEF RowsUnder
<1>5. CASE UNCHANGED rows
  BY <1>5, Zenon DEF RowsUnder
<1> QED
  BY <1>1, <1>2, <1>3, <1>4, <1>5, Zenon DEF RowChange

\* An order other than a provision only grows files or takes them away.
LEMMA AnswerGrows ==
  ASSUME HostsOK, NEW o, OrderOK(o), o.kind # "provision", NEW a \in Answers(o), Take(a)
  PROVE  /\ \A v \in Uuid : Grows(v)
         /\ NoProvision
<1>1. AnswerOK(o, a)
  BY AnswersOK, Zenon
<1>2. \A v \in Uuid : \/ a.disk[v] = disk[v] \/ a.disk[v] = 0
                      \/ disk[v] > 0 /\ a.disk[v] >= disk[v]
  <2>1. \A v \in Uuid :
          \/ a.disk[v] = disk[v] \/ a.disk[v] = 0
          \/ disk[v] > 0 /\ a.disk[v] = o.disk /\ o.disk >= disk[v]
    BY <1>1, Zenon DEF AnswerOK, OutcomeOK
  <2> QED
    BY <2>1, Zenon
<1>3. \A l \in a.late : l.kind = "provision" => l \in late
  BY <1>1, Zenon DEF AnswerOK, Due
<1> QED
  BY <1>2, <1>3, Zenon DEF Take, Grows, NoProvision

\* A step that makes nothing.
LEMMA QuietDisk ==
  ASSUME Types, Types', MakersOK, SizesOK, RowsUnder, \A v \in Uuid : Grows(v), UNCHANGED built,
         NoProvision, \A x \in Slot : task'[x] = task[x] \/ Past(x)
  PROVE  MakersOK' /\ SizesOK'
<1>1. MakersOK'
  BY MakersFrame, Zenon
<1>2. \A x \in Slot : TaskUnder(x)
  BY Zenon DEF TaskUnder, Past, At
<1>3. \A v \in Uuid : Grows(v) /\ Lower(v)
  BY <1>2, LowerIs, Zenon
<1>4. ASSUME NEW x \in Slot, Past(x)
      PROVE  NewOK(x)' /\ CopyOK(x)'
  BY <1>4, Zenon DEF Past, NewOK, CopyOK, At
<1>5. SizesOK'
  <2>1. {} \cap built = {} /\ \A v \in Uuid \ {} : Grows(v) /\ Lower(v)
    BY <1>3, Zenon
  <2>2. \A x \in Slot : \/ task'[x] = task[x] /\ (Maker(x) => task[x].u \notin {})
                        \/ NewOK(x)' /\ CopyOK(x)'
    BY <1>4, Zenon
  <2>3. built \subseteq built' /\ \A v \in built' \ built : Covers(v)'
    BY Zenon
  <2> QED
    BY <2>1, <2>2, <2>3, SizeStep, Zenon
<1> QED
  BY <1>1, <1>5, Zenon

-----------------------------------------------------------------------------
(* Steps that make nothing. *)

\* A request that ends is past.
LEMMA EndPast ==
  ASSUME Types, NEW t \in Slot, End(t)
  PROVE  \A x \in Slot : task'[x] = task[x] \/ Past(x)
<1>1. Others(t) /\ task'[t] = Idle
  BY AfterEnd, Zenon DEF Types, Ends
<1>2. Past(t)
  BY <1>1, IdleIs, Zenon DEF Past
<1> QED
  BY <1>1, <1>2, Zenon DEF Others

\* So is one that goes where nothing is made.
LEMMA GotoPast ==
  ASSUME Types, NEW t \in Slot, NEW s \in Place, task[t].op # None, Goto(t, s),
         \/ task[t].op \notin {"new", "copy", "resize"}
         \/ task[t].op = "copy" /\ s = "unwind"
         \/ task[t].op = "resize" /\ s = "redefine"
  PROVE  \A x \in Slot : task'[x] = task[x] \/ Past(x)
<1>1. Others(t) /\ task'[t].at = s /\ task'[t].op = task[t].op /\ task'[t].u = task[t].u
  BY AfterGoto, Zenon DEF Types, Moves, SameTask
<1>2. Past(t)
  BY <1>1, Zenon DEF Past
<1> QED
  BY <1>1, <1>2, Zenon DEF Others

\* The step of a request that neither builds nor grows.
LeavesFiles(t) ==
  \/ StartDomain(t) \/ StopDomain(t) \/ RestartReboot(t) \/ RemoveDomain(t) \/ RenameUndefine(t)
  \/ RenameElsewhere(t) \/ ResizeRedefine(t) \/ RemoveFiles(t) \/ CopyUnwindFiles(t) \/ RenameDefine(t)
  \/ StartDesired(t) \/ StopDesired(t) \/ RestartDesired(t)
  \/ StartRecord(t) \/ StopRecord(t) \/ NewRecord(t) \/ CopyRecord(t)
  \/ RemoveRow(t) \/ UnwindRow(t) \/ RenameRow(t) \/ RenameRevert(t) \/ ResizeRow(t)

\* The other steps make nothing.
LEMMA LeavesPast ==
  ASSUME Types, NEW t \in Slot, LeavesFiles(t)
  PROVE  \A x \in Slot : task'[x] = task[x] \/ Past(x)
<1>0. TasksOK /\ task[t] \in TaskRec
  BY Zenon DEF Types, TasksOK
<1>1. CASE RenameRow(t)
  <2>1. task[t].op = "rename" /\ task[t].at # "insert" /\ task[t].op # None
    BY <1>1, Zenon DEF RenameRow, At, None
  <2> DEFINE done == task[t].gone \/ ~RenameOk(rows, released, task[t].u, task[t].name)
             s == IF task[t].row.host = Local THEN "undefine" ELSE "order"
             b == iso[task[t].u]
  <2>2. CASE done
    <3>1. End(t)
      BY <1>1, <2>2, Zenon DEF RenameRow, End
    <3> QED
      BY <3>1, EndPast, Zenon
  <2>3. CASE ~done
    <3>1. task' = [task EXCEPT ![t] = [[task[t] EXCEPT !.iso = b] EXCEPT !.at = s]]
      BY <1>1, <2>3, SMT DEF RenameRow
    <3>2. b \in BOOLEAN
      BY <1>0, <2>1, TaskIs, Zenon DEF Types, HostsOK
    <3>3. s \in Place \ {"insert"}
      BY Zenon DEF Place
    <3> HIDE DEF s, b, done
    <3>4. Others(t) /\ task'[t].op = "rename"
      BY <1>0, <2>1, <3>1, <3>2, <3>3, RenamedTask, Zenon
    <3>5. Past(t)
      BY <3>4, Zenon DEF Past
    <3> QED
      BY <3>4, <3>5, Zenon DEF Others
  <2> QED
    BY <2>2, <2>3, Zenon
<1>2. CASE StartDomain(t) \/ StopDomain(t) \/ RestartReboot(t) \/ RemoveDomain(t)
  <2>1. /\ task[t].op # None /\ task[t].op \notin {"new", "copy", "resize"}
        /\ End(t) \/ \E s \in Place : Goto(t, s)
    BY <1>2, Zenon DEF StartDomain, StopDomain, RestartReboot, RemoveDomain, At, None, Place
  <2> QED
    BY <2>1, EndPast, GotoPast, Zenon
<1>3. CASE RenameUndefine(t) \/ RenameElsewhere(t) \/ RenameDefine(t) \/ RemoveFiles(t)
           \/ StartDesired(t) \/ StopDesired(t) \/ RestartDesired(t)
  <2>1. /\ task[t].op # None /\ task[t].op \notin {"new", "copy", "resize"}
        /\ End(t) \/ \E s \in Place : Goto(t, s)
    BY <1>3, Zenon DEF RenameUndefine, RenameElsewhere, RenameDefine, RemoveFiles, StartDesired,
                       StopDesired, RestartDesired, Desire, At, None, Place
  <2> QED
    BY <2>1, EndPast, GotoPast, Zenon
<1>4. CASE ResizeRedefine(t) \/ StartRecord(t) \/ StopRecord(t) \/ NewRecord(t) \/ CopyRecord(t)
           \/ RemoveRow(t) \/ UnwindRow(t) \/ RenameRevert(t)
  <2>1. End(t)
    BY <1>4, Zenon DEF ResizeRedefine, StartRecord, StopRecord, NewRecord, CopyRecord, Record,
                       RemoveRow, UnwindRow, RenameRevert
  <2> QED
    BY <2>1, EndPast, Zenon
<1>5. CASE CopyUnwindFiles(t) \/ ResizeRow(t)
  <2>1. /\ task[t].op # None
        /\ \/ End(t)
           \/ task[t].op = "copy" /\ Goto(t, "unwind")
           \/ task[t].op = "resize" /\ Goto(t, "redefine")
    BY <1>5, Zenon DEF CopyUnwindFiles, ResizeRow, At, None
  <2>2. "unwind" \in Place /\ "redefine" \in Place
    BY Zenon DEF Place
  <2> QED
    BY <2>1, <2>2, EndPast, GotoPast, Zenon
<1> QED
  BY <1>1, <1>2, <1>3, <1>4, <1>5, Zenon DEF LeavesFiles

\* And they do nothing to a file but take it away.
LEMMA LeavesGrows ==
  ASSUME Types, NEW t \in Slot, LeavesFiles(t)
  PROVE  (\A v \in Uuid : Grows(v)) /\ NoProvision /\ UNCHANGED built
<1>0. TasksOK /\ HostsOK /\ disk \in Disks
  BY Zenon DEF Types, HostsOK
<1>1. ASSUME UNCHANGED <<disk, late, built>>
      PROVE  (\A v \in Uuid : Grows(v)) /\ NoProvision /\ UNCHANGED built
  BY <1>1, Zenon DEF Grows, NoProvision
<1>2. CASE StartDomain(t) \/ StopDomain(t) \/ RestartReboot(t) \/ RemoveDomain(t) \/ RenameUndefine(t)
  <2>1. /\ task[t].op # None /\ UNCHANGED built
        /\ \E kind \in {"start", "stop", "reboot", "remove"} : \E a \in Answers(OrderOf(t, kind)) : Take(a)
    BY <1>2, Zenon DEF StartDomain, StopDomain, RestartReboot, RemoveDomain, RenameUndefine, At, None
  <2>2. PICK kind \in {"start", "stop", "reboot", "remove"} : \E a \in Answers(OrderOf(t, kind)) : Take(a)
    BY <2>1, Zenon
  <2>3. OrderOK(OrderOf(t, kind)) /\ OrderOf(t, kind).kind # "provision"
    BY <1>0, <2>1, OrderOfOK, Zenon
  <2> QED
    BY <1>0, <2>1, <2>2, <2>3, AnswerGrows, Zenon
<1>3. CASE RenameElsewhere(t)
  <2>1. /\ task[t].op = "rename" /\ task[t].op # None /\ UNCHANGED built
        /\ \E a \in Answers(RelabelOf(t)) : Take(a)
    BY <1>3, Zenon DEF RenameElsewhere, At, None, RelabelOf
  <2>2. OrderOK(RelabelOf(t)) /\ RelabelOf(t).kind # "provision"
    BY <1>0, <2>1, SizedOrderOK, Zenon
  <2> QED
    BY <1>0, <2>1, <2>2, AnswerGrows, Zenon
<1>4. CASE ResizeRedefine(t)
  <2>1. /\ task[t].op = "resize" /\ task[t].op # None /\ UNCHANGED built
        /\ \E a \in Answers(RedefineOf(t, task[t].mem)) : Take(a)
    BY <1>4, Zenon DEF ResizeRedefine, At, None, RedefineOf
  <2>2. task[t].mem \in Memory
    BY <1>0, <2>1, TaskIs, Zenon DEF TasksOK
  <2>3. OrderOK(RedefineOf(t, task[t].mem)) /\ RedefineOf(t, task[t].mem).kind # "provision"
    BY <1>0, <2>1, <2>2, SizedOrderOK, Zenon
  <2> QED
    BY <1>0, <2>1, <2>3, AnswerGrows, Zenon
<1>5. CASE RemoveFiles(t) \/ CopyUnwindFiles(t)
  <2>1. /\ UNCHANGED <<late, built>>
        /\ UNCHANGED disk \/ disk' = [disk EXCEPT ![task[t].u] = 0]
    BY <1>5, Zenon DEF RemoveFiles, CopyUnwindFiles, history
  <2>2. \A v \in Uuid : disk'[v] = disk[v] \/ disk'[v] = 0
    BY <1>0, <2>1, Zenon DEF Disks
  <2> QED
    BY <2>1, <2>2, Zenon DEF Grows, NoProvision
<1>6. CASE RenameDefine(t) \/ StartDesired(t) \/ StopDesired(t) \/ RestartDesired(t)
           \/ StartRecord(t) \/ StopRecord(t) \/ NewRecord(t) \/ CopyRecord(t)
  <2>1. UNCHANGED <<disk, late, built>>
    BY <1>6, Zenon DEF RenameDefine, StartDesired, StopDesired, RestartDesired, Desire, StartRecord,
                       StopRecord, NewRecord, CopyRecord, Record, hosts, history
  <2> QED
    BY <1>1, <2>1, Zenon
<1>7. CASE RemoveRow(t) \/ UnwindRow(t) \/ RenameRow(t) \/ RenameRevert(t) \/ ResizeRow(t)
  <2>1. UNCHANGED <<disk, late, built>>
    BY <1>7, Zenon DEF RemoveRow, UnwindRow, RenameRow, RenameRevert, ResizeRow, hosts, history
  <2> QED
    BY <1>1, <2>1, Zenon
<1> QED
  BY <1>2, <1>3, <1>4, <1>5, <1>6, <1>7, Zenon DEF LeavesFiles

\* So they keep the sizes right.
LEMMA LeavesDisk ==
  ASSUME Types, Types', MakersOK, SizesOK, NEW t \in Slot, LeavesFiles(t)
  PROVE  MakersOK' /\ SizesOK'
<1>1. Step(t) /\ ~NewInsert(t) /\ ~CopyInsert(t)
  <2>1. Step(t)
    BY Zenon DEF LeavesFiles, Step
  <2>2. CASE NewInsert(t) \/ CopyInsert(t)
    <3>1. task[t].at = "insert"
      BY <2>2, Zenon DEF NewInsert, CopyInsert, InsertRow, At
    <3>2. task[t].at # "insert"
      BY Zenon DEF LeavesFiles, StartDomain, StopDomain, RestartReboot, RemoveDomain, RenameUndefine,
           RenameElsewhere, ResizeRedefine, RemoveFiles, CopyUnwindFiles, RenameDefine, StartDesired,
           StopDesired, RestartDesired, Desire, StartRecord, StopRecord, NewRecord, CopyRecord, Record,
           RemoveRow, UnwindRow, RenameRow, RenameRevert, ResizeRow, At
    <3> QED
      BY <3>1, <3>2, Zenon
  <2> QED
    BY <2>1, <2>2, Zenon
<1>2. RowsUnder
  BY <1>1, StepChange, ChangeUnder, Zenon
<1> QED
  BY <1>2, LeavesPast, LeavesGrows, QuietDisk, Zenon

-----------------------------------------------------------------------------
(* The polls, the restore, faults and late orders. *)

\* The background, late orders apart, only takes files away.
LEMMA BackGrows ==
  ASSUME Types, Poll \/ Look \/ Restore \/ Upset, ~LateOrder
  PROVE  (\A v \in Uuid : Grows(v)) /\ NoProvision
<1>0. HostsOK
  BY Zenon DEF Types
<1>1. ASSUME UNCHANGED disk, late' \subseteq late
      PROVE  (\A v \in Uuid : Grows(v)) /\ NoProvision
  BY <1>1, Zenon DEF Grows, NoProvision
<1>2. CASE Poll \/ Look
  <2>1. UNCHANGED <<disk, late>>
    BY <1>2, Zenon DEF Poll, Look, PollList, PollWrite, FirstBootDefine, FirstBootDelete,
                       LookInventory, LookWrite, LookRows, hosts
  <2> QED
    BY <1>1, <2>1, Zenon
<1>3. CASE RestoreStart
  <2>1. restore.at \in Uuid /\ \E a \in Answers(Order("start", Local, restore.at, restore.name[restore.at])) : Take(a)
    BY <1>3, Zenon DEF RestoreStart
  <2>2. PICK u, n : u = restore.at /\ n = restore.name[restore.at]
    OBVIOUS
  <2>3. u \in Uuid /\ n \in Name
    <3>1. /\ restore.batch \cup restore.started \subseteq DOMAIN restore.name
          /\ \A v \in DOMAIN restore.name : restore.name[v] \in Name
          /\ restore.at \in {"batch"} \cup restore.batch
      BY <2>1, RestoreHolds, Zenon DEF Types
    <3>2. restore.at # "batch"
      BY <2>1, LifecycleAssumption, Zenon
    <3> QED
      BY <2>1, <2>2, <3>1, <3>2, Zenon
  <2>4. OrderOK(Order("start", Local, u, n)) /\ Order("start", Local, u, n).kind # "provision"
    BY <2>3, LifecycleAssumption, PlainOrder, SMT
  <2>5. \E a \in Answers(Order("start", Local, u, n)) : Take(a)
    BY <2>1, <2>2, Zenon
  <2> QED
    BY <1>0, <2>4, <2>5, AnswerGrows, Zenon
<1>4. CASE Restore /\ ~RestoreStart
  <2>1. UNCHANGED <<disk, late>>
    BY <1>4, Zenon DEF Restore, RestoreList, RestoreWrite, RestoreBatch, RestoreMark, RestoreWait, hosts
  <2> QED
    BY <1>1, <2>1, Zenon
<1>5. CASE Upset
  <2>1. UNCHANGED disk /\ late' \subseteq late
    BY <1>5, Zenon DEF Upset, ServeCrash, SshdCrash, Reboot, RunnerReboot, GuestHalts, CooldownEnds, hosts
  <2> QED
    BY <1>1, <2>1, Zenon
<1> QED
  BY <1>2, <1>3, <1>4, <1>5, Zenon

\* So it keeps the sizes right.
LEMMA BackDisk ==
  ASSUME Types, Types', MakersOK, SizesOK, RowChange, Quietly, Poll \/ Look \/ Restore \/ Upset, ~LateOrder
  PROVE  MakersOK' /\ SizesOK'
<1>1. RowsUnder
  BY ChangeUnder, Zenon
<1>2. \A x \in Slot : task'[x] = task[x] \/ Past(x)
  BY IdleIs, Zenon DEF Quietly, Past
<1>3. UNCHANGED built
  BY Zenon DEF Quietly
<1> QED
  BY <1>1, <1>2, <1>3, BackGrows, QuietDisk, Zenon

\* An order that was late builds only what nobody makes any more.
LEMMA LateDisk ==
  ASSUME Types, Types', MakersOK, SizesOK, LateOrder
  PROVE  MakersOK' /\ SizesOK'
<1>1. PICK o \in late : \E r : LateIs(o, r)
  BY LateOrderIs, Zenon
<1>2. PICK r : LateIs(o, r)
  BY <1>1, Zenon
<1>3. UNCHANGED <<rows, task, built>>
  BY LateOrderIs, Zenon DEF db
<1>4. NoProvision
  BY <1>2, Zenon DEF LateIs, NoProvision
<1>5. RowsUnder
  BY <1>3, Zenon DEF RowsUnder
<1>6. \A v \in Uuid : \/ disk'[v] = disk[v] \/ disk'[v] = 0
                      \/ o.kind = "provision" /\ v = o.u
                      \/ disk[v] > 0 /\ disk'[v] = o.disk /\ o.disk >= disk[v]
  BY <1>2, Zenon DEF LateIs, OutcomeOK
<1>7. \A v \in Uuid : Grows(v) \/ (o.kind = "provision" /\ v = o.u)
  BY <1>6, Zenon DEF Grows
<1>8. CASE o.kind # "provision"
  <2>1. (\A v \in Uuid : Grows(v)) /\ \A x \in Slot : task'[x] = task[x] \/ Past(x)
    BY <1>3, <1>7, <1>8, Zenon
  <2> QED
    BY <1>3, <1>4, <1>5, <2>1, QuietDisk, Zenon
<1>9. CASE o.kind = "provision"
  <2>1. MakersOK'
    BY <1>3, <1>4, MakersFrame, Zenon
  <2>2. /\ o.u \notin built
        /\ \A t \in Slot : Maker(t) /\ task[t].u = o.u => At(t, "new", "unwind")
    BY <1>9, Zenon DEF MakersOK
  <2>3. \A v \in Uuid : Lower(v)
    <3>1. \A x \in Slot : TaskUnder(x)
      BY <1>3, Zenon DEF TaskUnder, At
    <3> QED
      BY <1>5, <3>1, LowerIs, Zenon
  <2>4. ASSUME NEW x \in Slot, Maker(x), task[x].u = o.u
        PROVE  NewOK(x)' /\ CopyOK(x)'
    <3>1. task'[x].op = "new" /\ task'[x].at = "unwind"
      BY <1>3, <2>2, <2>4, Zenon DEF At
    <3> QED
      BY <3>1, Zenon DEF NewOK, CopyOK, At
  <2>5. {o.u} \cap built = {} /\ \A v \in Uuid \ {o.u} : Grows(v) /\ Lower(v)
    BY <1>7, <2>2, <2>3, Zenon
  <2>6. \A x \in Slot : \/ task'[x] = task[x] /\ (Maker(x) => task[x].u \notin {o.u})
                        \/ NewOK(x)' /\ CopyOK(x)'
    BY <1>3, <2>4, Zenon
  <2>7. built \subseteq built' /\ \A v \in built' \ built : Covers(v)'
    BY <1>3, Zenon
  <2>8. SizesOK'
    BY <2>5, <2>6, <2>7, SizeStep, Zenon
  <2> QED
    BY <2>1, <2>8, Zenon
<1> QED
  BY <1>8, <1>9, Zenon

-----------------------------------------------------------------------------
(* Requests and insertions. *)

\* The instance of a request is one that was minted.
LEMMA MakerUsed ==
  ASSUME Types, MintOK, NEW x \in Slot, task[x].op # None
  PROVE  task[x].u \in used
<1>1. task[x].u \in Uuid
  BY DiskNat, Zenon
<1>2. CASE task[x].at = "insert"
  BY <1>2, Zenon DEF MintOK, Inserting
<1>3. CASE task[x].at # "insert"
  BY <1>1, <1>3, HolderKnown, Zenon DEF MintOK
<1> QED
  BY <1>2, <1>3, Zenon

\* A request that begins makes an instance of its own.
LEMMA AskMakers ==
  ASSUME Types, MintOK, MakersOK, NEW t \in Slot, NEW w \in TaskRec, AskedOf(t, w)
  PROVE  MakersOK'
<1>1. Others(t) /\ task'[t] = w /\ UNCHANGED <<late, built>>
  BY RequestOK, Zenon DEF AskedOf
<1>2. w.op \in {"new", "copy"} => w.at = "insert" /\ w.u \notin used
  BY Zenon DEF AskedOf
<1>3. built \subseteq used /\ \A o \in late : o.u \in used
  <2>1. built \subseteq Uuid /\ \A o \in late : o.u \in Uuid
    BY OrderFields, Zenon DEF Types, HistoryOK, HostsOK
  <2>2. \A u \in built : Known(u)
    BY Zenon DEF Known
  <2>3. \A o \in late : Known(o.u)
    BY Zenon DEF Known, Pending
  <2> QED
    BY <2>1, <2>2, <2>3, Zenon DEF MintOK
<1>4. \A x \in Slot : Maker(x) => task[x].u \in used
  <2>1. \A x \in Slot : Maker(x) => task[x].op # None
    BY Zenon DEF Maker, None
  <2> QED
    BY <2>1, MakerUsed, Zenon
<1>5. \A x \in Slot \ {t} : /\ task'[x] = task[x] /\ (Maker(x)' <=> Maker(x)) /\ (Making(x)' <=> Making(x))
                            /\ At(x, "new", "unwind")' <=> At(x, "new", "unwind")
  BY <1>1, Zenon DEF Others, Maker, Making, At
<1>6. Maker(t)' => task'[t].u \notin used
  BY <1>1, <1>2, Zenon DEF Maker
<1>7. Making(t)' => Maker(t)'
  BY Zenon DEF Maker, Making
<1>8. ASSUME NEW s \in Slot, NEW x \in Slot, Maker(s)', Maker(x)', s # x
      PROVE  task'[s].u # task'[x].u
  <2>1. CASE s = t
    BY <1>4, <1>5, <1>6, <1>8, <2>1, Zenon
  <2>2. CASE x = t
    BY <1>4, <1>5, <1>6, <1>8, <2>2, Zenon
  <2>3. CASE s # t /\ x # t
    BY <1>5, <1>8, <2>3, Zenon DEF MakersOK
  <2> QED
    BY <2>1, <2>2, <2>3, Zenon
<1>9. ASSUME NEW x \in Slot, Making(x)'
      PROVE  task'[x].u \notin built'
  <2>1. CASE x = t
    BY <1>1, <1>3, <1>6, <1>7, <1>9, <2>1, Zenon
  <2>2. CASE x # t
    BY <1>1, <1>5, <1>9, <2>2, Zenon DEF MakersOK
  <2> QED
    BY <2>1, <2>2, Zenon
<1>10. ASSUME NEW o \in late', o.kind = "provision"
       PROVE  o.u \notin built'
  BY <1>1, <1>10, Zenon DEF MakersOK
<1>11. ASSUME NEW o \in late', o.kind = "provision", NEW x \in Slot, Maker(x)', task'[x].u = o.u
       PROVE  At(x, "new", "unwind")'
  <2>1. o \in late /\ o.u \in used
    BY <1>1, <1>3, <1>11, Zenon
  <2>2. x # t
    BY <1>6, <1>11, <2>1, Zenon
  <2> QED
    BY <1>5, <1>11, <2>1, <2>2, Zenon DEF MakersOK
<1> QED
  BY <1>8, <1>9, <1>10, <1>11, Zenon DEF MakersOK

\* And it has a whole source when it is a copy of a whole one.
LEMMA AskSizes ==
  ASSUME Types, MintOK, SizesOK, NEW t \in Slot, NEW w \in TaskRec, AskedOf(t, w)
  PROVE  SizesOK'
<1>1. Types' /\ Others(t) /\ task'[t] = w /\ UNCHANGED <<rows, disk, built>>
  BY RequestOK, Zenon DEF AskedOf, db, hosts
<1>2. RowsUnder /\ \A v \in Uuid : Grows(v)
  BY <1>1, Zenon DEF RowsUnder, Grows
<1>3. \A x \in Slot : TaskUnder(x)
  <2>1. TaskUnder(t)
    BY <1>1, Zenon DEF AskedOf, TaskUnder, At
  <2>2. \A x \in Slot \ {t} : TaskUnder(x)
    BY <1>1, Zenon DEF Others, TaskUnder, At
  <2> QED
    BY <2>1, <2>2, Zenon
<1>4. \A v \in Uuid : Lower(v)
  BY <1>1, <1>2, <1>3, LowerIs, Zenon
<1>5. NewOK(t)'
  BY <1>1, Zenon DEF AskedOf, NewOK, At
<1>6. CopyOK(t)'
  <2>1. CASE ~(w.op = "copy" /\ w.whole)
    BY <1>1, <2>1, Zenon DEF CopyOK
  <2>2. CASE w.op = "copy" /\ w.whole
    <3>1. w.at = "insert" /\ rows[w.src] # NoRow /\ w.src \in built /\ (~w.grow => ~(w.row.disk > rows[w.src].disk))
      BY <2>2, Zenon DEF AskedOf
    <3>2. PICK a, b, c : a = w.row.disk /\ b = rows[w.src].disk /\ c = disk[w.src]
      OBVIOUS
    <3>3. w.src \in Uuid /\ w.row \in Row
      <4>1. w.op # None
        BY <2>2, Zenon DEF None
      <4> QED
        BY <2>2, <4>1, TaskIs, Zenon
    <3>4. a \in Nat /\ b \in Nat /\ c \in Nat
      <4>1. w.row.disk \in Nat
        BY <3>3, RowFields, LifecycleAssumption, Zenon
      <4>2. b \in Nat /\ c \in Nat
        BY <3>1, <3>2, <3>3, DiskNat, Zenon
      <4> QED
        BY <3>2, <4>1, <4>2, Zenon
    <3>5. c > 0 => b <= c
      BY <3>1, <3>2, Zenon DEF SizesOK, Covers, Below
    <3>6. ~(a > b) /\ c > 0 => c >= a
      BY <3>4, <3>5, SMT
    <3>7. ~w.grow /\ disk'[w.src] > 0 => disk'[w.src] >= w.row.disk
      BY <1>1, <3>1, <3>2, <3>6, Zenon
    <3>8. w.src \in built'
      BY <1>1, <3>1, Zenon
    <3> QED
      BY <1>1, <3>1, <3>7, <3>8, Zenon DEF CopyOK
  <2> QED
    BY <2>1, <2>2, Zenon
<1>7. {} \cap built = {} /\ \A v \in Uuid \ {} : Grows(v) /\ Lower(v)
  BY <1>2, <1>4, Zenon
<1>8. \A x \in Slot : \/ task'[x] = task[x] /\ (Maker(x) => task[x].u \notin {})
                      \/ NewOK(x)' /\ CopyOK(x)'
  BY <1>1, <1>5, <1>6, Zenon DEF Others
<1>9. built \subseteq built' /\ \A v \in built' \ built : Covers(v)'
  BY <1>1, Zenon
<1> QED
  BY <1>1, <1>7, <1>8, <1>9, SizeStep, Zenon

\* A step of the request that makes task[t].u.
LEMMA MakerStep ==
  ASSUME Types, Types', MakersOK, SizesOK, NEW t \in Slot, Maker(t), Others(t), task[t].u \notin built,
         \A v \in Uuid \ {task[t].u} : Grows(v) /\ Lower(v), NewOK(t)' /\ CopyOK(t)',
         built \subseteq built', \A v \in built' \ built : Covers(v)'
  PROVE  SizesOK'
<1>1. PICK u : u = task[t].u
  OBVIOUS
<1>2. {u} \cap built = {} /\ \A v \in Uuid \ {u} : Grows(v) /\ Lower(v)
  BY <1>1, Zenon
<1>3. \A x \in Slot : \/ task'[x] = task[x] /\ (Maker(x) => task[x].u \notin {u})
                      \/ NewOK(x)' /\ CopyOK(x)'
  BY <1>1, Zenon DEF Others, MakersOK
<1> QED
  BY <1>2, <1>3, SizeStep, Zenon

\* A request other than a resize asks for nothing by moving on.
LEMMA MovesUnder ==
  ASSUME NEW t \in Slot, NEW s, Moves(t, s), task[t].op # "resize"
  PROVE  \A x \in Slot : TaskUnder(x)
<1>1. TaskUnder(t)
  BY Zenon DEF Moves, SameTask, TaskUnder, At
<1>2. \A x \in Slot \ {t} : TaskUnder(x)
  BY Zenon DEF Moves, Others, TaskUnder, At
<1> QED
  BY <1>1, <1>2, Zenon

\* An insertion is for an instance that has no file yet.
LEMMA InsertDisk ==
  ASSUME Types, MintOK, MakersOK, SizesOK, NEW t \in Slot, NewInsert(t) \/ CopyInsert(t)
  PROVE  MakersOK' /\ SizesOK'
<1>0. Types' /\ RowsOK
  BY InsertOK, Zenon DEF Types
<1>1. /\ UNCHANGED <<disk, late, built>> /\ Inserting(t) /\ task[t].u \in Uuid /\ task[t].row \in Row
      /\ \/ Ends(t) /\ UNCHANGED rows
         \/ task[t].op = "new" /\ Inserts(t, "build")
         \/ task[t].op = "copy" /\ Inserts(t, "file")
  BY InsertIs, Zenon DEF hosts, history
<1>2. (\A v \in Uuid : Grows(v)) /\ NoProvision
  BY <1>1, Zenon DEF Grows, NoProvision
<1>3. CASE Ends(t) /\ UNCHANGED rows
  <2>1. RowsUnder
    BY <1>3, Zenon DEF RowsUnder
  <2>2. \A x \in Slot : task'[x] = task[x] \/ Past(x)
    BY <1>3, IdleIs, Zenon DEF Ends, Others, Past
  <2> QED
    BY <1>0, <1>1, <1>2, <2>1, <2>2, QuietDisk, Zenon
<1>4. ASSUME NEW s \in {"build", "file"}, Inserts(t, s), task[t].op \in {"new", "copy"},
             task[t].op = "new" <=> s = "build"
      PROVE  MakersOK' /\ SizesOK'
  <2>1. PICK u, r : u = task[t].u /\ r = task[t].row
    OBVIOUS
  <2>2. Moves(t, s) /\ Others(t) /\ rows' = Inserted(rows, u, r) /\ u \in Uuid /\ r \in Row
    BY <1>1, <1>4, <2>1, Zenon DEF Inserts, Moves
  <2>3. rows'[u] = r /\ \A v \in Uuid \ {u} : rows'[v] = rows[v]
    BY <1>0, <2>2, InsertedOK, SMT
  <2>4. /\ task'[t].op = task[t].op /\ task'[t].u = u /\ task'[t].row = r /\ task'[t].at = s
        /\ task[t].op = "copy" => /\ task'[t].src = task[t].src /\ task'[t].grow = task[t].grow
                                  /\ task'[t].whole = task[t].whole
    BY <2>1, <2>2, Zenon DEF Moves, SameTask
  <2>5. task[t].at = "insert" /\ Maker(t) /\ Making(t) /\ ~At(t, "new", "unwind")
    BY <1>1, <1>4, Zenon DEF Inserting, Maker, Making, At
  <2>6. MakersOK'
    <3>1. Goes(t)
      BY <2>1, <2>4, <2>5, Zenon DEF Goes
    <3>2. \A x \in Slot : task'[x] = task[x] \/ Past(x) \/ Goes(x)
      BY <2>2, <3>1, Zenon DEF Others
    <3> QED
      BY <1>1, <1>2, <3>2, MakersFrame, Zenon
  <2>7. ~Known(u) /\ u \notin built
    BY <1>1, <2>1, <2>5, Zenon DEF MintOK, Known
  <2>8. disk'[u] = 0
    BY <1>1, <2>7, Zenon DEF Known
  <2>9. task[t].op # "resize"
    BY <1>4, Zenon
  <2>10. \A x \in Slot : TaskUnder(x)
    BY <2>2, <2>9, MovesUnder, Zenon
  <2>11. ASSUME NEW v \in Uuid \ {u}
         PROVE  Lower(v)
    <3>1. ASSUME NEW d \in Nat, Below(v, d)
          PROVE  Below(v, d)'
      <4>1. rows'[v] = rows[v]
        BY <2>3, Zenon
      <4> QED
        BY <1>0, <2>10, <3>1, <4>1, BelowStays, Zenon
    <3> QED
      BY <3>1, Zenon DEF Lower
  <2>12. Below(u, r.disk)'
    <3>1. r.disk \in Nat
      BY <2>2, RowFields, LifecycleAssumption, Zenon
    <3>2. r.disk <= r.disk
      BY <3>1, SMT
    <3>3. ASSUME NEW x \in Slot, At(x, "resize", "row")', task'[x].u = u
          PROVE  FALSE
      <4>1. x # t
        BY <2>4, <2>9, <3>3, Zenon DEF At
      <4>2. task[x].op # None /\ task[x].at # "insert" /\ task[x].u = u
        BY <2>2, <3>3, <4>1, Zenon DEF At, Others, None
      <4> QED
        BY <2>7, <4>2, HolderKnown, Zenon
    <3> QED
      BY <2>3, <3>2, <3>3, Zenon DEF Below
  <2>13. NewOK(t)'
    BY <2>4, <2>8, <2>12, Zenon DEF NewOK
  <2>14. CopyOK(t)'
    <3>1. CASE ~(task[t].op = "copy" /\ task[t].whole)
      BY <2>4, <3>1, Zenon DEF CopyOK
    <3>2. CASE task[t].op = "copy" /\ task[t].whole
      <4>1. /\ task[t].src \in built
            /\ ~task[t].grow /\ disk[task[t].src] > 0 => disk[task[t].src] >= task[t].row.disk
        BY <2>5, <3>2, Zenon DEF SizesOK, CopyOK
      <4>2. /\ task'[t].src \in built'
            /\ ~task'[t].grow /\ disk'[task'[t].src] > 0 => disk'[task'[t].src] >= task'[t].row.disk
        BY <1>1, <2>1, <2>4, <3>2, <4>1, Zenon
      <4>3. task'[t].at = "file"
        BY <1>4, <2>4, <3>2, Zenon
      <4> QED
        BY <2>4, <2>8, <2>12, <4>2, <4>3, Zenon DEF CopyOK
    <3> QED
      BY <3>1, <3>2, Zenon
  <2>15. \A v \in Uuid \ {task[t].u} : Grows(v) /\ Lower(v)
    BY <1>2, <2>1, <2>11, Zenon
  <2>16. task[t].u \notin built /\ built \subseteq built' /\ \A v \in built' \ built : Covers(v)'
    BY <1>1, <2>1, <2>7, Zenon
  <2>17. SizesOK'
    BY <1>0, <2>2, <2>5, <2>13, <2>14, <2>15, <2>16, MakerStep, Zenon
  <2> QED
    BY <2>6, <2>17, Zenon
<1> QED
  BY <1>1, <1>3, <1>4, Zenon

-----------------------------------------------------------------------------
(* The steps that build. *)

\* Nothing more is asked when neither rows nor resizes move.
LEMMA BelowSame ==
  ASSUME Types, Types', UNCHANGED rows, \A x \in Slot : TaskUnder(x)
  PROVE  \A v \in Uuid, d \in Nat : Below(v, d) => Below(v, d)'
BY BelowStays, Zenon

\* A request that goes on making.
LEMMA MakerGoes ==
  ASSUME Types, Types', UNCHANGED rows, NEW t \in Slot, Making(t), NEW s, Moves(t, s)
  PROVE  /\ Goes(t) /\ Others(t) /\ Maker(t) /\ task'[t].u = task[t].u /\ task[t].u \in Uuid
         /\ task'[t].at = s /\ task'[t].op = task[t].op /\ task'[t].row = task[t].row
         /\ task[t].op = "copy" => task'[t].grow = task[t].grow /\ task'[t].whole = task[t].whole
         /\ \A x \in Slot : task'[x] = task[x] \/ Past(x) \/ Goes(x)
         /\ \A v \in Uuid : Lower(v)
         /\ \A v \in Uuid, d \in Nat : Below(v, d) => Below(v, d)'
<1>1. Maker(t) /\ ~At(t, "new", "unwind") /\ task[t].op # "resize" /\ task[t].op # None
  BY Zenon DEF Making, Maker, At, None
<1>2. /\ Others(t) /\ task'[t].u = task[t].u /\ task'[t].at = s /\ task'[t].op = task[t].op
      /\ task'[t].row = task[t].row
      /\ task[t].op = "copy" => task'[t].grow = task[t].grow /\ task'[t].whole = task[t].whole
  BY Zenon DEF Moves, SameTask
<1>3. Goes(t)
  BY <1>1, <1>2, Zenon DEF Goes
<1>4. \A x \in Slot : TaskUnder(x)
  BY <1>1, MovesUnder, Zenon
<1>5. RowsUnder
  BY Zenon DEF RowsUnder
<1>6. task[t].u \in Uuid
  BY <1>1, TaskIs, Zenon DEF Types, TasksOK
<1>7. \A x \in Slot : task'[x] = task[x] \/ Past(x) \/ Goes(x)
  BY <1>2, <1>3, Zenon DEF Others
<1>8. \A v \in Uuid : Lower(v)
  BY <1>4, <1>5, LowerIs, Zenon
<1>9. \A v \in Uuid, d \in Nat : Below(v, d) => Below(v, d)'
  BY <1>4, BelowSame, Zenon
<1> QED
  BY <1>1, <1>2, <1>3, <1>6, <1>7, <1>8, <1>9, Zenon

\* A provision makes a file of the size of the row, or leaves the instance
\* unbuilt.
LEMMA ProvisionDisk ==
  ASSUME Types, Types', MakersOK, SizesOK, NEW t \in Slot, NewProvision(t)
  PROVE  MakersOK' /\ SizesOK'
<1>0. TasksOK /\ HostsOK
  BY Zenon DEF Types
<1>1. At(t, "new", "build") /\ Making(t) /\ task[t].op # None /\ UNCHANGED rows
  BY Zenon DEF NewProvision, At, Making, None, db
<1>2. PICK a \in Answers(ProvisionOf(t)) :
        /\ Take(a)
        /\ Goto(t, IF a.code = "ok" THEN "record" ELSE "unwind")
        /\ built' = IF a.code = "ok" THEN built \cup {task[t].u} ELSE built
  BY Zenon DEF NewProvision, ProvisionOf
<1>3. PICK o : o = ProvisionOf(t)
  OBVIOUS
<1>4. OrderOK(o) /\ o.u = task[t].u /\ o.kind = "provision" /\ o.disk = task[t].row.disk
  BY <1>0, <1>1, <1>3, SizedOrderOK, Zenon
<1>5. AnswerOK(o, a)
  BY <1>0, <1>2, <1>3, <1>4, AnswersOK, Zenon
<1>6. PICK s : s = IF a.code = "ok" THEN "record" ELSE "unwind"
  OBVIOUS
<1>7. Moves(t, s)
  <2>1. s \in Place /\ Goto(t, s)
    BY <1>2, <1>6, Zenon DEF Place
  <2> QED
    BY <1>0, <1>1, <2>1, AfterGoto, Zenon
<1>8. PICK u : u = task[t].u
  OBVIOUS
<1>9. /\ Goes(t) /\ Others(t) /\ Maker(t) /\ task'[t].u = u /\ u \in Uuid
      /\ task'[t].at = s /\ task'[t].op = "new"
      /\ \A x \in Slot : task'[x] = task[x] \/ Past(x) \/ Goes(x)
      /\ \A v \in Uuid : Lower(v)
      /\ \A v \in Uuid, d \in Nat : Below(v, d) => Below(v, d)'
  BY <1>1, <1>7, <1>8, MakerGoes, Zenon DEF At
<1>10. u \notin built
  BY <1>1, <1>8, Zenon DEF MakersOK
<1>11. disk' = a.disk /\ late' = a.late
  BY <1>2, Zenon DEF Take
<1>12. \A v \in Uuid \ {u} : Grows(v) /\ Lower(v)
  <2>1. \A v \in Uuid \ {u} : a.disk[v] = disk[v] \/ a.disk[v] = 0
    BY <1>4, <1>5, <1>8, Zenon DEF AnswerOK, OutcomeOK
  <2> QED
    BY <1>9, <1>11, <2>1, Zenon DEF Grows
<1>13. NewOK(t)' /\ CopyOK(t)'
  BY <1>6, <1>9, Zenon DEF NewOK, CopyOK, At
<1>14. /\ \A v, w \in Slot : Maker(v)' /\ Maker(w)' /\ v # w => task'[v].u # task'[w].u
       /\ \A v \in Slot : Maker(v)' => Maker(v) /\ task'[v].u = task[v].u
       /\ \A v \in Slot : Making(v)' => Making(v) /\ task'[v].u = task[v].u
       /\ \A v \in Slot : At(v, "new", "unwind") => At(v, "new", "unwind")' \/ ~Maker(v)'
  BY <1>9, MakersKept, Zenon
<1>15. CASE a.code = "ok"
  <2>1. built' = built \cup {u} /\ s = "record"
    BY <1>2, <1>6, <1>8, <1>15, Zenon
  <2>2. \A l \in late' : l \in late /\ l.u # u
    BY <1>4, <1>5, <1>8, <1>11, <1>15, Zenon DEF AnswerOK
  <2>3. ~Making(t)'
    BY <1>9, <2>1, Zenon DEF Making
  <2>4. \A x \in Slot : Making(x)' => task'[x].u \notin built'
    <3>1. \A x \in Slot \ {t} : Maker(x) => task[x].u # u
      BY <1>8, <1>9, Zenon DEF MakersOK
    <3>2. \A x \in Slot : Making(x) => Maker(x)
      BY Zenon DEF Making, Maker
    <3> QED
      BY <1>14, <2>1, <2>3, <3>1, <3>2, Zenon DEF MakersOK
  <2>5. MakersOK'
    <3>1. ASSUME NEW l \in late', l.kind = "provision"
          PROVE  /\ l.u \notin built'
                 /\ \A x \in Slot : Maker(x)' /\ task'[x].u = l.u => At(x, "new", "unwind")'
      BY <1>14, <2>1, <2>2, <3>1, Zenon DEF MakersOK
    <3> QED
      BY <1>14, <2>4, <3>1, Zenon DEF MakersOK
  <2>6. PICK d : d = task[t].row.disk
    OBVIOUS
  <2>7. disk'[u] = d
    BY <1>4, <1>5, <1>8, <1>11, <1>15, <2>6, Zenon DEF AnswerOK, OutcomeOK
  <2>8. Below(u, d)'
    <3>1. d \in Nat
      BY <1>1, <2>6, DiskNat, Zenon
    <3>2. Below(u, d)
      BY <1>1, <1>8, <2>6, Zenon DEF SizesOK, NewOK
    <3> QED
      BY <1>9, <3>1, <3>2, Zenon
  <2>9. Covers(u)'
    BY <2>7, <2>8, Zenon DEF Covers, Below
  <2>10. task[t].u \notin built /\ built \subseteq built' /\ \A v \in built' \ built : Covers(v)'
    BY <1>8, <1>10, <2>1, <2>9, Zenon
  <2>11. SizesOK'
    BY <1>8, <1>9, <1>12, <1>13, <2>10, MakerStep, Zenon
  <2> QED
    BY <2>5, <2>11, Zenon
<1>16. CASE a.code # "ok"
  <2>1. built' = built /\ s = "unwind"
    BY <1>2, <1>6, <1>16, Zenon
  <2>2. ASSUME NEW l \in late', l.kind = "provision"
        PROVE  /\ l.u \notin built'
               /\ \A x \in Slot : Maker(x)' /\ task'[x].u = l.u => At(x, "new", "unwind")'
    <3>1. CASE l \in late
      BY <1>14, <2>1, <2>2, <3>1, Zenon DEF MakersOK
    <3>2. CASE l.u = u
      <4>1. At(t, "new", "unwind")'
        BY <1>9, <2>1, Zenon DEF At
      <4> QED
        BY <1>9, <1>10, <1>14, <2>1, <3>2, <4>1, Zenon DEF Maker
    <3> QED
      BY <1>4, <1>5, <1>8, <1>11, <3>1, <3>2, Zenon DEF AnswerOK, Due
  <2>3. MakersOK'
    <3>1. \A x \in Slot : Making(x)' => task'[x].u \notin built'
      BY <1>14, <2>1, Zenon DEF MakersOK
    <3> QED
      BY <1>14, <2>2, <3>1, Zenon DEF MakersOK
  <2>4. task[t].u \notin built /\ built \subseteq built' /\ \A v \in built' \ built : Covers(v)'
    BY <1>8, <1>10, <2>1, Zenon
  <2>5. SizesOK'
    BY <1>8, <1>9, <1>12, <1>13, <2>4, MakerStep, Zenon
  <2> QED
    BY <2>3, <2>5, Zenon
<1> QED
  BY <1>15, <1>16, Zenon

\* A step of a copy on its own instance.
LEMMA CopyMakes ==
  ASSUME Types, Types', MakersOK, SizesOK, NEW t \in Slot, Making(t), task[t].op = "copy",
         UNCHANGED <<rows, built>>, NEW s, Moves(t, s), NoProvision,
         \A v \in Uuid \ {task[t].u} : Grows(v), task[t].whole => CopyOK(t)'
  PROVE  MakersOK' /\ SizesOK'
<1>1. /\ Others(t) /\ Maker(t) /\ task'[t].op = "copy" /\ task'[t].whole = task[t].whole
      /\ \A x \in Slot : task'[x] = task[x] \/ Past(x) \/ Goes(x)
      /\ \A v \in Uuid : Lower(v)
  BY MakerGoes, Zenon
<1>2. MakersOK'
  BY <1>1, MakersFrame, Zenon
<1>3. NewOK(t)' /\ CopyOK(t)'
  BY <1>1, Zenon DEF NewOK, CopyOK, At
<1>4. task[t].u \notin built
  BY Zenon DEF MakersOK
<1>5. \A v \in Uuid \ {task[t].u} : Grows(v) /\ Lower(v)
  BY <1>1, Zenon
<1>6. built \subseteq built' /\ \A v \in built' \ built : Covers(v)'
  BY Zenon
<1>7. SizesOK'
  BY <1>1, <1>3, <1>4, <1>5, <1>6, MakerStep, Zenon
<1> QED
  BY <1>2, <1>7, Zenon

\* The file of a copy is as large as its source, and grown when the row asks
\* for more.
LEMMA CopyFileDisk ==
  ASSUME Types, Types', MakersOK, SizesOK, NEW t \in Slot, CopyFile(t)
  PROVE  MakersOK' /\ SizesOK'
<1>0. TasksOK /\ task[t] \in TaskRec /\ disk \in Disks
  BY Zenon DEF Types, HostsOK, TasksOK
<1>1. /\ task[t].op = "copy" /\ task[t].at = "file" /\ Making(t) /\ task[t].op # None
      /\ UNCHANGED <<rows, late, built>>
  BY Zenon DEF CopyFile, At, Making, None, db, history
<1>2. PICK u, src, d : u = task[t].u /\ src = task[t].src /\ d = task[t].row.disk
  BY Zenon
<1>3. u \in Uuid /\ src \in Uuid /\ d \in Nat
  BY <1>0, <1>1, <1>2, TaskIs, DiskNat, Zenon
<1>4. NoProvision
  BY <1>1, Zenon DEF NoProvision
<1>5. CASE UNCHANGED disk /\ Goto(t, "files")
  <2>1. Moves(t, "files") /\ task'[t].at = "files"
    BY <1>0, <1>1, <1>5, AfterGoto, Zenon DEF Place, Moves
  <2>2. CopyOK(t)' /\ \A v \in Uuid \ {u} : Grows(v)
    BY <1>5, <2>1, Zenon DEF CopyOK, Grows
  <2> QED
    BY <1>1, <1>2, <1>4, <2>1, <2>2, CopyMakes, Zenon
<1>6. CASE /\ disk[src] > 0 /\ disk' = [disk EXCEPT ![u] = disk[src]]
           /\ Goto(t, IF task[t].grow THEN "grow" ELSE "seed")
  <2>1. PICK s : s = IF task[t].grow THEN "grow" ELSE "seed"
    OBVIOUS
  <2>2. Moves(t, s)
    <3>1. s \in Place /\ Goto(t, s)
      BY <1>6, <2>1, Zenon DEF Place
    <3> QED
      BY <1>0, <1>1, <3>1, AfterGoto, Zenon
  <2>3. PICK c : c = disk[src]
    OBVIOUS
  <2>4. disk'[u] = c /\ \A v \in Uuid \ {u} : disk'[v] = disk[v]
    BY <1>0, <1>3, <1>6, <2>3, Zenon DEF Disks
  <2>5. \A v \in Uuid \ {u} : Grows(v)
    BY <2>4, Zenon DEF Grows
  <2>6. /\ task'[t].u = u /\ task'[t].at = s /\ task'[t].op = "copy" /\ task'[t].row = task[t].row
        /\ \A v \in Uuid, e \in Nat : Below(v, e) => Below(v, e)'
    BY <1>1, <1>2, <2>2, MakerGoes, Zenon
  <2>7. ASSUME task[t].whole
        PROVE  CopyOK(t)'
    <3>1. Below(u, d) /\ (~task[t].grow /\ c > 0 => c >= d)
      BY <1>1, <1>2, <2>3, <2>7, Zenon DEF SizesOK, CopyOK
    <3>2. Below(u, d)'
      BY <1>3, <2>6, <3>1, Zenon
    <3>3. CASE task[t].grow
      <4>1. s = "grow" /\ task'[t].row.disk = d
        BY <1>2, <2>1, <2>6, <3>3, Zenon
      <4> QED
        BY <2>6, <3>2, <4>1, Zenon DEF CopyOK, Below
    <3>4. CASE ~task[t].grow
      <4>1. s = "seed" /\ c > 0 /\ c >= d
        BY <1>6, <2>1, <2>3, <3>1, <3>4, Zenon
      <4>2. c \in Nat
        BY <1>3, <2>3, DiskNat, Zenon
      <4>3. d <= c
        BY <1>3, <4>1, <4>2, SMT
      <4>4. Below(u, c)'
        BY <1>3, <3>2, <4>2, <4>3, RisesNext, Zenon
      <4>5. Covers(u)'
        BY <2>4, <4>4, Zenon DEF Covers, Below
      <4>6. Covers(task[t].u)'
        BY <2>6, <4>5, Zenon DEF Covers, Below
      <4> QED
        BY <2>6, <4>1, <4>6, Zenon DEF CopyOK
    <3> QED
      BY <3>3, <3>4, Zenon
  <2> QED
    BY <1>1, <1>2, <1>4, <2>2, <2>5, <2>7, CopyMakes, Zenon
<1> QED
  BY <1>2, <1>5, <1>6, Zenon DEF CopyFile

\* A grown copy covers its row.
LEMMA CopyGrowDisk ==
  ASSUME Types, Types', MakersOK, SizesOK, NEW t \in Slot, CopyGrow(t)
  PROVE  MakersOK' /\ SizesOK'
<1>0. TasksOK /\ HostsOK /\ task[t] \in TaskRec
  BY Zenon DEF Types, TasksOK
<1>1. /\ task[t].op = "copy" /\ task[t].at = "grow" /\ Making(t) /\ task[t].op # None
      /\ UNCHANGED <<rows, built>>
  BY Zenon DEF CopyGrow, At, Making, None, db
<1>2. PICK u, d : u = task[t].u /\ d = task[t].row.disk
  OBVIOUS
<1>3. u \in Uuid /\ d \in Nat /\ d \in Disk
  BY <1>0, <1>1, <1>2, TaskIs, RowFields, DiskNat, Zenon
<1>4. PICK o : o = GrowOf(t, d)
  OBVIOUS
<1>5. OrderOK(o) /\ o.u = u /\ o.kind = "grow" /\ o.kind # "provision" /\ o.disk = d
  BY <1>0, <1>1, <1>2, <1>3, <1>4, SizedOrderOK, Zenon
<1>6. PICK a \in Answers(o) : Take(a) /\ Goto(t, IF a.code = "ok" THEN "seed" ELSE "files")
  BY <1>2, <1>4, Zenon DEF CopyGrow, GrowOf
<1>7. PICK s : s = IF a.code = "ok" THEN "seed" ELSE "files"
  OBVIOUS
<1>8. Moves(t, s)
  <2>1. s \in Place /\ Goto(t, s)
    BY <1>6, <1>7, Zenon DEF Place
  <2> QED
    BY <1>0, <1>1, <2>1, AfterGoto, Zenon
<1>9. (\A v \in Uuid : Grows(v)) /\ NoProvision
  BY <1>0, <1>5, <1>6, AnswerGrows, Zenon
<1>10. /\ task'[t].u = u /\ task'[t].at = s /\ task'[t].op = "copy"
       /\ \A v \in Uuid, e \in Nat : Below(v, e) => Below(v, e)'
  BY <1>1, <1>2, <1>8, MakerGoes, Zenon
<1>11. ASSUME task[t].whole
       PROVE  CopyOK(t)'
  <2>1. CASE a.code # "ok"
    <3>1. s = "files"
      BY <1>7, <2>1, Zenon
    <3> QED
      BY <1>10, <3>1, Zenon DEF CopyOK
  <2>2. CASE a.code = "ok"
    <3>1. s = "seed"
      BY <1>7, <2>2, Zenon
    <3>2. disk'[u] = d /\ disk[u] > 0
      BY <1>5, <1>6, <2>2, AnswersOK, <1>0, Zenon DEF AnswerOK, OutcomeOK, Take
    <3>3. Below(u, d) \/ Below(u, disk[u])
      BY <1>1, <1>2, <1>11, <3>2, Zenon DEF SizesOK, CopyOK
    <3>4. d > 0
      BY <1>1, <1>2, DiskNat, Zenon
    <3>5. PICK c : c = disk[u]
      OBVIOUS
    <3>6. c \in Nat /\ c <= d
      <4>1. disk[u] \in Nat /\ (disk'[u] > 0 => disk[u] <= disk'[u])
        BY <1>3, <1>9, GrowsOK, Zenon
      <4> QED
        BY <3>2, <3>4, <3>5, <4>1, Zenon
    <3>7. Below(u, d)'
      <4>1. Below(u, c) => Below(u, d)
        BY <1>3, <3>6, BelowRises, Zenon
      <4> QED
        BY <1>3, <1>10, <3>3, <3>5, <4>1, Zenon
    <3>8. Covers(task[t].u)'
      BY <1>10, <3>2, <3>7, Zenon DEF Covers, Below
    <3> QED
      BY <1>10, <3>1, <3>8, Zenon DEF CopyOK
  <2> QED
    BY <2>1, <2>2, Zenon
<1> QED
  BY <1>1, <1>8, <1>9, <1>11, CopyMakes, Zenon

\* The seed does not touch the disk.
LEMMA CopySeedDisk ==
  ASSUME Types, Types', MakersOK, SizesOK, NEW t \in Slot, CopySeed(t)
  PROVE  MakersOK' /\ SizesOK'
<1>0. TasksOK
  BY Zenon DEF Types
<1>1. /\ task[t].op = "copy" /\ task[t].at = "seed" /\ Making(t) /\ task[t].op # None
      /\ UNCHANGED <<rows, disk, late, built>>
  BY Zenon DEF CopySeed, At, Making, None, db, history
<1>2. PICK s \in {"create", "files"} : Goto(t, s)
  BY Zenon DEF CopySeed
<1>3. Moves(t, s)
  <2>1. s \in Place
    BY Zenon DEF Place
  <2> QED
    BY <1>0, <1>1, <1>2, <2>1, AfterGoto, Zenon
<1>4. (\A v \in Uuid : Grows(v)) /\ NoProvision
  BY <1>1, Zenon DEF Grows, NoProvision
<1>5. PICK u, c : u = task[t].u /\ c = disk[u]
  OBVIOUS
<1>6. /\ task'[t].u = u /\ u \in Uuid /\ task'[t].at = s /\ task'[t].op = "copy"
      /\ \A v \in Uuid, e \in Nat : Below(v, e) => Below(v, e)'
  BY <1>1, <1>3, <1>5, MakerGoes, Zenon
<1>7. ASSUME task[t].whole
      PROVE  CopyOK(t)'
  <2>1. c > 0 => Below(u, c)
    BY <1>1, <1>5, <1>7, Zenon DEF SizesOK, CopyOK, Covers
  <2>2. c \in Nat /\ disk'[u] = c
    BY <1>1, <1>5, <1>6, DiskNat, Zenon
  <2>3. c > 0 => Below(u, c)'
    BY <1>6, <2>1, <2>2, Zenon
  <2>4. Covers(task[t].u)'
    BY <1>6, <2>2, <2>3, Zenon DEF Covers, Below
  <2> QED
    BY <1>6, <2>4, Zenon DEF CopyOK
<1> QED
  BY <1>1, <1>3, <1>4, <1>7, CopyMakes, Zenon

\* A copy is built when its domain is created, and its file covers its row by
\* then.
LEMMA CopyCreateDisk ==
  ASSUME Types, Types', MakersOK, SizesOK, NEW t \in Slot, CopyCreate(t)
  PROVE  MakersOK' /\ SizesOK'
<1>0. TasksOK
  BY Zenon DEF Types
<1>1. /\ task[t].op = "copy" /\ task[t].at = "create" /\ Making(t) /\ task[t].op # None
      /\ UNCHANGED <<rows, disk, late>>
  BY Zenon DEF CopyCreate, At, Making, None, db
<1>2. PICK s \in {"record", "files"} : Goto(t, s)
  BY Zenon DEF CopyCreate
<1>3. Moves(t, s)
  <2>1. s \in Place
    BY Zenon DEF Place
  <2> QED
    BY <1>0, <1>1, <1>2, <2>1, AfterGoto, Zenon
<1>4. (\A v \in Uuid : Grows(v)) /\ NoProvision
  BY <1>1, Zenon DEF Grows, NoProvision
<1>5. PICK u, c : u = task[t].u /\ c = disk[u]
  OBVIOUS
<1>6. /\ Others(t) /\ Maker(t) /\ task'[t].u = u /\ u \in Uuid /\ task'[t].at = s /\ task'[t].op = "copy"
      /\ \A x \in Slot : task'[x] = task[x] \/ Past(x) \/ Goes(x)
      /\ \A v \in Uuid : Lower(v)
      /\ \A v \in Uuid, e \in Nat : Below(v, e) => Below(v, e)'
  BY <1>1, <1>3, <1>5, MakerGoes, Zenon
<1>7. built' = built \/ (task[t].whole /\ built' = built \cup {u})
  BY <1>5, Zenon DEF CopyCreate
<1>8. NewOK(t)' /\ CopyOK(t)' /\ ~Making(t)'
  BY <1>6, Zenon DEF NewOK, CopyOK, At, Making
<1>9. task[t].whole => Covers(u)'
  <2>1. task[t].whole /\ c > 0 => Below(u, c)
    BY <1>1, <1>5, Zenon DEF SizesOK, CopyOK, Covers
  <2>2. c \in Nat /\ disk'[u] = c
    BY <1>1, <1>5, <1>6, DiskNat, Zenon
  <2>3. task[t].whole /\ c > 0 => Below(u, c)'
    BY <1>6, <2>1, <2>2, Zenon
  <2> QED
    BY <2>2, <2>3, Zenon DEF Covers, Below
<1>10. task[t].u \notin built /\ built \subseteq built' /\ \A v \in built' \ built : Covers(v)'
  BY <1>1, <1>5, <1>7, <1>9, Zenon DEF MakersOK
<1>11. SizesOK'
  <2>1. \A v \in Uuid \ {task[t].u} : Grows(v) /\ Lower(v)
    BY <1>4, <1>6, Zenon
  <2> QED
    BY <1>6, <1>8, <1>10, <2>1, MakerStep, Zenon
<1>12. /\ \A v, w \in Slot : Maker(v)' /\ Maker(w)' /\ v # w => task'[v].u # task'[w].u
       /\ \A v \in Slot : Maker(v)' => Maker(v) /\ task'[v].u = task[v].u
       /\ \A v \in Slot : Making(v)' => Making(v) /\ task'[v].u = task[v].u
       /\ \A v \in Slot : At(v, "new", "unwind") => At(v, "new", "unwind")' \/ ~Maker(v)'
  BY <1>6, MakersKept, Zenon
<1>13. \A x \in Slot : Making(x)' => task'[x].u \notin built'
  <2>1. \A x \in Slot \ {t} : Maker(x) => task[x].u # u
    BY <1>5, <1>6, Zenon DEF MakersOK
  <2>2. \A x \in Slot : Making(x) => Maker(x)
    BY Zenon DEF Making, Maker
  <2> QED
    BY <1>7, <1>8, <1>12, <2>1, <2>2, ZenonT(60) DEF MakersOK
<1>14. ASSUME NEW l \in late', l.kind = "provision"
       PROVE  /\ l.u \notin built'
              /\ \A x \in Slot : Maker(x)' /\ task'[x].u = l.u => At(x, "new", "unwind")'
  <2>1. l \in late
    BY <1>1, Zenon
  <2>2. l.u # u
    <3>1. ~At(t, "new", "unwind")
      BY <1>1, Zenon DEF At
    <3> QED
      BY <1>5, <1>6, <1>14, <2>1, <3>1, Zenon DEF MakersOK
  <2> QED
    BY <1>7, <1>12, <1>14, <2>1, <2>2, Zenon DEF MakersOK
<1>15. MakersOK'
  BY <1>12, <1>13, <1>14, Zenon DEF MakersOK
<1> QED
  BY <1>11, <1>15, Zenon

\* A resize that grew the file may ask for as much as the file now has.
LEMMA GrownLower ==
  ASSUME Types, Types', UNCHANGED rows, NEW t \in Slot, Moves(t, "row"), task[t].op = "resize",
         disk[task[t].u] > 0, disk'[task[t].u] = task[t].disk
  PROVE  \A v \in Uuid : Lower(v)
<1>1. PICK u, d : u = task[t].u /\ d = task[t].disk
  OBVIOUS
<1>2. d \in Nat /\ d > 0
  <2>1. d \in Disk
    BY <1>1, TaskIs, Zenon DEF Types, TasksOK
  <2> QED
    BY <2>1, LifecycleAssumption, SMT
<1>3. Others(t) /\ task'[t].u = u /\ task'[t].disk = d
  BY <1>1, Zenon DEF Moves, SameTask
<1>4. ASSUME NEW v \in Uuid, NEW e \in Nat, Below(v, e), v = u => d <= e
      PROVE  Below(v, e)'
  <2>1. ASSUME NEW x \in Slot, At(x, "resize", "row")', task'[x].u = v
        PROVE  task'[x].disk <= e
    <3>1. CASE x = t
      BY <1>3, <1>4, <2>1, <3>1, Zenon
    <3>2. CASE x # t
      BY <1>3, <1>4, <2>1, <3>2, Zenon DEF Others, Below, At
    <3> QED
      BY <3>1, <3>2, Zenon
  <2> QED
    BY <1>4, <2>1, Zenon DEF Below
<1>5. ASSUME NEW v \in Uuid, NEW e \in Nat, Below(v, e)
      PROVE  Below(v, e)' \/ (disk[v] > 0 /\ disk'[v] > 0 /\ Below(v, disk[v])')
  <2>1. CASE v = u => d <= e
    BY <1>4, <1>5, <2>1, Zenon
  <2>2. CASE v = u /\ ~(d <= e)
    <3>1. e <= d /\ d <= d
      BY <1>2, <2>2, SMT
    <3>2. Below(v, d)
      BY <1>2, <1>5, <3>1, BelowRises, Zenon
    <3>3. Below(v, d)'
      BY <1>2, <1>4, <3>1, <3>2, Zenon
    <3>4. disk'[v] = d
      BY <1>1, <2>2, Zenon
    <3>5. Below(v, disk[v])'
      BY <3>3, <3>4, Zenon DEF Below
    <3> QED
      BY <1>1, <1>2, <2>2, <3>4, <3>5, Zenon
  <2> QED
    BY <2>1, <2>2, Zenon
<1> QED
  BY <1>5, Zenon DEF Lower

\* A resize grows the file before it asks for more.
LEMMA ResizeGrowDisk ==
  ASSUME Types, Types', MakersOK, SizesOK, NEW t \in Slot, ResizeGrow(t)
  PROVE  MakersOK' /\ SizesOK'
<1>0. TasksOK /\ HostsOK /\ task[t] \in TaskRec
  BY Zenon DEF Types, TasksOK
<1>1. /\ task[t].op = "resize" /\ task[t].at = "grow" /\ task[t].op # None /\ UNCHANGED <<rows, built>>
  BY Zenon DEF ResizeGrow, At, None, db
<1>2. PICK u, d : u = task[t].u /\ d = task[t].disk
  OBVIOUS
<1>3. u \in Uuid /\ d \in Disk
  BY <1>0, <1>1, <1>2, TaskIs, Zenon
<1>4. PICK o : o = GrowOf(t, d)
  OBVIOUS
<1>5. OrderOK(o) /\ o.u = u /\ o.kind = "grow" /\ o.kind # "provision" /\ o.disk = d
  BY <1>0, <1>1, <1>2, <1>3, <1>4, SizedOrderOK, Zenon
<1>6. PICK a \in Answers(o) : Take(a) /\ IF a.code = "ok" THEN Goto(t, "row") ELSE End(t)
  BY <1>2, <1>4, Zenon DEF ResizeGrow, GrowOf
<1>7. (\A v \in Uuid : Grows(v)) /\ NoProvision
  BY <1>0, <1>5, <1>6, AnswerGrows, Zenon
<1>8. RowsUnder
  BY <1>1, Zenon DEF RowsUnder
<1>9. CASE a.code # "ok"
  <2>1. End(t)
    BY <1>6, <1>9, Zenon
  <2> QED
    BY <1>1, <1>7, <1>8, <2>1, EndPast, QuietDisk, Zenon
<1>10. CASE a.code = "ok"
  <2>1. Moves(t, "row")
    BY <1>0, <1>1, <1>6, <1>10, AfterGoto, Zenon DEF Place
  <2>2. disk'[u] = d /\ disk[u] > 0
    BY <1>0, <1>5, <1>6, <1>10, AnswersOK, Zenon DEF AnswerOK, OutcomeOK, Take
  <2>3. \A v \in Uuid : Lower(v)
    BY <1>1, <1>2, <2>1, <2>2, GrownLower, Zenon
  <2>4. Others(t) /\ task'[t].op = "resize" /\ task'[t].u = u
    BY <1>1, <1>2, <2>1, Zenon DEF Moves, SameTask
  <2>5. Goes(t) /\ NewOK(t)' /\ CopyOK(t)'
    BY <1>1, <1>2, <2>4, Zenon DEF Goes, Making, NewOK, CopyOK, At
  <2>6. \A x \in Slot : task'[x] = task[x] \/ Past(x) \/ Goes(x)
    BY <2>4, <2>5, Zenon DEF Others
  <2>7. MakersOK'
    BY <1>1, <1>7, <2>6, MakersFrame, Zenon
  <2>8. \A x \in Slot : \/ task'[x] = task[x] /\ (Maker(x) => task[x].u \notin {})
                        \/ NewOK(x)' /\ CopyOK(x)'
    BY <2>4, <2>5, Zenon DEF Others
  <2>9. {} \cap built = {} /\ (\A v \in Uuid \ {} : Grows(v) /\ Lower(v))
    BY <1>7, <2>3, Zenon
  <2>10. built \subseteq built' /\ \A v \in built' \ built : Covers(v)'
    BY <1>1, Zenon
  <2>11. SizesOK'
    BY <2>8, <2>9, <2>10, SizeStep, Zenon
  <2> QED
    BY <2>7, <2>11, Zenon
<1> QED
  BY <1>9, <1>10, Zenon

\* Every step keeps the makers and the sizes right.
LEMMA NextDisk ==
  ASSUME Types, MintOK, MakersOK, SizesOK, Next
  PROVE  MakersOK' /\ SizesOK'
<1>1. ASSUME NEW t \in Slot, Step(t), ~NewInsert(t), ~CopyInsert(t), Types'
      PROVE  MakersOK' /\ SizesOK'
  <2>1. \/ LeavesFiles(t) \/ NewProvision(t) \/ CopyFile(t) \/ CopyGrow(t) \/ CopySeed(t) \/ CopyCreate(t)
        \/ ResizeGrow(t)
    BY <1>1, Zenon DEF Step, LeavesFiles
  <2> QED
    BY <1>1, <2>1, LeavesDisk, ProvisionDisk, CopyFileDisk, CopyGrowDisk, CopySeedDisk, CopyCreateDisk,
       ResizeGrowDisk, Zenon
<1> QED
  BY <1>1, NextIs, AskMakers, AskSizes, InsertDisk, BackDisk, LateDisk, Zenon

\* An instance that was built, has a row and has a file has at least the disk
\* its row says: Manager::resize grows the file before it writes the row, and
\* a copy of a whole instance is grown before it is created, whatever is cut
\* short in between and whatever order a machine carries out late.
THEOREM DiskIsThere == Spec => []DiskCoversRow
<1>1. Init => MakersOK /\ SizesOK
  <2> SUFFICES ASSUME Init PROVE MakersOK /\ SizesOK
    OBVIOUS
  <2>1. late = {} /\ built = Existing /\ \A t \in Slot : task[t] = Idle
    BY Zenon DEF Init
  <2>2. MakersOK
    BY <2>1, IdleIs, Zenon DEF MakersOK, Maker, Making
  <2>3. Types
    BY InitTypes, Zenon
  <2>4. ASSUME NEW u \in built
        PROVE  Covers(u)
    <3>1. u \in Uuid /\ disk[u] = rows[u].disk
      <4>1. u \in Uuid /\ u \in Existing
        BY <2>1, <2>3, Zenon DEF Types, HistoryOK
      <4>2. disk = [v \in Uuid |-> IF v \in Existing THEN rows[v].disk ELSE 0]
        BY Zenon DEF Init
      <4> QED
        BY <4>1, <4>2, Zenon
    <3>2. \A d \in Nat : d <= d
      BY SMT
    <3>3. rows[u] # NoRow => rows[u].disk <= disk[u]
      BY <2>3, <3>1, <3>2, DiskNat, Zenon
    <3> QED
      BY <2>1, <3>3, IdleIs, Zenon DEF Covers, Below, At
  <2>5. SizesOK
    BY <2>1, <2>4, IdleIs, Zenon DEF SizesOK, NewOK, CopyOK, At
  <2> QED
    BY <2>2, <2>5, Zenon
<1>2. Types /\ MintOK /\ MakersOK /\ SizesOK /\ [Next]_vars => MakersOK' /\ SizesOK'
  <2>1. UNCHANGED vars => UNCHANGED <<rows, disk, late, task, built>>
    BY Zenon DEF vars, db, hosts, history
  <2>2. UNCHANGED vars /\ MakersOK => MakersOK'
    BY <2>1, SMTT(60) DEF MakersOK, Maker, Making, At
  <2>3. UNCHANGED vars /\ SizesOK => SizesOK'
    BY <2>1, SMTT(60) DEF SizesOK, NewOK, CopyOK, Covers, Below, At
  <2> QED
    BY <2>2, <2>3, NextDisk, Zenon
<1>3. Types /\ SizesOK => DiskCoversRow
  <2> SUFFICES ASSUME Types, SizesOK, NEW u \in built, u \in Uuid, rows[u] # NoRow, disk[u] > 0
               PROVE  disk[u] >= rows[u].disk
    BY Zenon DEF DiskCoversRow, Live
  <2>1. rows[u].disk <= disk[u] /\ rows[u].disk \in Nat /\ disk[u] \in Nat
    BY DiskNat, Zenon DEF SizesOK, Covers, Below
  <2> QED
    BY <2>1, SMT
<1> QED
  BY <1>1, <1>2, <1>3, LifecycleTypes, PTL DEF Spec
=============================================================================
