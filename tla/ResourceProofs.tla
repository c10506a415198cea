--------------------------- MODULE ResourceProofs ---------------------------
(***************************************************************************)
(* What the platform hands out to instances: the image store, which        *)
(* implements its catalogue for any images, contents, processes,           *)
(* instances, faults and moves of a source; and RunnerSlots, the addresses *)
(* of each machine, for any hosts, instances and operators and any number  *)
(* of addresses in a cell.                                                 *)
(***************************************************************************)
EXTENDS Images, RunnerSlots, TLAPS

\* What the model takes for granted of its constants: an OCI image and
\* a configured one are images, and a built disk and a published file differ.
Contents == Oci \cup Configured \subseteq Image /\ Published \cap Disk = {}

-----------------------------------------------------------------------------
(* The records of a fetching process and of an instance, by stage.         *)

Committing == {"insert", "source", "mark"}
Stored == Committing \cup {"commit", "cached"}
FetchStage == Stored \cup {"download", "oci", "pulled", "build"}
CollectStage == {"collect", "doomed", "unlink"}

FetchRec == [stage : FetchStage, job : {"fetch", "add"}, image : Image, todo : SUBSET Image,
             new : BOOLEAN, sum : SUBSET Checksum, digest : SUBSET Digest, armed : BOOLEAN]
ListRec == [stage : {"list"}, job : {"fetch"}, todo : SUBSET Image]
ForgetRec == [stage : {"forget"}, job : {"add"}, image : Image]
CollectRec == [stage : CollectStage, todo : SUBSET Checksum, sum : SUBSET Checksum]
WorkRec == {Idle} \cup FetchRec \cup ListRec \cup ForgetRec \cup CollectRec
InstRec == {Idle} \cup [stage : {"read", "row", "disk"}, base : Checksum, image : Image, far : BOOLEAN]

(***************************************************************************)
(* The inductive invariant.  A version that is pointed at or under a disk  *)
(* has its row and its file.  A process between its commit and its end     *)
(* holds the store lock, and for an OCI image the OCI lock as well; what   *)
(* it may take back (armed) nobody needs.  A cached build that still has   *)
(* its row has its file: only the holder of the OCI lock could take it.    *)
(***************************************************************************)
RowsOK ==
  /\ listed \subseteq Image
  /\ current \in [Image -> SUBSET Checksum] /\ version \in [Checksum -> SUBSET Image]
  /\ files \subseteq Checksum
  /\ \A i \in Image : served[i] \in IF i \in Oci THEN Digest ELSE Published
  /\ served \in [Image -> Published \cup Digest]
  /\ \A i, d, c : <<i, d, c>> \in source => c \in Disk

KeptOK ==
  /\ \A i \in Image : \A c \in current[i] : current[i] = {c} /\ c \in files /\ version[c] # {}
  /\ \A u \in Inst :
       /\ inst[u].stage \in {"row", "disk"} => version[inst[u].base] # {}
       /\ inst[u].stage = "disk" /\ ~inst[u].far => inst[u].base \in files

Unneeded(c) ==
  /\ \A i \in Image : c \notin current[i]
  /\ \A u \in Inst : inst[u].stage = "disk" /\ ~inst[u].far => inst[u].base # c

LocksOK(p) ==
  /\ work[p].stage \in Committing \cup CollectStage => lock = {p}
  /\ work[p].stage \in {"pulled", "build"} => work[p].image \in Oci /\ ocilock = {p}
  /\ work[p].stage \in Stored /\ work[p].image \in Oci => ocilock = {p}
  /\ work[p].stage \in {"oci", "source", "cached"} => work[p].image \in Oci
  /\ work[p].stage = "download" => work[p].image \notin Oci
  /\ work[p].stage \in FetchStage \ Committing => ~work[p].armed

SumOK(p) ==
  /\ work[p].stage \in Stored =>
       \E c \in IF work[p].image \in Oci THEN Disk ELSE Published : work[p].sum = {c}
  /\ work[p].stage \in Committing => work[p].sum \subseteq files
  /\ work[p].stage = "insert" => \A c \in work[p].sum : version[c] = {}
  /\ work[p].stage \in {"source", "mark"} => \A c \in work[p].sum : version[c] # {}
  /\ work[p].stage \in Committing /\ work[p].armed => \A c \in work[p].sum : Unneeded(c)
  /\ work[p].stage = "cached" => \A c \in work[p].sum : version[c] # {} => c \in files
  /\ work[p].stage \in {"doomed", "unlink"} => \E c \in Checksum : work[p].sum = {c}
  /\ work[p].stage = "unlink" => \A c \in work[p].sum : version[c] = {}

TypesOK == work \in [Worker -> WorkRec] /\ inst \in [Inst -> InstRec] /\ RowsOK

ImagesInv == TypesOK /\ KeptOK /\ \A p \in Worker : LocksOK(p) /\ SumOK(p)

-----------------------------------------------------------------------------
(* The stage of a process says which record it is. *)
LEMMA RecordOfStage ==
  ASSUME NEW w \in WorkRec
  PROVE  /\ w.stage \in FetchStage => w \in FetchRec
         /\ w.stage = "list" => w \in ListRec
         /\ w.stage = "forget" => w \in ForgetRec
         /\ w.stage \in CollectStage => w \in CollectRec
  BY SMTT(30) DEF WorkRec, Idle, FetchRec, ListRec, ForgetRec, CollectRec, FetchStage, Stored, Committing, CollectStage

(* An instance that is not idle has its base and its place. *)
LEMMA RecordOfInst ==
  ASSUME NEW r \in InstRec, r.stage # "idle"
  PROVE  /\ r \in [stage : {"read", "row", "disk"}, base : Checksum, image : Image, far : BOOLEAN]
  BY SMTT(30) DEF InstRec, Idle

(* A record that moves to another stage. *)
LEMMA NewStage ==
  ASSUME NEW w \in FetchRec, NEW s \in FetchStage
  PROVE  /\ [w EXCEPT !.stage = s] \in FetchRec
         /\ [w EXCEPT !.stage = s].stage = s /\ [w EXCEPT !.stage = s].image = w.image
         /\ [w EXCEPT !.stage = s].sum = w.sum /\ [w EXCEPT !.stage = s].armed = w.armed
         /\ [w EXCEPT !.stage = s].digest = w.digest
  BY Zenon DEF FetchRec

(* A step that leaves rows, files and instances alone and moves one process. *)
LEMMA Move ==
  ASSUME ImagesInv, NEW p \in Worker, UNCHANGED <<current, version, files, inst>>, RowsOK',
         work' \in [Worker -> WorkRec], \A q \in Worker \ {p} : work'[q] = work[q],
         \A q \in Worker \ {p} : (lock = {q} => lock' = {q}) /\ (ocilock = {q} => ocilock' = {q}),
         LocksOK(p)', SumOK(p)'
  PROVE  ImagesInv'
<1>1. TypesOK' /\ KeptOK'
  BY Zenon DEF ImagesInv, TypesOK, KeptOK
<1>2. ASSUME NEW q \in Worker, q # p PROVE LocksOK(q)' /\ SumOK(q)'
  <2>1. LocksOK(q) /\ SumOK(q) /\ work'[q] = work[q]
    BY <1>2, Zenon DEF ImagesInv
  <2>2. LocksOK(q)'
    BY <2>1, <1>2, Zenon DEF LocksOK
  <2>3. SumOK(q)'
    BY <2>1, SMTT(30) DEF SumOK, Unneeded
  <2> QED
    BY <2>2, <2>3, Zenon
<1> QED
  BY <1>1, <1>2, Zenon DEF ImagesInv

(* A process that rests, lists or forgets has nothing to answer for. *)
LEMMA AtEase ==
  ASSUME NEW p \in Worker, work'[p].stage \in {"idle", "list", "forget"}
  PROVE  LocksOK(p)' /\ SumOK(p)'
  BY Zenon DEF LocksOK, SumOK, Committing, Stored, FetchStage, CollectStage

(* Done leaves the process at ease. *)
LEMMA AfterDone ==
  ASSUME ImagesInv, NEW p \in Worker, NEW ok \in BOOLEAN, work[p].stage \in FetchStage, Done(p, ok)
  PROVE  /\ work' \in [Worker -> WorkRec] /\ work'[p].stage \in {"idle", "list", "forget"}
         /\ \A q \in Worker \ {p} : work'[q] = work[q]
<1> DEFINE w == work[p]
<1>1. w \in FetchRec /\ work \in [Worker -> WorkRec]
  BY RecordOfStage, Zenon DEF ImagesInv, TypesOK
<1>2. CASE w.job = "fetch"
  <2>1. [stage |-> "list", job |-> "fetch", todo |-> w.todo] \in ListRec
    BY <1>1, Zenon DEF ListRec, FetchRec
  <2> QED
    BY <2>1, <1>1, <1>2, SMTT(30) DEF Done, WorkRec
<1>3. CASE w.job # "fetch"
  <2>1. [stage |-> "forget", job |-> "add", image |-> w.image] \in ForgetRec
    BY <1>1, Zenon DEF ForgetRec, FetchRec
  <2> QED
    BY <2>1, <1>1, <1>3, SMTT(30) DEF Done, WorkRec, Idle
<1> QED
  BY <1>2, <1>3, Zenon

-----------------------------------------------------------------------------
\* The store as it is found at the start has nothing a worker has to answer
\* for.
LEMMA ImagesInitOK == Contents /\ ImagesInit => ImagesInv
<1> SUFFICES ASSUME Contents, ImagesInit PROVE ImagesInv
  BY Zenon
<1>1. TypesOK
  BY Zenon DEF ImagesInit, EmptyStore, TypesOK, RowsOK, WorkRec, InstRec
<1>2. KeptOK
  BY Zenon DEF ImagesInit, EmptyStore, KeptOK, Idle
<1>3. ASSUME NEW p \in Worker PROVE LocksOK(p) /\ SumOK(p)
  BY Zenon DEF ImagesInit, EmptyStore, Idle, LocksOK, SumOK, Committing, Stored, FetchStage, CollectStage
<1> QED
  BY <1>1, <1>2, <1>3, Zenon DEF ImagesInv

(* fetch_one and add_oci_image begin with a fresh record. *)
LEMMA BegunOK ==
  ASSUME NEW j \in {"fetch", "add"}, NEW i \in Image, NEW todo \in SUBSET Image, NEW new \in BOOLEAN
  PROVE  LET r == Begun(j, i, todo, new)
         IN  /\ r \in FetchRec /\ r.image = i /\ ~r.armed
             /\ r.stage = IF i \in Oci THEN "oci" ELSE "download"
  BY Zenon DEF Begun, FetchRec, FetchStage

(* A fetch that has only begun holds nothing. *)
LEMMA BegunFacts ==
  ASSUME NEW p \in Worker, ~work'[p].armed,
         work'[p].stage = IF work'[p].image \in Oci THEN "oci" ELSE "download"
  PROVE  LocksOK(p)' /\ SumOK(p)'
  BY Zenon DEF LocksOK, SumOK, Committing, Stored, FetchStage, CollectStage

(* fetch_images, fetch_one, add_oci_image. *)
LEMMA BeginStep ==
  ASSUME ImagesInv, Contents, NEW p \in Worker,
         fetch_images(p) \/ fetch_one(p) \/ (\E i \in Image : add_oci_image(p, i))
  PROVE  ImagesInv'
<1>0. work \in [Worker -> WorkRec] /\ listed \subseteq Image
  BY Zenon DEF ImagesInv, TypesOK, RowsOK
<1>1. CASE fetch_images(p)
  <2> DEFINE r == [stage |-> "list", job |-> "fetch", todo |-> listed]
  <2>1. r \in WorkRec /\ r.stage = "list"
    BY <1>0, Zenon DEF WorkRec, ListRec
  <2>2. work' = [work EXCEPT ![p] = r]
    BY <1>1, Zenon DEF fetch_images
  <2> HIDE DEF r
  <2>3. work' \in [Worker -> WorkRec] /\ work'[p] = r /\ \A q \in Worker \ {p} : work'[q] = work[q]
    BY <2>1, <2>2, <1>0, Zenon
  <2>4. RowsOK' /\ UNCHANGED <<current, version, files, inst, lock, ocilock>>
    BY <1>1, Zenon DEF fetch_images, tables, ImagesInv, TypesOK, RowsOK
  <2> QED
    BY <2>1, <2>3, <2>4, Move, AtEase, Zenon
<1>2. CASE fetch_one(p)
  <2>1. work[p] \in ListRec
    BY <1>0, <1>2, RecordOfStage, Zenon DEF fetch_one
  <2>2. PICK i \in work[p].todo : work' = [work EXCEPT ![p] = Begun("fetch", i, work[p].todo \ {i}, FALSE)]
    BY <1>2, Zenon DEF fetch_one
  <2>3. i \in Image /\ work[p].todo \ {i} \in SUBSET Image
    BY <2>1, Zenon DEF ListRec
  <2>4. /\ Begun("fetch", i, work[p].todo \ {i}, FALSE) \in FetchRec
        /\ work'[p] = Begun("fetch", i, work[p].todo \ {i}, FALSE)
        /\ work'[p].image = i /\ ~work'[p].armed
        /\ work'[p].stage = IF i \in Oci THEN "oci" ELSE "download"
    BY <2>2, <2>3, <1>0, BegunOK, ZenonT(30)
  <2>5. work' \in [Worker -> WorkRec] /\ \A q \in Worker \ {p} : work'[q] = work[q]
    BY <2>4, <2>2, <1>0, ZenonT(30) DEF WorkRec
  <2>6. RowsOK' /\ UNCHANGED <<current, version, files, inst, lock, ocilock>>
    BY <1>2, Zenon DEF fetch_one, tables, ImagesInv, TypesOK, RowsOK
  <2> QED
    BY <2>4, <2>5, <2>6, Move, BegunFacts, Zenon
<1>3. ASSUME NEW i \in Image, add_oci_image(p, i) PROVE ImagesInv'
  <2>1. PICK new \in BOOLEAN : work' = [work EXCEPT ![p] = Begun("add", i, {}, new)]
    BY <1>3, Zenon DEF add_oci_image
  <2>2. /\ Begun("add", i, {}, new) \in FetchRec
        /\ work'[p] = Begun("add", i, {}, new)
        /\ work'[p].image = i /\ ~work'[p].armed
        /\ work'[p].stage = IF i \in Oci THEN "oci" ELSE "download"
    BY <2>1, <1>0, BegunOK, SMTT(30)
  <2>3. work' \in [Worker -> WorkRec] /\ \A q \in Worker \ {p} : work'[q] = work[q]
    BY <2>1, <2>2, <1>0, Zenon DEF WorkRec
  <2>4. RowsOK' /\ UNCHANGED <<current, version, files, inst, lock, ocilock>>
    BY <1>3, Zenon DEF add_oci_image, tables, ImagesInv, TypesOK, RowsOK
  <2> QED
    BY <2>2, <2>3, <2>4, Move, BegunFacts, Zenon
<1> QED
  BY <1>1, <1>2, <1>3, Zenon

(* A step of a fetch that reads, downloads, pulls or builds and ends the     *)
(* image, or moves the process to a record that is in order.                 *)
LEMMA FetchEnds ==
  ASSUME ImagesInv, NEW p \in Worker, NEW ok \in BOOLEAN, work[p].stage \in FetchStage, Done(p, ok),
         UNCHANGED <<current, version, files, inst>>, RowsOK',
         \A q \in Worker \ {p} : (lock = {q} => lock' = {q}) /\ (ocilock = {q} => ocilock' = {q})
  PROVE  ImagesInv'
  BY AfterDone, AtEase, Move, SMTT(30)

(* download: what was served is what is stored. *)
LEMMA DownloadStep ==
  ASSUME ImagesInv, Contents, NEW p \in Worker, download(p)
  PROVE  ImagesInv'
<1> DEFINE w == work[p]
           i == work[p].image
           r == [w EXCEPT !.stage = "commit", !.sum = {served[i]}]
<1>0. /\ work \in [Worker -> WorkRec] /\ w.stage = "download" /\ w.stage \in FetchStage
      /\ RowsOK' /\ UNCHANGED <<current, version, files, inst, lock, ocilock>>
  BY Zenon DEF download, FetchStage, tables, ImagesInv, TypesOK, RowsOK
<1>1. w \in FetchRec /\ i \in Image /\ i \notin Oci /\ ~w.armed
  BY <1>0, RecordOfStage, SMTT(30) DEF FetchRec, ImagesInv, LocksOK, Committing, Stored, FetchStage
<1>2. served[i] \in Published /\ {served[i]} \in SUBSET Checksum /\ "commit" \in FetchStage
  BY <1>1, Zenon DEF ImagesInv, TypesOK, RowsOK, Checksum, FetchStage, Stored
<1>3. CASE Pinned[i] \in {{}, {served[i]}}
  <2>1. r \in FetchRec /\ r.stage = "commit" /\ r.image = i /\ r.sum = {served[i]} /\ ~r.armed
    BY <1>1, <1>2, Zenon DEF FetchRec
  <2>2. work' = [work EXCEPT ![p] = r]
    BY <1>0, <1>3, Zenon DEF download
  <2> HIDE DEF r
  <2>3. work' \in [Worker -> WorkRec] /\ work'[p] = r /\ \A q \in Worker \ {p} : work'[q] = work[q]
    BY <2>1, <2>2, <1>0, Zenon DEF WorkRec
  <2>4. LocksOK(p)' /\ SumOK(p)'
    BY <2>1, <2>3, <1>1, <1>2, Zenon DEF LocksOK, SumOK, Committing, Stored, FetchStage, CollectStage
  <2> QED
    BY <2>3, <2>4, <1>0, Move, Zenon
<1>4. CASE Pinned[i] \notin {{}, {served[i]}}
  BY <1>0, <1>4, FetchEnds, Zenon DEF download
<1> QED
  BY <1>3, <1>4, Zenon

(* fetch_oci: the OCI lock is taken. *)
LEMMA PullStep ==
  ASSUME ImagesInv, Contents, NEW p \in Worker, fetch_oci(p)
  PROVE  ImagesInv'
<1> DEFINE w == work[p]
           r == [w EXCEPT !.stage = "pulled", !.digest = {served[w.image]}]
<1>0. /\ work \in [Worker -> WorkRec] /\ w.stage = "oci" /\ w.stage \in FetchStage
      /\ ocilock = {} /\ ocilock' = {p}
      /\ RowsOK' /\ UNCHANGED <<current, version, files, inst, lock>>
  BY Zenon DEF fetch_oci, acquire_lock, FetchStage, tables, ImagesInv, TypesOK, RowsOK
<1>1. w \in FetchRec /\ w.image \in Image /\ w.image \in Oci /\ ~w.armed
  BY <1>0, RecordOfStage, SMTT(30) DEF FetchRec, ImagesInv, LocksOK, Committing, Stored, FetchStage
<1>2. served[w.image] \in Digest
  BY <1>1, Zenon DEF ImagesInv, TypesOK, RowsOK
<1>3. r \in FetchRec /\ r.stage = "pulled" /\ r.image = w.image /\ ~r.armed
  BY <1>1, <1>2, Zenon DEF FetchRec, FetchStage
<1>4. work' = [work EXCEPT ![p] = r]
  BY <1>0, Zenon DEF fetch_oci
<1> HIDE DEF r
<1>5. work' \in [Worker -> WorkRec] /\ work'[p] = r /\ \A q \in Worker \ {p} : work'[q] = work[q]
  BY <1>3, <1>4, <1>0, Zenon DEF WorkRec
<1>6. LocksOK(p)' /\ SumOK(p)'
  BY <1>0, <1>1, <1>3, <1>5, Zenon DEF LocksOK, SumOK, Committing, Stored, FetchStage, CollectStage
<1> QED
  BY <1>0, <1>5, <1>6, Move, Zenon

(* find_cached: a disk already built is there, with its row. *)
LEMMA CachedStep ==
  ASSUME ImagesInv, Contents, NEW p \in Worker, find_cached(p)
  PROVE  ImagesInv'
<1> DEFINE w == work[p]
<1>0. /\ work \in [Worker -> WorkRec] /\ w.stage = "pulled" /\ w.stage \in FetchStage
      /\ RowsOK' /\ UNCHANGED <<current, version, files, inst, lock, ocilock>>
  BY Zenon DEF find_cached, FetchStage, tables, ImagesInv, TypesOK, RowsOK
<1>1. w \in FetchRec /\ w.image \in Image /\ w.image \in Oci /\ ~w.armed /\ ocilock = {p}
  BY <1>0, RecordOfStage, SMTT(30) DEF FetchRec, ImagesInv, LocksOK, Committing, Stored, FetchStage
<1>2. CASE Goto(p, "build")
  <2> DEFINE r == [w EXCEPT !.stage = "build"]
  <2>1. r \in FetchRec /\ r.stage = "build" /\ r.image = w.image /\ ~r.armed
    BY <1>1, NewStage, ZenonT(30) DEF FetchStage
  <2>2. work' = [work EXCEPT ![p] = r]
    BY <1>0, <1>2, ZenonT(30) DEF Goto
  <2> HIDE DEF r
  <2>3. work' \in [Worker -> WorkRec] /\ work'[p] = r /\ \A q \in Worker \ {p} : work'[q] = work[q]
    BY <2>1, <2>2, <1>0, Zenon DEF WorkRec
  <2>4. LocksOK(p)' /\ SumOK(p)'
    BY <2>1, <2>3, <1>0, <1>1, Zenon DEF LocksOK, SumOK, Committing, Stored, FetchStage, CollectStage
  <2> QED
    BY <2>3, <2>4, <1>0, Move, Zenon
<1>3. ASSUME NEW d, NEW c \in CachedBuilds(w.image, d),
             work' = [work EXCEPT ![p].stage = "cached", ![p].sum = {c}]
      PROVE  ImagesInv'
  <2> DEFINE r == [w EXCEPT !.stage = "cached", !.sum = {c}]
  <2>0. c \in Disk /\ c \in Checksum /\ c \in files
    BY <1>3, Zenon DEF CachedBuilds, image_version_for_source, ImagesInv, TypesOK, RowsOK
  <2>1. r \in FetchRec /\ r.stage = "cached" /\ r.image = w.image /\ r.sum = {c} /\ ~r.armed
    BY <1>1, <2>0, Zenon DEF FetchRec, FetchStage, Stored
  <2>2. work' = [work EXCEPT ![p] = r]
    BY <1>0, <1>3, Zenon
  <2> HIDE DEF r
  <2>3. work' \in [Worker -> WorkRec] /\ work'[p] = r /\ \A q \in Worker \ {p} : work'[q] = work[q]
    BY <2>1, <2>2, <1>0, Zenon DEF WorkRec
  <2>4. LocksOK(p)' /\ SumOK(p)'
    BY <2>0, <2>1, <2>3, <1>0, <1>1, Zenon DEF LocksOK, SumOK, Committing, Stored, FetchStage, CollectStage
  <2> QED
    BY <2>3, <2>4, <1>0, Move, Zenon
<1> QED
  BY <1>2, <1>3, Zenon DEF find_cached

(* image_builder: one disk. *)
LEMMA BuildStep ==
  ASSUME ImagesInv, Contents, NEW p \in Worker, image_builder(p)
  PROVE  ImagesInv'
<1> DEFINE w == work[p]
<1>0. /\ work \in [Worker -> WorkRec] /\ w.stage = "build" /\ w.stage \in FetchStage
      /\ RowsOK' /\ UNCHANGED <<current, version, files, inst, lock, ocilock>>
  BY Zenon DEF image_builder, FetchStage, tables, ImagesInv, TypesOK, RowsOK
<1>1. w \in FetchRec /\ w.image \in Image /\ w.image \in Oci /\ ~w.armed /\ ocilock = {p}
  BY <1>0, RecordOfStage, SMTT(30) DEF FetchRec, ImagesInv, LocksOK, Committing, Stored, FetchStage
<1>2. PICK c \in Disk : work' = [work EXCEPT ![p].stage = "commit", ![p].sum = {c}]
  BY Zenon DEF image_builder
<1> DEFINE r == [w EXCEPT !.stage = "commit", !.sum = {c}]
<1>3. r \in FetchRec /\ r.stage = "commit" /\ r.image = w.image /\ r.sum = {c} /\ ~r.armed
  BY <1>1, Zenon DEF FetchRec, FetchStage, Stored, Checksum
<1>4. work' = [work EXCEPT ![p] = r]
  BY <1>0, <1>2, Zenon
<1> HIDE DEF r
<1>5. work' \in [Worker -> WorkRec] /\ work'[p] = r /\ \A q \in Worker \ {p} : work'[q] = work[q]
  BY <1>3, <1>4, <1>0, Zenon DEF WorkRec
<1>6. LocksOK(p)' /\ SumOK(p)'
  BY <1>0, <1>1, <1>3, <1>5, Zenon DEF LocksOK, SumOK, Committing, Stored, FetchStage, CollectStage
<1> QED
  BY <1>0, <1>5, <1>6, Move, Zenon

(* fetch_fails, contract_fails, delete_unbuilt_image, Crash: the process is at ease again. *)
LEMMA EndStep ==
  ASSUME ImagesInv, Contents, NEW p \in Worker,
         fetch_fails(p) \/ contract_fails(p) \/ delete_unbuilt_image(p) \/ Crash(p)
  PROVE  ImagesInv'
<1>0. work \in [Worker -> WorkRec]
  BY Zenon DEF ImagesInv, TypesOK
<1>1. CASE fetch_fails(p)
  <2>1. /\ work[p].stage \in FetchStage /\ RowsOK' /\ UNCHANGED <<current, version, files, inst, lock>>
        /\ ocilock' = ocilock \ {p} /\ Done(p, FALSE)
    BY <1>1, Zenon DEF fetch_fails, FetchStage, tables, ImagesInv, TypesOK, RowsOK
  <2> QED
    BY <2>1, FetchEnds, Zenon
<1>2. CASE contract_fails(p)
  <2>1. /\ work[p].stage = "build" /\ work[p].stage \in FetchStage /\ RowsOK'
        /\ UNCHANGED <<current, version, files, inst, lock>> /\ Done(p, FALSE)
    BY <1>2, Zenon DEF contract_fails, FetchStage, tables, ImagesInv, TypesOK, RowsOK
  <2>2. ocilock = {p}
    BY <2>1, Zenon DEF ImagesInv, LocksOK
  <2> QED
    BY <2>1, <2>2, FetchEnds, Zenon
<1>3. CASE delete_unbuilt_image(p)
  <2>1. /\ work' = [work EXCEPT ![p] = Idle] /\ UNCHANGED <<current, version, files, inst, lock, ocilock>>
        /\ listed' \subseteq listed /\ source' \subseteq source /\ served' = served
    BY <1>3, Zenon DEF delete_unbuilt_image
  <2>2. RowsOK'
    BY <2>1, Zenon DEF ImagesInv, TypesOK, RowsOK
  <2>3. work' \in [Worker -> WorkRec] /\ work'[p].stage = "idle" /\ \A q \in Worker \ {p} : work'[q] = work[q]
    BY <2>1, <1>0, Zenon DEF WorkRec, Idle
  <2> QED
    BY <2>1, <2>2, <2>3, Move, AtEase, Zenon
<1>4. CASE Crash(p)
  <2>1. /\ work' = [work EXCEPT ![p] = Idle] /\ UNCHANGED <<current, version, files, inst>>
        /\ RowsOK' /\ lock' = lock \ {p} /\ ocilock' = ocilock \ {p}
    BY <1>4, Zenon DEF Crash, tables, ImagesInv, TypesOK, RowsOK
  <2>2. work' \in [Worker -> WorkRec] /\ work'[p].stage = "idle" /\ \A q \in Worker \ {p} : work'[q] = work[q]
    BY <2>1, <1>0, Zenon DEF WorkRec, Idle
  <2> QED
    BY <2>1, <2>2, Move, AtEase, ZenonT(30)
<1> QED
  BY <1>1, <1>2, <1>3, <1>4, ZenonT(30)

(* collect, collect_look, collect_ends: under the store lock. *)
LEMMA CollectStep ==
  ASSUME ImagesInv, Contents, NEW p \in Worker, collect(p) \/ collect_look(p) \/ collect_ends(p)
  PROVE  ImagesInv'
<1>0. work \in [Worker -> WorkRec]
  BY Zenon DEF ImagesInv, TypesOK
<1>1. CASE collect(p)
  <2> DEFINE r == [stage |-> "collect", todo |-> Collectable({c \in Checksum : has_image_version(c)}), sum |-> {}]
  <2>1. r \in CollectRec /\ r.stage = "collect"
    BY Zenon DEF CollectRec, CollectStage, Collectable
  <2>2. /\ work' = [work EXCEPT ![p] = r] /\ lock = {} /\ lock' = {p}
        /\ UNCHANGED <<current, version, files, inst, ocilock>> /\ RowsOK'
    BY <1>1, Zenon DEF collect, acquire_lock, tables, ImagesInv, TypesOK, RowsOK
  <2> HIDE DEF r
  <2>3. work' \in [Worker -> WorkRec] /\ work'[p] = r /\ \A q \in Worker \ {p} : work'[q] = work[q]
    BY <2>1, <2>2, <1>0, Zenon DEF WorkRec
  <2>4. LocksOK(p)' /\ SumOK(p)'
    BY <2>1, <2>2, <2>3, Zenon DEF LocksOK, SumOK, Committing, Stored, FetchStage, CollectStage
  <2> QED
    BY <2>2, <2>3, <2>4, Move, Zenon
<1>2. CASE collect_look(p)
  <2> DEFINE w == work[p]
  <2>1. /\ w.stage = "collect" /\ UNCHANGED <<current, version, files, inst, lock, ocilock>> /\ RowsOK'
    BY <1>2, Zenon DEF collect_look, tables, ImagesInv, TypesOK, RowsOK
  <2>2. w \in CollectRec /\ lock = {p}
    BY <2>1, <1>0, RecordOfStage, Zenon DEF ImagesInv, LocksOK, CollectStage
  <2>3. PICK c \in w.todo, s \in {"collect", "doomed"} :
          work' = [work EXCEPT ![p].todo = w.todo \ {c}, ![p].stage = s, ![p].sum = {c}]
    BY <1>2, Zenon DEF collect_look
  <2> DEFINE r == [w EXCEPT !.todo = w.todo \ {c}, !.stage = s, !.sum = {c}]
  <2>4. r \in CollectRec /\ r.stage = s /\ r.sum = {c} /\ c \in Checksum
    BY <2>2, Zenon DEF CollectRec, CollectStage
  <2>5. work' = [work EXCEPT ![p] = r]
    BY <2>3, <1>0, Zenon
  <2> HIDE DEF r
  <2>6. work' \in [Worker -> WorkRec] /\ work'[p] = r /\ \A q \in Worker \ {p} : work'[q] = work[q]
    BY <2>4, <2>5, <1>0, Zenon DEF WorkRec
  <2>7. LocksOK(p)' /\ SumOK(p)'
    BY <2>1, <2>2, <2>4, <2>6, Zenon DEF LocksOK, SumOK, Committing, Stored, FetchStage, CollectStage
  <2> QED
    BY <2>1, <2>6, <2>7, Move, Zenon
<1>3. CASE collect_ends(p)
  <2>1. /\ work[p].stage = "collect" /\ work' = [work EXCEPT ![p] = Idle] /\ lock' = {}
        /\ UNCHANGED <<current, version, files, inst, ocilock>> /\ RowsOK'
    BY <1>3, Zenon DEF collect_ends, tables, ImagesInv, TypesOK, RowsOK
  <2>2. lock = {p}
    BY <2>1, Zenon DEF ImagesInv, LocksOK, CollectStage
  <2>3. work' \in [Worker -> WorkRec] /\ work'[p].stage = "idle" /\ \A q \in Worker \ {p} : work'[q] = work[q]
    BY <2>1, <1>0, Zenon DEF WorkRec, Idle
  <2> QED
    BY <2>1, <2>2, <2>3, Move, AtEase, ZenonT(30)
<1> QED
  BY <1>1, <1>2, <1>3, ZenonT(30)

-----------------------------------------------------------------------------
(* While one process holds the store lock no other commits or collects. *)
LEMMA Alone ==
  ASSUME ImagesInv, NEW p \in Worker, NEW q \in Worker, q # p,
         lock = {} \/ work[p].stage \in Committing \cup CollectStage
  PROVE  work[q].stage \notin Committing \cup CollectStage
  BY Zenon DEF ImagesInv, LocksOK

(* A cached build is a disk. *)
LEMMA CachedSum ==
  ASSUME NEW q \in Worker, SumOK(q), work[q].stage = "cached"
  PROVE  work[q].sum \subseteq Checksum
<1>1. PICK c \in IF work[q].image \in Oci THEN Disk ELSE Published : work[q].sum = {c}
  BY Zenon DEF SumOK, Stored
<1> QED
  BY <1>1, Zenon DEF Checksum

(* What a process owes that neither commits nor collects. *)
LEMMA OtherSum ==
  ASSUME ImagesInv, NEW q \in Worker, work'[q] = work[q], work[q].stage \notin Committing \cup CollectStage,
         work[q].stage = "cached" => \A c \in work[q].sum : version'[c] # {} => c \in files'
  PROVE  SumOK(q)'
<1>1. SumOK(q)
  BY Zenon DEF ImagesInv
<1> QED
  BY <1>1, Zenon DEF SumOK, Committing, Stored, CollectStage

(* A step of one process that changes rows or files. *)
LEMMA Change ==
  ASSUME ImagesInv, NEW p \in Worker, TypesOK', KeptOK', \A q \in Worker \ {p} : work'[q] = work[q],
         \A q \in Worker \ {p} : (lock = {q} => lock' = {q}) /\ (ocilock = {q} => ocilock' = {q}),
         \A q \in Worker \ {p} : SumOK(q)',
         LocksOK(p)', SumOK(p)'
  PROVE  ImagesInv'
<1>1. ASSUME NEW q \in Worker, q # p PROVE LocksOK(q)'
  <2>1. LocksOK(q) /\ work'[q] = work[q]
    BY <1>1, Zenon DEF ImagesInv
  <2> QED
    BY <2>1, <1>1, Zenon DEF LocksOK
<1> QED
  BY <1>1, Zenon DEF ImagesInv

(* commit: the file is there; whoever answers for it answers for one nobody needs. *)
LEMMA CommitStep ==
  ASSUME ImagesInv, Contents, NEW p \in Worker, commit(p)
  PROVE  ImagesInv'
<1> DEFINE w == work[p]
<1>0. /\ work \in [Worker -> WorkRec] /\ w.stage = "commit" /\ w.stage \in FetchStage
      /\ lock = {} /\ lock' = {p}
      /\ UNCHANGED <<listed, current, version, source, served, inst, ocilock>>
  BY Zenon DEF commit, acquire_lock, FetchStage, Stored, tables, ImagesInv, TypesOK
<1>1. w \in FetchRec /\ LocksOK(p) /\ SumOK(p)
  BY <1>0, RecordOfStage, Zenon DEF ImagesInv
<1>2. PICK c \in w.sum :
        /\ files' = files \cup {c}
        /\ work' = [work EXCEPT ![p].armed = Persists(w.image, c),
                                ![p].stage = IF ~has_image_version(c) THEN "insert"
                                             ELSE IF w.image \in Oci THEN "source" ELSE "mark"]
  BY Zenon DEF commit
<1>3. w.sum = {c} /\ c \in (IF w.image \in Oci THEN Disk ELSE Published) /\ c \in Checksum
  BY <1>0, <1>1, <1>2, Zenon DEF SumOK, Stored, Checksum
<1> DEFINE s == IF ~has_image_version(c) THEN "insert" ELSE IF w.image \in Oci THEN "source" ELSE "mark"
           a == Persists(w.image, c)
           r == [w EXCEPT !.armed = a, !.stage = s]
<1>4. a \in BOOLEAN /\ s \in Committing
  BY Zenon DEF Persists, Committing
<1>5. a => Unneeded(c)
  BY <1>3, SMTT(30) DEF Persists, has_image_version, Unneeded, ImagesInv, KeptOK
<1>6. /\ s = "insert" => version[c] = {}
      /\ s \in {"source", "mark"} => version[c] # {}
      /\ s = "source" => w.image \in Oci
  BY Zenon DEF has_image_version
<1> HIDE DEF a, s
<1>7. r \in FetchRec /\ r.stage = s /\ r.armed = a /\ r.image = w.image /\ r.sum = {c}
  BY <1>1, <1>3, <1>4, Zenon DEF FetchRec, FetchStage, Stored
<1>8. work' = [work EXCEPT ![p] = r]
  BY <1>0, <1>2, Zenon DEF a, s
<1> HIDE DEF r
<1>9. work' \in [Worker -> WorkRec] /\ work'[p] = r /\ \A q \in Worker \ {p} : work'[q] = work[q]
  BY <1>7, <1>8, <1>0, Zenon DEF WorkRec
<1>10. TypesOK' /\ KeptOK'
  <2>1. TypesOK'
    BY <1>0, <1>2, <1>3, <1>9, Zenon DEF ImagesInv, TypesOK, RowsOK
  <2>2. KeptOK'
    BY <1>0, <1>2, Zenon DEF ImagesInv, KeptOK
  <2> QED
    BY <2>1, <2>2, Zenon
<1>11. LocksOK(p)'
  BY <1>0, <1>1, <1>4, <1>6, <1>7, <1>9, Zenon DEF LocksOK, Committing, Stored, FetchStage, CollectStage
<1>12. Unneeded(c)' <=> Unneeded(c)
  BY <1>0, Zenon DEF Unneeded
<1>13. SumOK(p)'
  BY <1>0, <1>2, <1>3, <1>4, <1>5, <1>6, <1>7, <1>9, <1>12, Zenon DEF SumOK, Committing, Stored, CollectStage
<1>14. ASSUME NEW q \in Worker \ {p} PROVE SumOK(q)'
  <2>1. work[q].stage \notin Committing \cup CollectStage /\ SumOK(q)
    BY <1>0, Alone, Zenon DEF ImagesInv
  <2>2. work[q].stage = "cached" => \A d \in work[q].sum : version'[d] # {} => d \in files'
    BY <2>1, <1>0, <1>2, Zenon DEF SumOK
  <2> QED
    BY <2>1, <2>2, <1>9, OtherSum, Zenon
<1> QED
  BY <1>0, <1>9, <1>10, <1>11, <1>13, <1>14, Change, Zenon

(* Rollback: what goes is a file nobody needs, and not a cached build of another. *)
LEMMA RollbackStep ==
  ASSUME ImagesInv, Contents, NEW p \in Worker, work[p].stage \in Committing \cup {"cached"}, Rollback(p),
         UNCHANGED <<listed, current, version, source, served, inst>>
  PROVE  ImagesInv'
<1> DEFINE w == work[p]
<1>0. /\ work \in [Worker -> WorkRec] /\ w.stage \in FetchStage /\ Done(p, FALSE)
      /\ lock' = lock \ {p} /\ ocilock' = ocilock \ {p}
      /\ files' = IF w.armed THEN files \ w.sum ELSE files
  BY Zenon DEF Rollback, FetchStage, Stored, ImagesInv, TypesOK
<1>1. w \in FetchRec /\ LocksOK(p) /\ SumOK(p)
  BY <1>0, RecordOfStage, Zenon DEF ImagesInv
<1>2. CASE ~w.armed
  <2>1. files' = files /\ RowsOK'
    BY <1>0, <1>2, Zenon DEF ImagesInv, TypesOK, RowsOK
  <2> QED
    BY <2>1, <1>0, FetchEnds, Zenon
<1>3. CASE w.armed
  <2>0. w.stage \in Committing
    BY <1>1, <1>3, <1>0, Zenon DEF LocksOK
  <2>1. PICK c \in IF w.image \in Oci THEN Disk ELSE Published : w.sum = {c}
    BY <1>1, <2>0, Zenon DEF SumOK, Stored
  <2>2. Unneeded(c) /\ files' = files \ {c}
    BY <1>0, <1>1, <1>3, <2>0, <2>1, Zenon DEF SumOK
  <2>3. /\ work' \in [Worker -> WorkRec] /\ work'[p].stage \in {"idle", "list", "forget"}
        /\ \A q \in Worker \ {p} : work'[q] = work[q]
    BY <1>0, AfterDone, Zenon
  <2>4. TypesOK'
    BY <2>2, <2>3, Zenon DEF ImagesInv, TypesOK, RowsOK
  <2>5. KeptOK'
    BY <2>2, Zenon DEF ImagesInv, KeptOK, Unneeded
  <2>6. ASSUME NEW q \in Worker \ {p} PROVE SumOK(q)'
    <3>1. work[q].stage \notin Committing \cup CollectStage /\ SumOK(q) /\ LocksOK(q)
      BY <2>0, Alone, Zenon DEF ImagesInv
    <3>2. ASSUME work[q].stage = "cached" PROVE work[q].sum # {c} /\ \E d \in Disk : work[q].sum = {d}
      <4>1. work[q].image \in Oci /\ ocilock = {q}
        BY <3>1, <3>2, Zenon DEF LocksOK, Stored
      <4>2. w.image \notin Oci
        BY <4>1, <1>1, <2>0, Zenon DEF LocksOK, Stored
      <4>3. PICK d \in Disk : work[q].sum = {d}
        BY <3>1, <3>2, <4>1, Zenon DEF SumOK, Stored
      <4> QED
        BY <4>2, <4>3, <2>1, Zenon DEF Contents
    <3>3. work[q].stage = "cached" => \A d \in work[q].sum : version'[d] # {} => d \in files'
      BY <3>1, <3>2, <2>2, Zenon DEF SumOK
    <3> QED
      BY <3>1, <3>3, <2>3, OtherSum, Zenon
  <2> QED
    BY <1>0, <2>3, <2>4, <2>5, <2>6, Change, AtEase, Zenon
<1> QED
  BY <1>2, <1>3, Zenon

(* insert_image_version: the row of a file that is there. *)
LEMMA InsertStep ==
  ASSUME ImagesInv, Contents, NEW p \in Worker, insert_image_version(p)
  PROVE  ImagesInv'
<1> DEFINE w == work[p]
<1>0. /\ work \in [Worker -> WorkRec] /\ w.stage = "insert" /\ w.stage \in FetchStage /\ w.stage \in Committing
      /\ UNCHANGED <<listed, current, source, served, inst>>
  BY Zenon DEF insert_image_version, FetchStage, Stored, Committing, ImagesInv, TypesOK
<1>1. w \in FetchRec /\ LocksOK(p) /\ SumOK(p)
  BY <1>0, RecordOfStage, Zenon DEF ImagesInv
<1>2. CASE Rollback(p) /\ UNCHANGED version
  BY <1>0, <1>2, RollbackStep, Zenon
<1>3. CASE /\ w.image \in listed
           /\ version' = [c \in Checksum |-> IF c \in w.sum THEN {w.image} ELSE version[c]]
           /\ Goto(p, IF w.image \in Oci THEN "source" ELSE "mark")
           /\ UNCHANGED <<files, lock, ocilock>>
  <2> DEFINE s == IF w.image \in Oci THEN "source" ELSE "mark"
             r == [w EXCEPT !.stage = s]
  <2>1. s \in {"source", "mark"} /\ s \in FetchStage /\ (s = "source" => w.image \in Oci)
    BY Zenon DEF FetchStage, Stored, Committing
  <2>2. work' = [work EXCEPT ![p] = r]
    BY <1>0, <1>3, Zenon DEF Goto
  <2> HIDE DEF s
  <2>3. r \in FetchRec /\ r.stage = s /\ r.image = w.image /\ r.sum = w.sum /\ r.armed = w.armed
    BY <1>1, <2>1, NewStage, Zenon
  <2> HIDE DEF r
  <2>4. work' \in [Worker -> WorkRec] /\ work'[p] = r /\ \A q \in Worker \ {p} : work'[q] = work[q]
    BY <2>2, <2>3, <1>0, Zenon DEF WorkRec
  <2>5. PICK c \in IF w.image \in Oci THEN Disk ELSE Published : w.sum = {c}
    BY <1>0, <1>1, Zenon DEF SumOK, Stored
  <2>6. c \in Checksum /\ c \in files /\ w.image \in Image
    BY <2>5, <1>0, <1>1, Zenon DEF Checksum, SumOK, FetchRec
  <2>7. version'[c] # {} /\ \A d \in Checksum : version[d] # {} => version'[d] # {}
    BY <1>3, <2>5, <2>6, Zenon
  <2>8. TypesOK'
    BY <1>0, <1>3, <2>4, <2>6, Zenon DEF ImagesInv, TypesOK, RowsOK
  <2>9. KeptOK'
    <3>1. ASSUME NEW i \in Image, NEW d \in current[i]
          PROVE  current[i] = {d} /\ d \in files /\ version'[d] # {}
      BY <2>7, Zenon DEF ImagesInv, KeptOK, TypesOK, RowsOK
    <3>2. ASSUME NEW u \in Inst, inst[u].stage \in {"row", "disk"}
          PROVE  version'[inst[u].base] # {}
      <4>1. inst[u].base \in Checksum
        BY <3>2, RecordOfInst, SMTT(30) DEF ImagesInv, TypesOK
      <4> QED
        BY <4>1, <3>2, <2>7, Zenon DEF ImagesInv, KeptOK
    <3> QED
      BY <3>1, <3>2, <1>0, <1>3, Zenon DEF ImagesInv, KeptOK
  <2>10. LocksOK(p)'
    BY <1>0, <1>1, <1>3, <2>1, <2>3, <2>4, Zenon DEF LocksOK, Committing, Stored, FetchStage, CollectStage
  <2>11. Unneeded(c)' <=> Unneeded(c)
    BY <1>0, Zenon DEF Unneeded
  <2>12. SumOK(p)'
    <3>1. work'[p].stage \in {"source", "mark"} /\ work'[p].image = w.image /\ work'[p].sum = {c}
      BY <2>1, <2>3, <2>4, <2>5, Zenon
    <3>2. work'[p].armed => Unneeded(c)'
      BY <1>0, <1>1, <2>3, <2>4, <2>5, <2>11, Zenon DEF SumOK
    <3> QED
      BY <1>3, <2>5, <2>6, <2>7, <3>1, <3>2, Zenon DEF SumOK
  <2>13. ASSUME NEW q \in Worker \ {p} PROVE SumOK(q)'
    <3>1. work[q].stage \notin Committing \cup CollectStage /\ SumOK(q)
      BY <1>0, Alone, Zenon DEF ImagesInv
    <3>2. work[q].stage = "cached" => work[q].sum \subseteq Checksum
      BY <3>1, CachedSum, Zenon
    <3>3. ASSUME work[q].stage = "cached", NEW d \in work[q].sum, version'[d] # {} PROVE d \in files'
      BY <3>1, <3>2, <3>3, <1>3, <2>5, <2>6, Zenon DEF SumOK
    <3> QED
      BY <3>1, <3>3, <2>4, OtherSum, Zenon
  <2> QED
    BY <1>3, <2>4, <2>8, <2>9, <2>10, <2>12, <2>13, Change, Zenon
<1> QED
  BY <1>2, <1>3, Zenon DEF insert_image_version

(* record_image_source: only a built disk has a digest. *)
LEMMA SourceStep ==
  ASSUME ImagesInv, Contents, NEW p \in Worker, record_image_source(p)
  PROVE  ImagesInv'
<1> DEFINE w == work[p]
<1>0. /\ work \in [Worker -> WorkRec] /\ w.stage = "source" /\ w.stage \in FetchStage /\ w.stage \in Committing
      /\ UNCHANGED <<listed, current, version, served, inst>>
  BY Zenon DEF record_image_source, FetchStage, Stored, Committing, ImagesInv, TypesOK
<1>1. w \in FetchRec /\ LocksOK(p) /\ SumOK(p)
  BY <1>0, RecordOfStage, Zenon DEF ImagesInv
<1>2. CASE Rollback(p) /\ UNCHANGED source
  BY <1>0, <1>2, RollbackStep, Zenon
<1>3. CASE /\ source' = {s \in source : s[1] # w.image \/ s[2] \notin w.digest}
                          \cup {<<w.image, d, c>> : d \in w.digest, c \in w.sum}
           /\ Goto(p, "mark") /\ UNCHANGED <<files, lock, ocilock>>
  <2>1. w.image \in Oci /\ w.sum \subseteq Disk
    BY <1>0, <1>1, Zenon DEF LocksOK, SumOK, Stored
  <2>2. \A i, d, c : <<i, d, c>> \in source' => c \in Disk
    BY <1>3, <2>1, SMTT(30) DEF ImagesInv, TypesOK, RowsOK
  <2> DEFINE r == [w EXCEPT !.stage = "mark"]
  <2>3. work' = [work EXCEPT ![p] = r]
    BY <1>0, <1>3, Zenon DEF Goto
  <2>4. r \in FetchRec /\ r.stage = "mark" /\ r.image = w.image /\ r.sum = w.sum /\ r.armed = w.armed
    BY <1>1, NewStage, ZenonT(30) DEF FetchStage, Stored, Committing
  <2> HIDE DEF r
  <2>5. work' \in [Worker -> WorkRec] /\ work'[p] = r /\ \A q \in Worker \ {p} : work'[q] = work[q]
    BY <2>3, <2>4, <1>0, ZenonT(30) DEF WorkRec
  <2>6. RowsOK'
    BY <1>0, <1>3, <2>2, Zenon DEF ImagesInv, TypesOK, RowsOK
  <2>7. LocksOK(p)'
    BY <1>0, <1>1, <1>3, <2>4, <2>5, Zenon DEF LocksOK, Committing, Stored, FetchStage, CollectStage
  <2>8. SumOK(p)'
    <3>1. \A c : Unneeded(c) => Unneeded(c)'
      BY <1>0, Zenon DEF Unneeded
    <3>2. work'[p].stage = "mark" /\ work'[p].image = w.image /\ work'[p].sum = w.sum /\ work'[p].armed = w.armed
      BY <2>4, <2>5, Zenon
    <3>3. /\ \E c \in IF w.image \in Oci THEN Disk ELSE Published : w.sum = {c}
          /\ w.sum \subseteq files /\ \A c \in w.sum : version[c] # {}
          /\ w.armed => \A c \in w.sum : Unneeded(c)
      BY <1>0, <1>1, Zenon DEF SumOK, Stored
    <3> QED
      BY <1>0, <1>3, <3>1, <3>2, <3>3, Zenon DEF SumOK
  <2> QED
    BY <1>0, <1>3, <2>5, <2>6, <2>7, <2>8, Move, Zenon
<1> QED
  BY <1>2, <1>3, SMTT(30) DEF record_image_source

(* set_current_checksum: what it points at is there, and nobody may take it back. *)
LEMMA MarkStep ==
  ASSUME ImagesInv, Contents, NEW p \in Worker, set_current_checksum(p)
  PROVE  ImagesInv'
<1> DEFINE w == work[p]
<1>0. /\ work \in [Worker -> WorkRec] /\ w.stage \in {"mark", "cached"} /\ w.stage \in FetchStage
      /\ w.stage \in Stored /\ UNCHANGED <<listed, version, source, served, inst>>
  BY Zenon DEF set_current_checksum, FetchStage, Stored, Committing, ImagesInv, TypesOK
<1>1. w \in FetchRec /\ LocksOK(p) /\ SumOK(p)
  BY <1>0, RecordOfStage, Zenon DEF ImagesInv
<1>2. PICK c \in w.sum :
        \/ /\ CanMark(w.image, c)
           /\ current' = [current EXCEPT ![w.image] = {c}]
           /\ lock' = lock \ {p} /\ ocilock' = ocilock \ {p}
           /\ Done(p, TRUE) /\ UNCHANGED files
        \/ ~CanMark(w.image, c) /\ Rollback(p) /\ UNCHANGED current
  BY Zenon DEF set_current_checksum
<1>3. CASE Rollback(p) /\ UNCHANGED current
  BY <1>0, <1>3, RollbackStep, Zenon DEF Committing
<1>4. CASE /\ CanMark(w.image, c)
           /\ current' = [current EXCEPT ![w.image] = {c}]
           /\ lock' = lock \ {p} /\ ocilock' = ocilock \ {p}
           /\ Done(p, TRUE) /\ UNCHANGED files
  <2>1. w.sum = {c} /\ c \in (IF w.image \in Oci THEN Disk ELSE Published) /\ c \in Checksum
    BY <1>0, <1>1, <1>2, Zenon DEF SumOK, Checksum
  <2>2. c \in files /\ version[c] # {} /\ w.image \in Image
    BY <1>0, <1>1, <1>4, <2>1, Zenon DEF SumOK, CanMark, has_image_version, FetchRec, Committing
  <2>3. /\ work' \in [Worker -> WorkRec] /\ work'[p].stage \in {"idle", "list", "forget"}
        /\ \A q \in Worker \ {p} : work'[q] = work[q]
    BY <1>0, <1>4, AfterDone, Zenon
  <2>4. \A i \in Image : current'[i] = IF i = w.image THEN {c} ELSE current[i]
    BY <1>4, <2>2, Zenon DEF ImagesInv, TypesOK, RowsOK
  <2>5. TypesOK'
    BY <1>0, <1>4, <2>1, <2>2, <2>3, Zenon DEF ImagesInv, TypesOK, RowsOK
  <2>6. KeptOK'
    BY <1>0, <1>4, <2>2, <2>4, SMTT(30) DEF ImagesInv, KeptOK
  <2>7. ASSUME NEW q \in Worker \ {p} PROVE SumOK(q)'
    <3>1. SumOK(q) /\ LocksOK(q) /\ work'[q] = work[q]
      BY <2>3, Zenon DEF ImagesInv
    <3>2. ASSUME work[q].stage \in Committing PROVE c \notin work[q].sum
      <4>1. w.stage = "cached" /\ w.image \in Oci
        BY <3>2, <1>0, <1>1, <3>1, Zenon DEF LocksOK, Committing
      <4>2. work[q].image \notin Oci
        BY <4>1, <1>1, <3>1, <3>2, Zenon DEF LocksOK, Stored
      <4> QED
        BY <4>1, <4>2, <2>1, <3>1, <3>2, Zenon DEF SumOK, Stored, Contents
    <3>3. ASSUME NEW d \in work[q].sum, Unneeded(d), d # c PROVE Unneeded(d)'
      BY <3>3, <2>4, <1>0, ZenonT(30) DEF Unneeded
    <3> QED
      BY <3>1, <3>2, <3>3, <1>0, <1>4, ZenonT(30) DEF SumOK
  <2> QED
    BY <1>4, <2>3, <2>5, <2>6, <2>7, Change, AtEase, ZenonT(30)
<1> QED
  BY <1>2, <1>3, <1>4, ZenonT(30)

-----------------------------------------------------------------------------
(* A step of a collection to another of its stages. *)
LEMMA NewCollectStage ==
  ASSUME NEW w \in CollectRec, NEW s \in CollectStage
  PROVE  /\ [w EXCEPT !.stage = s] \in CollectRec
         /\ [w EXCEPT !.stage = s].stage = s /\ [w EXCEPT !.stage = s].sum = w.sum
  BY Zenon DEF CollectRec

\* A collector that moves on keeps the version it holds, and nobody else
\* moves.
LEMMA GotoCollect ==
  ASSUME ImagesInv, NEW p \in Worker, work[p].stage \in CollectStage, NEW s \in CollectStage, Goto(p, s)
  PROVE  /\ work' \in [Worker -> WorkRec] /\ \A q \in Worker \ {p} : work'[q] = work[q]
         /\ work'[p].stage = s /\ work'[p].sum = work[p].sum
<1> DEFINE r == [work[p] EXCEPT !.stage = s]
<1>1. work \in [Worker -> WorkRec] /\ work[p] \in CollectRec
  BY RecordOfStage, Zenon DEF ImagesInv, TypesOK
<1>2. r \in CollectRec /\ r.stage = s /\ r.sum = work[p].sum
  BY <1>1, NewCollectStage, Zenon
<1>3. work' = [work EXCEPT ![p] = r]
  BY <1>1, Zenon DEF Goto
<1> HIDE DEF r
<1> QED
  BY <1>1, <1>2, <1>3, Zenon DEF WorkRec

(* delete_image_version: the foreign keys keep the row of what is needed. *)
LEMMA DeleteStep ==
  ASSUME ImagesInv, Contents, NEW p \in Worker, delete_image_version(p)
  PROVE  ImagesInv'
<1>0. /\ work[p].stage = "doomed" /\ work[p].stage \in CollectStage
      /\ UNCHANGED <<listed, current, files, served, lock, ocilock, inst>>
      /\ LocksOK(p) /\ SumOK(p)
  BY Zenon DEF delete_image_version, CollectStage, ImagesInv
<1>1. PICK c \in Checksum : work[p].sum = {c}
  BY <1>0, Zenon DEF SumOK
<1>2. CASE Goto(p, "collect") /\ UNCHANGED <<version, source>>
  <2>1. /\ work' \in [Worker -> WorkRec] /\ \A q \in Worker \ {p} : work'[q] = work[q]
        /\ work'[p].stage = "collect" /\ work'[p].sum = work[p].sum
    BY <1>0, <1>2, GotoCollect, Zenon DEF CollectStage
  <2>2. LocksOK(p)' /\ SumOK(p)'
    BY <1>0, <2>1, Zenon DEF LocksOK, SumOK, Committing, Stored, FetchStage, CollectStage
  <2>3. RowsOK'
    BY <1>0, <1>2, Zenon DEF ImagesInv, TypesOK, RowsOK
  <2> QED
    BY <1>0, <1>2, <2>1, <2>2, <2>3, Move, Zenon
<1>3. CASE /\ DeletesRow(c) /\ version' = [version EXCEPT ![c] = {}]
           /\ source' = {s \in source : s[3] # c} /\ Goto(p, "unlink")
  <2>1. /\ work' \in [Worker -> WorkRec] /\ \A q \in Worker \ {p} : work'[q] = work[q]
        /\ work'[p].stage = "unlink" /\ work'[p].sum = {c}
    BY <1>0, <1>1, <1>3, GotoCollect, Zenon DEF CollectStage
  <2>2. \A d \in Checksum : version'[d] = IF d = c THEN {} ELSE version[d]
    BY <1>3, Zenon DEF ImagesInv, TypesOK, RowsOK
  <2>3. /\ \A i \in Image : current[i] # {c}
        /\ \A u \in Inst : inst[u].stage \in {"row", "disk"} => inst[u].base # c
    BY <1>3, Zenon DEF DeletesRow, Referenced, checksum_in_use
  <2>4. TypesOK'
    <3>1. source' \subseteq source /\ version' \in [Checksum -> SUBSET Image]
      BY <1>3, Zenon DEF ImagesInv, TypesOK, RowsOK
    <3> QED
      BY <3>1, <1>0, <2>1, Zenon DEF ImagesInv, TypesOK, RowsOK
  <2>5. KeptOK'
    <3>1. ASSUME NEW i \in Image, NEW d \in current[i]
          PROVE  current[i] = {d} /\ d \in files /\ version'[d] # {}
      <4>1. current[i] = {d} /\ d \in files /\ version[d] # {} /\ d \in Checksum
        BY Zenon DEF ImagesInv, KeptOK, TypesOK, RowsOK
      <4> QED
        BY <4>1, <2>2, <2>3, Zenon
    <3>2. ASSUME NEW u \in Inst, inst[u].stage \in {"row", "disk"}
          PROVE  version'[inst[u].base] # {}
      <4>1. inst[u].base \in Checksum
        BY <3>2, RecordOfInst, SMTT(30) DEF ImagesInv, TypesOK
      <4> QED
        BY <4>1, <3>2, <2>2, <2>3, Zenon DEF ImagesInv, KeptOK
    <3> QED
      BY <3>1, <3>2, <1>0, Zenon DEF ImagesInv, KeptOK
  <2>6. LocksOK(p)'
    BY <1>0, <2>1, Zenon DEF LocksOK, Committing, Stored, FetchStage, CollectStage
  <2>7. SumOK(p)'
    BY <2>1, <2>2, Zenon DEF SumOK, Committing, Stored
  <2>8. ASSUME NEW q \in Worker \ {p} PROVE SumOK(q)'
    <3>1. work[q].stage \notin Committing \cup CollectStage /\ SumOK(q)
      BY <1>0, Alone, Zenon DEF ImagesInv
    <3>2. work[q].stage = "cached" => work[q].sum \subseteq Checksum
      BY <3>1, CachedSum, Zenon
    <3>3. ASSUME work[q].stage = "cached", NEW d \in work[q].sum, version'[d] # {} PROVE d \in files'
      BY <3>1, <3>2, <3>3, <1>0, <2>2, Zenon DEF SumOK
    <3> QED
      BY <3>1, <3>3, <2>1, OtherSum, Zenon
  <2> QED
    BY <1>0, <2>1, <2>4, <2>5, <2>6, <2>7, <2>8, Change, Zenon
<1> QED
  BY <1>1, <1>2, <1>3, Zenon DEF delete_image_version

(* collect_unlink: the file of a version that has no row any more. *)
LEMMA UnlinkStep ==
  ASSUME ImagesInv, Contents, NEW p \in Worker, collect_unlink(p)
  PROVE  ImagesInv'
<1>0. /\ work[p].stage = "unlink" /\ work[p].stage \in CollectStage
      /\ UNCHANGED <<listed, current, version, source, served, lock, ocilock, inst>>
      /\ LocksOK(p) /\ SumOK(p) /\ Goto(p, "collect")
      /\ (files' = files \ work[p].sum \/ files' = files)
  BY Zenon DEF collect_unlink, CollectStage, tables, ImagesInv
<1>1. PICK c \in Checksum : work[p].sum = {c} /\ version[c] = {}
  BY <1>0, Zenon DEF SumOK
<1>2. files' \subseteq files /\ \A d \in files : version[d] # {} => d \in files'
  BY <1>0, <1>1, Zenon
<1>3. /\ work' \in [Worker -> WorkRec] /\ \A q \in Worker \ {p} : work'[q] = work[q]
      /\ work'[p].stage = "collect"
  BY <1>0, GotoCollect, Zenon DEF CollectStage
<1>4. TypesOK'
  BY <1>0, <1>2, <1>3, Zenon DEF ImagesInv, TypesOK, RowsOK
<1>5. KeptOK'
  BY <1>0, <1>2, Zenon DEF ImagesInv, KeptOK
<1>6. LocksOK(p)' /\ SumOK(p)'
  BY <1>0, <1>3, Zenon DEF LocksOK, SumOK, Committing, Stored, FetchStage, CollectStage
<1>7. ASSUME NEW q \in Worker \ {p} PROVE SumOK(q)'
  <2>1. work[q].stage \notin Committing \cup CollectStage /\ SumOK(q)
    BY <1>0, Alone, Zenon DEF ImagesInv
  <2>2. work[q].stage = "cached" => \A d \in work[q].sum : version'[d] # {} => d \in files'
    BY <2>1, <1>0, <1>2, Zenon DEF SumOK
  <2> QED
    BY <2>1, <2>2, <1>3, OtherSum, Zenon
<1> QED
  BY <1>0, <1>3, <1>4, <1>5, <1>6, <1>7, Change, Zenon

-----------------------------------------------------------------------------
(* A step of one instance.  A disk here appears only while nobody commits. *)
LEMMA InstStep ==
  ASSUME ImagesInv, NEW u \in Inst, NEW r \in InstRec, inst' = [inst EXCEPT ![u] = r],
         UNCHANGED <<listed, current, version, source, files, served, work, lock, ocilock>>,
         r.stage \in {"row", "disk"} => version[r.base] # {},
         r.stage = "disk" /\ ~r.far => r.base \in files /\ lock = {}
  PROVE  ImagesInv'
<1>1. inst' \in [Inst -> InstRec] /\ \A v \in Inst : inst'[v] = IF v = u THEN r ELSE inst[v]
  BY Zenon DEF ImagesInv, TypesOK
<1>2. TypesOK'
  BY <1>1, Zenon DEF ImagesInv, TypesOK, RowsOK
<1>3. KeptOK'
  BY <1>1, Zenon DEF ImagesInv, KeptOK
<1>4. ASSUME NEW q \in Worker PROVE LocksOK(q)' /\ SumOK(q)'
  <2>1. LocksOK(q) /\ SumOK(q)
    BY Zenon DEF ImagesInv
  <2>2. LocksOK(q)'
    BY <2>1, Zenon DEF LocksOK
  <2>3. ASSUME work[q].stage \in Committing, NEW c, Unneeded(c) PROVE Unneeded(c)'
    <3>1. ~(r.stage = "disk" /\ ~r.far)
      BY <2>1, <2>3, Zenon DEF LocksOK
    <3> QED
      BY <3>1, <2>3, <1>1, Zenon DEF Unneeded
  <2>4. SumOK(q)'
    BY <2>1, <2>3, Zenon DEF SumOK
  <2> QED
    BY <2>2, <2>4, Zenon
<1> QED
  BY <1>2, <1>3, <1>4, Zenon DEF ImagesInv

(* create, create_instance, create_overlay, remove. *)
LEMMA CreatingStep ==
  ASSUME ImagesInv, NEW u \in Inst, Creating(u)
  PROVE  ImagesInv'
<1>0. inst \in [Inst -> InstRec] /\ inst[u] \in InstRec /\ Idle \in InstRec /\ Idle.stage = "idle"
  BY Zenon DEF ImagesInv, TypesOK, InstRec, Idle
<1>1. ASSUME NEW i \in Image, create(u, i) PROVE ImagesInv'
  <2>1. PICK c \in current[i], far \in BOOLEAN :
          inst' = [inst EXCEPT ![u] = [stage |-> "read", base |-> c, image |-> i, far |-> far]]
    BY <1>1, Zenon DEF create
  <2>2. c \in Checksum
    BY Zenon DEF ImagesInv, TypesOK, RowsOK
  <2> DEFINE r == [stage |-> "read", base |-> c, image |-> i, far |-> far]
  <2>3. r \in InstRec /\ r.stage = "read" /\ inst' = [inst EXCEPT ![u] = r]
    BY <2>1, <2>2, Zenon DEF InstRec
  <2> HIDE DEF r
  <2>4. UNCHANGED <<listed, current, version, source, files, served, work, lock, ocilock>>
    BY <1>1, Zenon DEF create, tables
  <2> QED
    BY <2>3, <2>4, InstStep, Zenon
<1>2. CASE store_create_instance(u)
  <2> DEFINE r == IF has_image_version(inst[u].base) THEN [inst[u] EXCEPT !.stage = "row"] ELSE Idle
  <2>1. /\ inst[u].stage = "read" /\ inst' = [inst EXCEPT ![u] = r]
        /\ UNCHANGED <<listed, current, version, source, files, served, work, lock, ocilock>>
    BY <1>2, Zenon DEF store_create_instance, tables
  <2>2. inst[u] \in [stage : {"read", "row", "disk"}, base : Checksum, image : Image, far : BOOLEAN]
    BY <2>1, <1>0, RecordOfInst, Zenon
  <2>3. /\ [inst[u] EXCEPT !.stage = "row"] \in InstRec /\ [inst[u] EXCEPT !.stage = "row"].stage = "row"
        /\ [inst[u] EXCEPT !.stage = "row"].base = inst[u].base
    BY <2>2, Zenon DEF InstRec
  <2>4. r \in InstRec /\ r.stage # "disk" /\ (r.stage = "row" => version[r.base] # {})
    BY <2>3, <1>0, Zenon DEF has_image_version
  <2> HIDE DEF r
  <2> QED
    BY <2>1, <2>4, InstStep, Zenon
<1>3. CASE create_overlay(u)
  <2>1. /\ inst[u].stage = "row" /\ (inst[u].far \/ lock = {})
        /\ UNCHANGED <<listed, current, version, source, files, served, work, lock, ocilock>>
        /\ \/ OverlayReady(u) /\ inst' = [inst EXCEPT ![u].stage = "disk"]
           \/ inst' = [inst EXCEPT ![u] = Idle]
    BY <1>3, Zenon DEF create_overlay, acquire_lock, tables
  <2>2. inst[u] \in [stage : {"read", "row", "disk"}, base : Checksum, image : Image, far : BOOLEAN]
    BY <2>1, <1>0, RecordOfInst, Zenon
  <2>3. CASE inst' = [inst EXCEPT ![u] = Idle]
    BY <2>1, <2>3, <1>0, InstStep, Zenon
  <2>4. CASE OverlayReady(u) /\ inst' = [inst EXCEPT ![u].stage = "disk"]
    <3> DEFINE r == [inst[u] EXCEPT !.stage = "disk"]
    <3>1. r \in InstRec /\ r.stage = "disk" /\ r.base = inst[u].base /\ r.far = inst[u].far
      BY <2>2, Zenon DEF InstRec
    <3>2. inst' = [inst EXCEPT ![u] = r]
      BY <2>4, <1>0, Zenon
    <3> HIDE DEF r
    <3>3. version[r.base] # {} /\ (~r.far => r.base \in files /\ lock = {})
      BY <3>1, <2>1, <2>4, Zenon DEF ImagesInv, KeptOK, OverlayReady
    <3> QED
      BY <3>1, <3>2, <3>3, <2>1, InstStep, Zenon
  <2> QED
    BY <2>1, <2>3, <2>4, Zenon
<1>4. CASE remove(u)
  <2>1. /\ inst' = [inst EXCEPT ![u] = Idle]
        /\ UNCHANGED <<listed, current, version, source, files, served, work, lock, ocilock>>
    BY <1>4, Zenon DEF remove, tables
  <2> QED
    BY <2>1, <1>0, InstStep, Zenon
<1> QED
  BY <1>1, <1>2, <1>3, <1>4, Zenon DEF Creating

(* The steps of a sync, of a start and of a source touch no version and no process. *)
LEMMA SyncingStep ==
  ASSUME ImagesInv, Contents, Syncing \/ UNCHANGED imagesVars
  PROVE  ImagesInv' /\ UNCHANGED <<current, version, files, inst>>
<1>1. UNCHANGED <<current, version, source, files, work, inst, lock, ocilock>>
  BY Zenon DEF Syncing, imagesVars, sync_host, sync_images, SourceMoves, ensure_image, record_host_image, sync_fails,
         record_local_image_versions, sync_image_allowlist, tables
<1>2. listed' \subseteq Image
  BY Zenon DEF Syncing, imagesVars, sync_host, sync_images, SourceMoves, ensure_image, record_host_image, sync_fails,
         record_local_image_versions, sync_image_allowlist, tables, Contents, ImagesInv, TypesOK, RowsOK
<1>3. /\ served' \in [Image -> Published \cup Digest]
      /\ \A i \in Image : served'[i] \in IF i \in Oci THEN Digest ELSE Published
  <2>1. CASE UNCHANGED served
    BY <2>1, Zenon DEF ImagesInv, TypesOK, RowsOK
  <2>2. CASE \E i \in Image : SourceMoves(i)
    <3>1. PICK i \in Image : SourceMoves(i)
      BY <2>2, Zenon
    <3>2. PICK x \in IF i \in Oci THEN Digest ELSE Published : served' = [served EXCEPT ![i] = x]
      BY <3>1, Zenon DEF SourceMoves
    <3> QED
      BY <3>2, Zenon DEF ImagesInv, TypesOK, RowsOK
  <2>3. UNCHANGED served \/ \E i \in Image : SourceMoves(i)
    BY Zenon DEF Syncing, imagesVars, sync_host, sync_images, ensure_image, record_host_image, sync_fails,
           record_local_image_versions, sync_image_allowlist
  <2> QED
    BY <2>1, <2>2, <2>3, Zenon
<1>4. TypesOK' /\ KeptOK'
  BY <1>1, <1>2, <1>3, Zenon DEF ImagesInv, TypesOK, RowsOK, KeptOK
<1>5. ASSUME NEW q \in Worker PROVE LocksOK(q)' /\ SumOK(q)'
  <2>1. LocksOK(q) /\ SumOK(q)
    BY Zenon DEF ImagesInv
  <2> QED
    BY <2>1, <1>1, ZenonT(30) DEF LocksOK, SumOK, Unneeded
<1> QED
  BY <1>1, <1>4, <1>5, ZenonT(30) DEF ImagesInv

(* commit_fails is a rollback and nothing else. *)
LEMMA FailStep ==
  ASSUME ImagesInv, Contents, NEW p \in Worker, commit_fails(p)
  PROVE  ImagesInv'
  BY RollbackStep, Zenon DEF commit_fails, tables, Committing

(* Every step keeps the inductive invariant. *)
LEMMA StepOK ==
  ASSUME ImagesInv, Contents, [ImagesNext]_imagesVars
  PROVE  ImagesInv'
<1>1. ASSUME NEW p \in Worker, Fetching(p) PROVE ImagesInv'
  BY <1>1, BeginStep, DownloadStep, PullStep, CachedStep, BuildStep, EndStep, CommitStep, FailStep, InsertStep,
     SourceStep, MarkStep, CollectStep, DeleteStep, UnlinkStep, Zenon DEF Fetching
<1>2. ASSUME NEW u \in Inst, Creating(u) PROVE ImagesInv'
  BY <1>2, CreatingStep, Zenon
<1>3. CASE Syncing \/ UNCHANGED imagesVars
  BY <1>3, SyncingStep, Zenon
<1> QED
  BY <1>1, <1>2, <1>3, Zenon DEF ImagesNext

(***************************************************************************)
(* The store keeps what is needed: a version an image points at has its    *)
(* row and its file, and so has a version under a disk here, whatever      *)
(* fails or crashes on the way (fetch.rs commit_download,                  *)
(* commit_generated and collect; overlay.rs create_overlay).               *)
(***************************************************************************)
THEOREM NeededVersionsKept == ImagesSpec => []KeptOK
<1>0. Contents
  BY ImagesAssumption, Zenon DEF Contents
<1>1. ImagesInit => ImagesInv
  BY <1>0, ImagesInitOK, Zenon
<1>2. ImagesInv /\ [ImagesNext]_imagesVars => ImagesInv'
  BY <1>0, StepOK, Zenon
<1>3. ImagesInv => KeptOK
  BY Zenon DEF ImagesInv
<1> QED
  BY <1>1, <1>2, <1>3, PTL DEF ImagesSpec

-----------------------------------------------------------------------------
(* The refinement.  What each kind of step does to the catalogue.          *)

CatalogueStep == [Catalogue!Next]_<<Complete, current, Backing>>

(* A step that leaves the versions, the files and the instances alone is no step. *)
LEMMA Stutters ==
  ASSUME UNCHANGED <<current, version, files, inst>>
  PROVE  CatalogueStep
  BY Zenon DEF CatalogueStep, Complete, Backing, has_image_version

\* A version that comes to be complete is a step of the catalogue.
LEMMA Gains ==
  ASSUME NEW c \in Checksum, Complete' = Complete \cup {c}, UNCHANGED <<current, inst>>
  PROVE  CatalogueStep
<1>1. Backing' = Backing
  BY Zenon DEF Backing
<1>2. CASE c \in Complete
  BY <1>1, <1>2, Zenon DEF CatalogueStep
<1>3. CASE c \notin Complete
  BY <1>1, <1>3, Zenon DEF CatalogueStep, Catalogue!Next, Catalogue!Gain
<1> QED
  BY <1>2, <1>3, Zenon

\* What no instance names is not among the names of all of them.
LEMMA NotInUnion ==
  ASSUME NEW f, NEW S, NEW c, \A x \in S : c \notin f[x]
  PROVE  c \notin UNION {f[x] : x \in S}
  BY Zenon

\* So is one that goes while nothing needs it.
LEMMA Retires ==
  ASSUME NEW c, Unneeded(c), Complete' = Complete \ {c}, UNCHANGED <<current, inst>>
  PROVE  CatalogueStep
<1>1. Backing' = Backing
  BY Zenon DEF Backing
<1>2. c \notin Catalogue!Needed
  <2>1. \A i \in Image : c \notin current[i]
    BY Zenon DEF Unneeded
  <2>2. \A u \in Inst : c \notin Backing[u]
    BY Zenon DEF Unneeded, Backing
  <2>3. c \notin UNION {current[i] : i \in Image} /\ c \notin UNION {Backing[u] : u \in Inst}
    BY <2>1, <2>2, NotInUnion, Zenon
  <2> QED
    BY <2>3, Zenon DEF Catalogue!Needed
<1>3. CASE c \notin Complete
  BY <1>1, <1>3, Zenon DEF CatalogueStep
<1>4. CASE c \in Complete
  BY <1>1, <1>2, <1>4, Zenon DEF CatalogueStep, Catalogue!Next, Catalogue!Retire
<1> QED
  BY <1>3, <1>4, Zenon

(* A rollback retires a version nobody needs, or nothing. *)
LEMMA RollbackRefines ==
  ASSUME ImagesInv, NEW p \in Worker, work[p].stage \in Committing \cup {"cached"}, Rollback(p),
         UNCHANGED <<current, version, inst>>
  PROVE  CatalogueStep
<1>1. files' = (IF work[p].armed THEN files \ work[p].sum ELSE files) /\ LocksOK(p) /\ SumOK(p)
  BY Zenon DEF Rollback, ImagesInv
<1>2. CASE ~work[p].armed
  BY <1>1, <1>2, Stutters, Zenon
<1>3. CASE work[p].armed
  <2>1. work[p].stage \in Committing
    BY <1>1, <1>3, Zenon DEF LocksOK, FetchStage, Stored, Committing
  <2>2. PICK c : work[p].sum = {c} /\ Unneeded(c)
    BY <1>1, <1>3, <2>1, Zenon DEF SumOK, Stored
  <2>3. Complete' = Complete \ {c}
    BY <1>1, <1>3, <2>2, Zenon DEF Complete, has_image_version
  <2> QED
    BY <2>2, <2>3, Retires, Zenon
<1> QED
  BY <1>2, <1>3, Zenon

\* commit writes the file of a version whose row may already be there.
LEMMA CommitRefines ==
  ASSUME ImagesInv, NEW p \in Worker, commit(p)
  PROVE  CatalogueStep
<1>0. UNCHANGED <<current, version, inst>> /\ work[p].stage \in Stored /\ SumOK(p)
  BY Zenon DEF commit, tables, Stored, ImagesInv
<1>1. PICK c \in work[p].sum : files' = files \cup {c}
  BY Zenon DEF commit
<1>2. c \in Checksum
  BY <1>0, <1>1, Zenon DEF SumOK, Checksum
<1>3. CASE version[c] = {}
  BY <1>0, <1>1, <1>3, Zenon DEF CatalogueStep, Complete, Backing, has_image_version
<1>4. CASE version[c] # {}
  <2>1. Complete' = Complete \cup {c}
    BY <1>0, <1>1, <1>4, Zenon DEF Complete, has_image_version
  <2> QED
    BY <2>1, <1>0, <1>2, Gains, Zenon
<1> QED
  BY <1>3, <1>4, Zenon

\* insert_image_version writes the row of a version whose file is there.
LEMMA InsertRefines ==
  ASSUME ImagesInv, NEW p \in Worker, insert_image_version(p)
  PROVE  CatalogueStep
<1>0. /\ UNCHANGED <<current, inst>> /\ work[p].stage = "insert" /\ SumOK(p) /\ files \subseteq Checksum
      /\ work[p].stage \in Stored /\ work[p].stage \in Committing
  BY Zenon DEF insert_image_version, Stored, Committing, ImagesInv, TypesOK, RowsOK
<1>1. CASE Rollback(p) /\ UNCHANGED version
  BY <1>0, <1>1, RollbackRefines, Zenon
<1>2. CASE /\ version' = [c \in Checksum |-> IF c \in work[p].sum THEN {work[p].image} ELSE version[c]]
           /\ UNCHANGED files
  <2>1. PICK c \in Checksum : work[p].sum = {c} /\ c \in files
    BY <1>0, Zenon DEF SumOK, Checksum
  <2>2. \A d \in files : version'[d] = IF d = c THEN {work[p].image} ELSE version[d]
    BY <1>0, <1>2, <2>1, Zenon
  <2>3. Complete' = Complete \cup {c}
    BY <1>2, <2>1, <2>2, Zenon DEF Complete, has_image_version
  <2> QED
    BY <2>1, <2>3, <1>0, Gains, Zenon
<1> QED
  BY <1>1, <1>2, Zenon DEF insert_image_version

\* set_current_checksum makes current only a version that is complete.
LEMMA MarkRefines ==
  ASSUME ImagesInv, NEW p \in Worker, set_current_checksum(p)
  PROVE  CatalogueStep
<1>0. /\ UNCHANGED <<version, inst>> /\ work[p].stage \in {"mark", "cached"} /\ SumOK(p)
      /\ work[p].stage \in FetchStage /\ work \in [Worker -> WorkRec]
  BY Zenon DEF set_current_checksum, Stored, Committing, FetchStage, ImagesInv, TypesOK
<1>1. work[p].image \in Image
  BY <1>0, RecordOfStage, SMTT(30) DEF FetchRec
<1>2. PICK c \in work[p].sum :
        \/ CanMark(work[p].image, c) /\ current' = [current EXCEPT ![work[p].image] = {c}] /\ UNCHANGED files
        \/ Rollback(p) /\ UNCHANGED current
  BY Zenon DEF set_current_checksum
<1>3. CASE Rollback(p) /\ UNCHANGED current
  BY <1>0, <1>3, RollbackRefines, Zenon DEF Committing
<1>4. CASE CanMark(work[p].image, c) /\ current' = [current EXCEPT ![work[p].image] = {c}] /\ UNCHANGED files
  <2>1. c \in Complete
    BY <1>0, <1>2, <1>4, Zenon DEF SumOK, CanMark, Complete, has_image_version, Committing
  <2>2. Complete' = Complete /\ Backing' = Backing
    BY <1>0, <1>4, Zenon DEF Complete, Backing, has_image_version
  <2> QED
    BY <1>1, <1>4, <2>1, <2>2, Zenon DEF CatalogueStep, Catalogue!Next, Catalogue!Point
<1> QED
  BY <1>2, <1>3, <1>4, Zenon

\* delete_image_version takes the row of a version nothing needs.
LEMMA DeleteRefines ==
  ASSUME ImagesInv, NEW p \in Worker, delete_image_version(p)
  PROVE  CatalogueStep
<1>0. UNCHANGED <<current, files, inst>> /\ version \in [Checksum -> SUBSET Image] /\ files \subseteq Checksum
  BY Zenon DEF delete_image_version, ImagesInv, TypesOK, RowsOK
<1>1. PICK c : (DeletesRow(c) /\ version' = [version EXCEPT ![c] = {}]) \/ UNCHANGED version
  BY Zenon DEF delete_image_version
<1>2. CASE UNCHANGED version
  BY <1>0, <1>2, Stutters, Zenon
<1>3. CASE DeletesRow(c) /\ version' = [version EXCEPT ![c] = {}]
  <2>1. Unneeded(c)
    BY <1>3, Zenon DEF DeletesRow, Referenced, checksum_in_use, Unneeded, ImagesInv, KeptOK
  <2>2. \A d \in files : version'[d] = IF d = c THEN {} ELSE version[d]
    BY <1>0, <1>3, Zenon
  <2>3. Complete' = Complete \ {c}
    BY <1>0, <2>2, Zenon DEF Complete, has_image_version
  <2> QED
    BY <2>1, <2>3, <1>0, Retires, Zenon
<1> QED
  BY <1>1, <1>2, <1>3, Zenon

\* The collector unlinks only a file whose row is gone.
LEMMA UnlinkRefines ==
  ASSUME ImagesInv, NEW p \in Worker, collect_unlink(p)
  PROVE  CatalogueStep
<1>1. /\ UNCHANGED <<current, version, inst>> /\ (files' = files \ work[p].sum \/ files' = files)
      /\ work[p].stage = "unlink" /\ SumOK(p)
  BY Zenon DEF collect_unlink, tables, ImagesInv
<1>2. \A c \in work[p].sum : version[c] = {}
  BY <1>1, Zenon DEF SumOK
<1>3. Complete' = Complete /\ Backing' = Backing
  BY <1>1, <1>2, Zenon DEF Complete, Backing, has_image_version
<1> QED
  BY <1>1, <1>3, Zenon DEF CatalogueStep

(* An instance makes its disk over a complete version, or takes it away. *)
LEMMA CreatingRefines ==
  ASSUME ImagesInv, NEW u \in Inst, Creating(u)
  PROVE  CatalogueStep
<1> DEFINE Here(r) == r.stage = "disk" /\ ~r.far
<1>0. /\ inst \in [Inst -> InstRec] /\ inst[u] \in InstRec /\ ~Here(Idle)
      /\ UNCHANGED <<current, version, files>> /\ Complete' = Complete
  BY Zenon DEF ImagesInv, TypesOK, Idle, Creating, create, store_create_instance, create_overlay, remove, tables, Complete,
         has_image_version
<1>1. ASSUME NEW r, inst' = [inst EXCEPT ![u] = r], ~Here(inst[u]), ~Here(r) PROVE CatalogueStep
  <2>1. \A v \in Inst : inst'[v] = IF v = u THEN r ELSE inst[v]
    BY <1>0, <1>1, Zenon
  <2>2. Backing' = Backing
    BY <1>1, <2>1, Zenon DEF Backing
  <2> QED
    BY <1>0, <2>2, Zenon DEF CatalogueStep
<1>2. ASSUME NEW i \in Image, create(u, i) PROVE CatalogueStep
  <2>1. PICK c \in current[i], far \in BOOLEAN :
          inst' = [inst EXCEPT ![u] = [stage |-> "read", base |-> c, image |-> i, far |-> far]]
    BY <1>2, Zenon DEF create
  <2>2. inst[u] = Idle
    BY <1>2, Zenon DEF create
  <2> QED
    BY <2>1, <2>2, <1>0, <1>1, Zenon
<1>3. CASE store_create_instance(u)
  <2> DEFINE r == IF has_image_version(inst[u].base) THEN [inst[u] EXCEPT !.stage = "row"] ELSE Idle
  <2>1. inst[u].stage = "read" /\ inst' = [inst EXCEPT ![u] = r]
    BY <1>3, Zenon DEF store_create_instance
  <2>2. inst[u] \in [stage : {"read", "row", "disk"}, base : Checksum, image : Image, far : BOOLEAN]
    BY <2>1, <1>0, RecordOfInst, Zenon
  <2>3. ~Here(r)
    BY <2>2, <1>0, Zenon
  <2> QED
    BY <2>1, <2>3, <1>1, Zenon
<1>4. CASE create_overlay(u)
  <2>1. /\ inst[u].stage = "row"
        /\ \/ OverlayReady(u) /\ inst' = [inst EXCEPT ![u].stage = "disk"]
           \/ inst' = [inst EXCEPT ![u] = Idle]
    BY <1>4, Zenon DEF create_overlay
  <2>2. inst[u] \in [stage : {"read", "row", "disk"}, base : Checksum, image : Image, far : BOOLEAN]
    BY <2>1, <1>0, RecordOfInst, Zenon
  <2>3. CASE inst' = [inst EXCEPT ![u] = Idle]
    BY <2>1, <2>3, <1>0, <1>1, Zenon
  <2>4. CASE OverlayReady(u) /\ inst' = [inst EXCEPT ![u].stage = "disk"]
    <3> DEFINE r == [inst[u] EXCEPT !.stage = "disk"]
    <3>1. r.stage = "disk" /\ r.base = inst[u].base /\ r.far = inst[u].far
      BY <2>2, Zenon
    <3>2. inst' = [inst EXCEPT ![u] = r]
      BY <2>4, <1>0, Zenon
    <3> HIDE DEF r
    <3>3. CASE r.far
      BY <2>1, <3>1, <3>2, <3>3, <1>1, Zenon
    <3>4. CASE ~r.far
      <4>1. inst[u].base \in Complete
        BY <2>1, <2>4, <3>1, <3>4, Zenon DEF OverlayReady, ImagesInv, KeptOK, Complete, has_image_version
      <4>2. \A v \in Inst : inst'[v] = IF v = u THEN r ELSE inst[v]
        BY <1>0, <3>2, Zenon
      <4>3. Backing[u] = {} /\ Backing' = [Backing EXCEPT ![u] = {inst[u].base}]
        BY <4>2, <3>1, <3>4, <2>1, Zenon DEF Backing
      <4> QED
        BY <4>1, <4>3, <1>0, Zenon DEF CatalogueStep, Catalogue!Next, Catalogue!Make
    <3> QED
      BY <3>3, <3>4, Zenon
  <2> QED
    BY <2>1, <2>3, <2>4, Zenon
<1>5. CASE remove(u)
  <2>1. inst' = [inst EXCEPT ![u] = Idle]
    BY <1>5, Zenon DEF remove
  <2>2. CASE ~Here(inst[u])
    BY <2>1, <2>2, <1>0, <1>1, Zenon
  <2>3. CASE Here(inst[u])
    <3>1. \A v \in Inst : inst'[v] = IF v = u THEN Idle ELSE inst[v]
      BY <1>0, <2>1, Zenon
    <3>2. Backing[u] # {} /\ Backing' = [Backing EXCEPT ![u] = {}]
      BY <3>1, <2>3, <1>0, Zenon DEF Backing
    <3> QED
      BY <3>2, <1>0, Zenon DEF CatalogueStep, Catalogue!Next, Catalogue!Unmake
  <2> QED
    BY <2>2, <2>3, Zenon
<1> QED
  BY <1>2, <1>3, <1>4, <1>5, Zenon DEF Creating

(* Every step is a step of the catalogue or none. *)
LEMMA StepRefines ==
  ASSUME ImagesInv, Contents, [ImagesNext]_imagesVars
  PROVE  CatalogueStep
<1>1. ASSUME NEW p \in Worker, Fetching(p) PROVE CatalogueStep
  <2>1. CASE \/ fetch_images(p) \/ fetch_one(p) \/ (\E i \in Image : add_oci_image(p, i))
             \/ download(p) \/ fetch_oci(p) \/ find_cached(p) \/ image_builder(p) \/ contract_fails(p)
             \/ fetch_fails(p) \/ delete_unbuilt_image(p) \/ collect(p) \/ collect_look(p)
             \/ collect_ends(p) \/ Crash(p)
    <3>1. UNCHANGED <<current, version, files, inst>>
      BY <2>1, Zenon DEF fetch_images, fetch_one, add_oci_image, download, fetch_oci, find_cached, image_builder,
                  contract_fails, fetch_fails, delete_unbuilt_image, collect, collect_look, collect_ends,
                  Crash, tables
    <3> QED
      BY <3>1, Stutters, Zenon
  <2>2. CASE commit_fails(p)
    BY <2>2, RollbackRefines, Zenon DEF commit_fails, tables, Committing
  <2>3. CASE record_image_source(p)
    <3>1. /\ UNCHANGED <<current, version, inst>> /\ work[p].stage \in Committing
          /\ (UNCHANGED files \/ Rollback(p))
      BY <2>3, SMTT(30) DEF record_image_source, Committing
    <3> QED
      BY <3>1, Stutters, RollbackRefines, Zenon
  <2> QED
    BY <1>1, <2>1, <2>2, <2>3, CommitRefines, InsertRefines, MarkRefines, DeleteRefines, UnlinkRefines, Zenon
       DEF Fetching
<1>2. CASE Syncing \/ UNCHANGED imagesVars
  BY <1>2, SyncingStep, Stutters, Zenon
<1> QED
  BY <1>1, <1>2, CreatingRefines, Zenon DEF ImagesNext

\* The store at the start is a catalogue at its start.
LEMMA InitRefines == ImagesInit => Catalogue!Init
  BY SMTT(30) DEF ImagesInit, EmptyStore, Catalogue!Init, Complete, Backing, Idle

(***************************************************************************)
(* The store implements its catalogue: no failed write, crash, rollback or *)
(* collection takes the row or the file of a version that an image points  *)
(* at or a disk here is backed by, and an image or a disk only ever takes  *)
(* up a complete version (fetch.rs commit_download, commit_generated and   *)
(* collect; overlay.rs create_overlay).                                    *)
(***************************************************************************)
THEOREM StoreImplementsCatalogue == ImagesSpec => KeepsCatalogue
<1>0. Contents
  BY ImagesAssumption, Zenon DEF Contents
<1>1. ImagesInit => ImagesInv
  BY <1>0, ImagesInitOK, Zenon
<1>2. ImagesInv /\ [ImagesNext]_imagesVars => ImagesInv'
  BY <1>0, StepOK, Zenon
<1>3. ImagesInv /\ [ImagesNext]_imagesVars => [Catalogue!Next]_<<Complete, current, Backing>>
  BY <1>0, StepRefines, Zenon DEF CatalogueStep
<1> QED
  BY <1>1, <1>2, <1>3, InitRefines, PTL DEF ImagesSpec, KeepsCatalogue, Catalogue!Spec

-----------------------------------------------------------------------------
(* RunnerSlots.                                                            *)

INSTANCE WellFoundedInduction

(***************************************************************************)
(* One instance: the create still works with the current prefix, or a      *)
(* change of prefix overlapped it; the address it chose is in the slot it  *)
(* chose; its row, if nothing overlapped, is in a slot of its host.        *)
(***************************************************************************)
InstanceOK(k, own, p) ==
  /\ k.stage # "none" => k.host \in Hosts
  /\ k.stage \in {"placed", "choosing", "addressed"} /\ ~k.overlapped => k.read = p
  /\ k.stage = "choosing" => k.owned # {}
  /\ k.stage = "addressed" => k.slot = SlotOf(k.address, k.read)
  /\ k.stage = "row" /\ ~k.overlapped =>
       k.slot = SlotOf(k.address, p) /\ own[k.slot] = k.host

IInv ==
  /\ TypeOK
  /\ \A i \in Instances : InstanceOK(instance[i], owner, prefix)
------------------------------------------------------------------------------
(* Division bounds its dividend. *)
LEMMA Division ==
  ASSUME NEW a \in Nat, NEW c \in Nat \ {0}
  PROVE  (a \div c) \in Nat /\ (a \div c) * c <= a /\ a < (a \div c) * c + c
  OBVIOUS

(* An interval between multiples of c bounds the quotient. *)
LEMMA Quotient ==
  ASSUME NEW a \in Nat, NEW c \in Nat \ {0}, NEW q \in Nat, NEW m \in Nat, NEW n \in Nat,
         q * c <= a, a < q * c + c, m * c <= a, a < n * c
  PROVE  m <= q /\ q < n
<1>1. ASSUME q < m PROVE FALSE
  <2>1. PICK d \in Nat : m = q + 1 + d
    BY <1>1
  <2>2. m * c = q * c + c + d * c
    BY <2>1
  <2>3. d * c >= 0
    OBVIOUS
  <2> QED
    BY <2>2, <2>3
<1>2. ASSUME n <= q PROVE FALSE
  <2>1. PICK d \in Nat : q = n + d
    BY <1>2
  <2>2. q * c = n * c + d * c
    BY <2>1
  <2>3. d * c >= 0
    OBVIOUS
  <2> QED
    BY <2>2, <2>3
<1> QED
  BY <1>1, <1>2

(* The lowest member of a set of numbers is one of its members. *)
LEMMA MinIsMember ==
  ASSUME NEW S \in SUBSET Nat, S # {}
  PROVE  Min(S) \in S
<1> DEFINE R == OpToRel(<, Nat)
<1>1. IsWellFoundedOn(R, Nat)
  BY NatLessThanWellFounded, Zenon
<1>2. \A x, y \in Nat : y < x => <<y, x>> \in R
  BY DEF OpToRel
<1> HIDE DEF R
<1>3. PICK x \in S : \A y \in S : ~(<<y, x>> \in R)
  BY <1>1, WFMin, Zenon
<1>4. ASSUME NEW y \in S PROVE x <= y
  <2>1. x \in Nat /\ y \in Nat
    OBVIOUS
  <2>2. ~(y < x)
    BY <1>2, <1>3, <2>1, Zenon
  <2> QED
    BY <2>1, <2>2
<1> QED
  BY <1>4, Zenon DEF Min

(* An address is in one of the eight cells, and its slot is one of the prefix's. *)
LEMMA SlotOfAddress ==
  ASSUME NEW a \in Octets, NEW p \in 24..27
  PROVE  /\ a \div Cell \in Slots
         /\ SlotOf(a, p) \in Slots
         /\ SlotOf(a, p) < Count(p)
<1>1. a \in Nat /\ Cell \in Nat \ {0} /\ a < 8 * Cell
  BY SlotsAssumption DEF Octets
<1>2. (a \div Cell) \in Nat /\ (a \div Cell) * Cell <= a /\ a < (a \div Cell) * Cell + Cell
  BY <1>1, Division
<1>3. a \div Cell < 8
  BY <1>1, <1>2, Quotient
<1> QED
  BY <1>2, <1>3 DEF SlotOf, Count, Slots

(* allocate_address keeps to the slot it was given. *)
LEMMA AssignableIsInSlot ==
  ASSUME NEW p \in 24..27, NEW s \in Slots, s < Count(p), NEW a \in Assignable(s, p)
  PROVE  SlotOf(a, p) = s
<1> DEFINE k == 8 \div Count(p)
           q == a \div Cell
<1>1. a \in Nat /\ Cell \in Nat \ {0}
  BY SlotsAssumption DEF Assignable, Octets
<1>2. k \in {1, 2, 4, 8}
  BY DEF Count
<1>3. q \in Nat /\ q * Cell <= a /\ a < q * Cell + Cell
  BY <1>1, Division
<1>4. a > s * (Cell * k) /\ a < s * (Cell * k) + Cell * k - 1
  BY DEF Assignable, Width
<1> HIDE DEF k, q
<1>5. s \in Nat /\ s * (Cell * k) = (s * k) * Cell /\ s * (Cell * k) + Cell * k = (s * k + k) * Cell
  BY <1>1, <1>2 DEF Slots
<1>6. (s * k) * Cell <= a /\ a < (s * k + k) * Cell
  BY <1>1, <1>2, <1>4, <1>5
<1>7. s * k <= q /\ q < s * k + k
  BY <1>1, <1>2, <1>3, <1>5, <1>6, Quotient
<1>8. q \div k = s
  BY <1>2, <1>3, <1>5, <1>7
<1> QED
  BY <1>8 DEF SlotOf, k, q

(***************************************************************************)
(* renumber_slots: an owned address has the same owner under the new       *)
(* numbers, whether slots are split or merged.                             *)
(***************************************************************************)
LEMMA RenumberedKeepsOwner ==
  ASSUME TypeOK, NEW new \in 24..27, new >= prefix \/ ~SplitsOwners(new),
         NEW a \in Octets, owner[SlotOf(a, prefix)] # NoHost
  PROVE  Renumbered(new)[SlotOf(a, new)] = owner[SlotOf(a, prefix)]
<1> DEFINE c == a \div Cell
           s == SlotOf(a, new)
           t == SlotOf(a, prefix)
<1>1. prefix \in 24..27 /\ owner \in [Slots -> Hosts \cup {NoHost}]
  BY DEF TypeOK
<1>2. c \in Slots /\ s \in Slots /\ t \in Slots /\ s < Count(new)
  BY <1>1, SlotOfAddress
<1>3. s = c \div (8 \div Count(new)) /\ t = c \div (8 \div Count(prefix))
  BY DEF SlotOf
<1> HIDE DEF c, s, t
<1>4. CASE new >= prefix
  <2>1. s \div (Count(new) \div Count(prefix)) = t
    BY <1>1, <1>2, <1>3, <1>4 DEF Count, Slots
  <2> QED
    BY <1>2, <1>4, <2>1 DEF Renumbered, s, t
<1>5. CASE ~(new >= prefix)
  <2> DEFINE ratio == Count(prefix) \div Count(new)
             merged == {u \in Slots : u \div ratio = s /\ owner[u] # NoHost}
  <2>1. t \div ratio = s
    BY <1>1, <1>2, <1>3, <1>5 DEF Count, Slots
  <2>2. t \in merged
    BY <1>2, <2>1 DEF t
  <2>3. \A u \in merged : owner[u] = owner[t]
    BY <1>5, <2>2 DEF SplitsOwners
  <2>4. Renumbered(new)[s] = owner[CHOOSE u \in merged : TRUE]
    BY <1>2, <1>5, <2>2 DEF Renumbered
  <2> HIDE DEF merged
  <2> QED
    BY <2>2, <2>3, <2>4 DEF s, t
<1> QED
  BY <1>4, <1>5

(* The initial state satisfies the inductive invariant. *)
LEMMA InitOK == Init => IInv
<1> SUFFICES ASSUME Init PROVE IInv
  OBVIOUS
<1>1. Absent \in InstanceRecord
  BY SlotsAssumption DEF Absent, InstanceRecord, Slots, Octets
<1>2. TypeOK
  BY <1>1 DEF Init, TypeOK
<1> QED
  BY <1>2 DEF Init, IInv, InstanceOK, Absent

(* A step on one instance keeps the invariant if its new record fits. *)
LEMMA OneInstance ==
  ASSUME IInv, NEW i \in Instances, NEW k \in InstanceRecord, InstanceOK(k, owner, prefix),
         instance' = [instance EXCEPT ![i] = k], UNCHANGED <<prefix, owner, asked>>
  PROVE  IInv'
  BY DEF IInv, TypeOK

(* An instance that is not there fits. *)
LEMMA AbsentFits == Absent \in InstanceRecord /\ InstanceOK(Absent, owner, prefix)
  BY SlotsAssumption DEF Absent, InstanceRecord, InstanceOK, Slots, Octets

(* The steps of a create and a delete keep the invariant. *)
LEMMA CreateStep ==
  ASSUME IInv, NEW i \in Instances,
         \/ \E h \in Hosts : BeginCreate(i, h)
         \/ ReadSlots(i) \/ TrySlot(i) \/ Insert(i) \/ Delete(i)
  PROVE  IInv'
<1> DEFINE k == instance[i]
<1>1. k \in InstanceRecord /\ InstanceOK(k, owner, prefix)
  BY DEF IInv, TypeOK
<1>2. prefix \in 24..27 /\ owner \in [Slots -> Hosts \cup {NoHost}] /\ instance \in [Instances -> InstanceRecord]
  BY DEF IInv, TypeOK
<1>3. ASSUME NEW h \in Hosts, BeginCreate(i, h) PROVE IInv'
  <2> DEFINE n == [Absent EXCEPT !.stage = "placed", !.host = h, !.read = prefix]
  <2>1. n \in InstanceRecord /\ InstanceOK(n, owner, prefix)
    BY <1>2, AbsentFits, Zenon DEF InstanceRecord, InstanceOK, Absent
  <2>2. instance' = [instance EXCEPT ![i] = n] /\ UNCHANGED <<prefix, owner, asked>>
    BY <1>3, Zenon DEF BeginCreate
  <2> HIDE DEF n
  <2> QED
    BY <2>1, <2>2, OneInstance, Zenon
<1>4. CASE ReadSlots(i)
  <2> DEFINE owned == {s \in Slots : owner[s] = instance[i].host}
             n == IF owned = {} THEN Absent ELSE [k EXCEPT !.stage = "choosing", !.owned = owned]
  <2>1. n \in InstanceRecord /\ InstanceOK(n, owner, prefix)
    <3>1. CASE owned = {}
      BY <3>1, AbsentFits, SMTT(60)
    <3>2. CASE owned # {}
      BY <1>1, <1>4, <3>2, Zenon DEF ReadSlots, InstanceRecord, InstanceOK
    <3> QED
      BY <3>1, <3>2
  <2>2. instance' = [instance EXCEPT ![i] = n] /\ UNCHANGED <<prefix, owner, asked>>
    BY <1>4, <1>2 DEF ReadSlots
  <2> HIDE DEF n
  <2> QED
    BY <2>1, <2>2, OneInstance, Zenon
<1>5. CASE TrySlot(i)
  <2> DEFINE s == Min(k.owned)
             free == Free(s, k.read)
             left == k.owned \ {s}
             n == IF s >= Count(k.read) \/ (free = {} /\ left = {}) THEN Absent
                  ELSE IF free = {} THEN [k EXCEPT !.owned = left]
                  ELSE [k EXCEPT !.stage = "addressed", !.owned = {},
                                 !.slot = s, !.address = Min(free)]
  <2>1. k.stage = "choosing" /\ k.owned # {} /\ k.owned \in SUBSET Slots /\ k.read \in 24..27
    BY <1>1, <1>5 DEF TrySlot, InstanceOK, InstanceRecord
  <2>2. s \in Slots
    BY <2>1, MinIsMember DEF Slots
  <2>3. free \subseteq Octets
    BY SMTT(60) DEF Free, Assignable
  <2>4. ASSUME s < Count(k.read), free # {}
        PROVE  Min(free) \in Octets /\ SlotOf(Min(free), k.read) = s
    <3>1. Min(free) \in free
      <4>1. free \in SUBSET Nat
        BY <2>3, SlotsAssumption, SMTT(60) DEF Octets
      <4> HIDE DEF free
      <4> QED
        BY <2>4, <4>1, MinIsMember, SMTT(60)
    <3>2. Min(free) \in Assignable(s, k.read)
      BY <3>1, SMTT(60) DEF Free
    <3> QED
      BY <2>1, <2>2, <2>3, <2>4, <3>1, <3>2, AssignableIsInSlot, SMTT(60)
  <2>5. instance' = [instance EXCEPT ![i] = n] /\ UNCHANGED <<prefix, owner, asked>>
    BY <1>2, <1>5 DEF TrySlot
  <2>6. Count(k.read) \in Nat /\ s \in Nat
    BY <2>2, SMTT(60) DEF Count, Slots
  <2>7. n \in InstanceRecord /\ InstanceOK(n, owner, prefix)
    <3>1. CASE s >= Count(k.read) \/ (free = {} /\ left = {})
      BY <3>1, AbsentFits, SMTT(60)
    <3>2. CASE ~(s >= Count(k.read) \/ (free = {} /\ left = {})) /\ free = {}
      <4>1. n = [k EXCEPT !.owned = left] /\ left # {} /\ left \in SUBSET Slots
        BY <2>1, <3>2, SMTT(60)
      <4> HIDE DEF s, free, left, n
      <4> QED
        BY <1>1, <2>1, <4>1, SMTT(60) DEF InstanceRecord, InstanceOK
    <3>3. CASE ~(s >= Count(k.read) \/ (free = {} /\ left = {})) /\ free # {}
      <4> DEFINE a == Min(free)
      <4>1. n = [k EXCEPT !.stage = "addressed", !.owned = {}, !.slot = s, !.address = a]
        BY <3>3, SMTT(60)
      <4>2. a \in Octets /\ SlotOf(a, k.read) = s
        BY <2>4, <2>6, <3>3
      <4> HIDE DEF s, free, left, n, a
      <4> QED
        BY <1>1, <2>1, <2>2, <4>1, <4>2, ZenonT(60) DEF InstanceRecord, InstanceOK
    <3> QED
      BY <3>1, <3>2, <3>3, SMTT(60)
  <2> HIDE DEF n
  <2> QED
    BY <2>5, <2>7, OneInstance, ZenonT(60)
<1>6. CASE Insert(i)
  <2> DEFINE n == IF instance[i].address \notin Used /\ TriggerAllows(owner, instance[i].host, instance[i].slot)
                  THEN [k EXCEPT !.stage = "row"] ELSE Absent
  <2>1. n \in InstanceRecord /\ InstanceOK(n, owner, prefix)
    <3>1. CASE instance[i].address \notin Used /\ TriggerAllows(owner, instance[i].host, instance[i].slot)
      BY <1>1, <1>6, <3>1, SMTT(60) DEF Insert, TriggerAllows, InstanceRecord, InstanceOK
    <3>2. CASE ~(instance[i].address \notin Used /\ TriggerAllows(owner, instance[i].host, instance[i].slot))
      BY <3>2, AbsentFits, SMTT(60)
    <3> QED
      BY <3>1, <3>2, SMTT(60)
  <2>2. instance' = [instance EXCEPT ![i] = n] /\ UNCHANGED <<prefix, owner, asked>>
    BY <1>2, <1>6 DEF Insert
  <2> HIDE DEF n
  <2> QED
    BY <2>1, <2>2, OneInstance, Zenon
<1>7. CASE Delete(i)
  BY <1>7, AbsentFits, OneInstance, ZenonT(60) DEF Delete
<1> QED
  BY <1>3, <1>4, <1>5, <1>6, <1>7

(* claim_slot keeps the invariant: no live address changes its owner. *)
LEMMA GiveStep ==
  ASSUME IInv, NEW s \in Slots, NEW h \in Hosts, Give(s, h)
  PROVE  IInv'
<1>1. TypeOK'
  BY DEF Give, IInv, TypeOK
<1>2. ASSUME NEW i \in Instances PROVE InstanceOK(instance[i], owner', prefix)
  BY DEF Give, Occupied, Row, IInv, TypeOK, InstanceOK
<1> QED
  BY <1>1, <1>2, ZenonT(60) DEF Give, IInv

(* set_runner_prefix keeps the invariant. *)
LEMMA SetPrefixStep ==
  ASSUME IInv, NEW k \in Operators, SetPrefix(k)
  PROVE  IInv'
<1> DEFINE new == asked[k]
           own == Renumbered(new)
<1>1. /\ new \in 24..27 /\ prefix \in 24..27 /\ owner \in [Slots -> Hosts \cup {NoHost}]
      /\ instance \in [Instances -> InstanceRecord] /\ asked \in [Operators -> 24..27]
      /\ asked' \in [Operators -> 24..27]
  <2>1. asked' = [asked EXCEPT ![k] = 24]
    BY Zenon DEF SetPrefix
  <2> QED
    BY <2>1, SMTT(60) DEF IInv, TypeOK
<1>2. CASE UNCHANGED <<prefix, owner, instance>>
  BY <1>1, <1>2, SMTT(60) DEF IInv, TypeOK
<1>3. CASE ~UNCHANGED <<prefix, owner, instance>>
  <2>1. /\ ~Stranded(new)
        /\ new >= prefix \/ ~SplitsOwners(new)
        /\ \A i \in Instances :
             Row(i) /\ new # prefix =>
               TriggerAllows(own, instance[i].host, SlotOf(instance[i].address, new))
        /\ prefix' = new
        /\ owner' = own
        /\ instance' = [i \in Instances |->
             IF new = prefix THEN instance[i]
             ELSE IF Row(i)
             THEN [instance[i] EXCEPT !.slot = SlotOf(instance[i].address, new), !.overlapped = FALSE]
             ELSE IF BeingCreated(i) THEN [instance[i] EXCEPT !.overlapped = TRUE]
             ELSE instance[i]]
    BY <1>3, ZenonT(60) DEF SetPrefix
  <2>2. own \in [Slots -> Hosts \cup {NoHost}]
    <3>1. ASSUME NEW s \in Slots PROVE own[s] \in Hosts \cup {NoHost}
      <4>1. CASE new >= prefix
        <5>1. s < Count(new) => s \div (Count(new) \div Count(prefix)) \in Slots
          BY <1>1, <4>1, SMTT(60) DEF Count, Slots
        <5> QED
          BY <1>1, <4>1, <5>1, SMTT(60) DEF Renumbered
      <4>2. CASE ~(new >= prefix)
        <5> DEFINE merged == {t \in Slots : t \div (Count(prefix) \div Count(new)) = s
                                            /\ owner[t] # NoHost}
        <5>1. own[s] = IF merged = {} THEN NoHost ELSE owner[CHOOSE t \in merged : TRUE]
          BY <4>2, SMTT(60) DEF Renumbered
        <5>2. merged # {} => (CHOOSE t \in merged : TRUE) \in merged
          BY SMTT(60)
        <5> QED
          BY <1>1, <5>1, <5>2, SMTT(60)
      <4> QED
        BY <4>1, <4>2
    <3> QED
      BY <3>1, SMTT(60) DEF Renumbered
  <2> HIDE DEF own, new
  <2>3. ASSUME NEW i \in Instances
        PROVE  instance'[i] \in InstanceRecord /\ InstanceOK(instance'[i], own, new)
    <3>1. instance[i] \in InstanceRecord /\ InstanceOK(instance[i], owner, prefix)
      BY SMTT(60) DEF IInv, TypeOK
    <3>2. SlotOf(instance[i].address, new) \in Slots /\ SlotOf(instance[i].address, prefix) \in Slots
      BY <1>1, <3>1, SlotOfAddress DEF InstanceRecord
    <3>3. CASE new # prefix /\ Row(i)
      <4>1. instance'[i] = [instance[i] EXCEPT !.slot = SlotOf(instance[i].address, new), !.overlapped = FALSE]
        BY <2>1, <3>3, Zenon
      <4> QED
        BY <2>1, <3>1, <3>2, <3>3, <4>1, Zenon DEF Row, TriggerAllows, InstanceRecord, InstanceOK
    <3>4. CASE new # prefix /\ ~Row(i) /\ BeingCreated(i)
      <4>1. instance'[i] = [instance[i] EXCEPT !.overlapped = TRUE]
        BY <2>1, <3>4, ZenonT(60)
      <4> QED
        BY <3>1, <3>4, <4>1, ZenonT(60) DEF Row, BeingCreated, InstanceRecord, InstanceOK
    <3>5. CASE new # prefix /\ ~Row(i) /\ ~BeingCreated(i)
      <4>1. instance'[i] = instance[i]
        BY <2>1, <3>5, ZenonT(60)
      <4> QED
        BY <3>1, <3>5, <4>1, ZenonT(60) DEF Row, BeingCreated, InstanceRecord, InstanceOK
    <3>6. CASE new = prefix
      <4>1. instance'[i] = instance[i]
        BY <2>1, <3>6, SMTT(60)
      <4>2. ASSUME Row(i), ~instance[i].overlapped PROVE own[instance[i].slot] = instance[i].host
        <5>1. /\ instance[i].slot = SlotOf(instance[i].address, prefix)
              /\ owner[instance[i].slot] = instance[i].host
              /\ instance[i].host # NoHost /\ instance[i].address \in Octets
          BY <3>1, <4>2, SlotsAssumption, SMTT(60) DEF Row, InstanceOK, InstanceRecord
        <5> QED
          BY <1>1, <2>1, <3>6, <5>1, RenumberedKeepsOwner, SMTT(60) DEF own, IInv
      <4> QED
        BY <3>1, <3>6, <4>1, <4>2, ZenonT(60) DEF Row, InstanceOK
    <3> QED
      BY <3>3, <3>4, <3>5, <3>6, SMTT(60)
  <2>4. instance' \in [Instances -> InstanceRecord]
    <3>1. instance' = [i \in Instances |-> instance'[i]]
      BY <2>1, Zenon
    <3> QED
      BY <2>3, <3>1, SMTT(60)
  <2> QED
    BY <1>1, <2>1, <2>2, <2>3, <2>4, Zenon DEF IInv, TypeOK
<1> QED
  BY <1>2, <1>3, SMTT(60)

(* What set_runner_prefix does when it does anything. *)
LEMMA SetPrefixDone ==
  ASSUME NEW k \in Operators, SetPrefix(k), ~UNCHANGED <<prefix, owner, instance>>
  PROVE  /\ asked[k] >= prefix \/ ~SplitsOwners(asked[k])
         /\ prefix' = asked[k]
         /\ owner' = Renumbered(asked[k])
         /\ instance' = [i \in Instances |->
              IF asked[k] = prefix THEN instance[i]
              ELSE IF Row(i)
              THEN [instance[i] EXCEPT !.slot = SlotOf(instance[i].address, asked[k]),
                                   !.overlapped = FALSE]
              ELSE IF BeingCreated(i) THEN [instance[i] EXCEPT !.overlapped = TRUE]
              ELSE instance[i]]
  BY Zenon DEF SetPrefix

(* Every step keeps the inductive invariant. *)
LEMMA Step == IInv /\ [Next]_vars => IInv'
<1> SUFFICES ASSUME IInv, [Next]_vars PROVE IInv'
  BY SMTT(60)
<1>1. CASE UNCHANGED vars
  BY <1>1 DEF vars, IInv, TypeOK
<1>2. CASE EnsureHost
  <2>1. TypeOK'
    BY <1>2, SlotsAssumption, ZenonT(60) DEF EnsureHost, IInv, TypeOK
  <2>2. ASSUME NEW i \in Instances PROVE InstanceOK(instance[i], owner', prefix)
    BY <1>2, SlotsAssumption, ZenonT(60) DEF EnsureHost, IInv, TypeOK, InstanceOK, InstanceRecord
  <2> QED
    BY <1>2, <2>1, <2>2, ZenonT(60) DEF EnsureHost, IInv
<1>3. ASSUME NEW k \in Operators, NEW p \in Prefixes, AskPrefix(k, p) PROVE IInv'
  BY <1>3, SMTT(60) DEF AskPrefix, InRange, IInv, TypeOK
<1>4. ASSUME NEW k \in Operators, SetPrefix(k) PROVE IInv'
  BY <1>4, SetPrefixStep
<1>5. ASSUME NEW s \in Slots, NEW h \in Hosts, Give(s, h) PROVE IInv'
  BY <1>5, GiveStep, SMTT(60)
<1>6. ASSUME NEW i \in Instances,
             \/ \E h \in Hosts : BeginCreate(i, h)
             \/ ReadSlots(i) \/ TrySlot(i) \/ Insert(i) \/ Delete(i)
      PROVE  IInv'
  BY <1>6, CreateStep, SMTT(60)
<1> QED
  BY <1>1, <1>2, <1>3, <1>4, <1>5, <1>6, SMTT(60) DEF Next

(* The inductive invariant holds always. *)
THEOREM Invariance == Spec => []IInv
  BY InitOK, Step, PTL DEF Spec

(* Every variable of the slot tables and the creates keeps its type. *)
THEOREM TypesHold == Spec => []TypeOK
<1>1. IInv => TypeOK
  BY SMTT(60) DEF IInv
<1> QED
  BY Invariance, <1>1, PTL

(***************************************************************************)
(* The address of every row whose create no change of prefix overlapped is *)
(* in a slot that the row's host owns.                                     *)
(***************************************************************************)
THEOREM RowsInOwnedSlots == Spec => []RowsAreInOwnedSlots
<1>1. IInv => RowsAreInOwnedSlots
  BY SMTT(60) DEF IInv, InstanceOK, RowsAreInOwnedSlots, Row
<1> QED
  BY Invariance, <1>1, PTL

(* A step that leaves the owners and the prefix keeps the rows that stay. *)
LEMMA RowsStay ==
  ASSUME IInv, NEW i \in Instances, NEW j \in Instances,
         \/ \E h \in Hosts : BeginCreate(j, h)
         \/ ReadSlots(j) \/ TrySlot(j) \/ Insert(j) \/ Delete(j),
         Row(i), Row(i)'
  PROVE  UNCHANGED <<prefix, owner>> /\ instance'[i] = instance[i]
<1>1. UNCHANGED <<prefix, owner>>
  BY Zenon DEF BeginCreate, ReadSlots, TrySlot, Insert, Delete
<1>2. instance \in [Instances -> InstanceRecord]
  BY SMTT(60) DEF IInv, TypeOK
<1>3. CASE Delete(j)
  BY <1>2, <1>3, ZenonT(60) DEF Delete, Row, Absent
<1>4. CASE ~Delete(j)
  <2>1. instance[j].stage # "row"
    BY <1>4, ZenonT(60) DEF BeginCreate, ReadSlots, TrySlot, Insert
  <2>2. i # j
    BY <2>1, SMTT(60) DEF Row
  <2>3. \E n : instance' = [instance EXCEPT ![j] = n]
    BY <1>4, Zenon DEF BeginCreate, ReadSlots, TrySlot, Insert
  <2> QED
    BY <1>1, <1>2, <2>2, <2>3, SMTT(60)
<1> QED
  BY <1>1, <1>3, <1>4, Zenon

(***************************************************************************)
(* Neither claim_slot nor a change of prefix takes a live address from the *)
(* host that runs it.                                                      *)
(***************************************************************************)
THEOREM AddressesStay == Spec => NobodyLosesTheirAddress
<1>1. ASSUME IInv, [Next]_vars, NEW i \in Instances, Row(i), Row(i)',
             OwnerOf(instance[i].address, owner, prefix) = instance[i].host
      PROVE  OwnerOf(instance'[i].address, owner', prefix') = instance[i].host
  <2>1. /\ instance[i].host \in Hosts /\ instance[i].address \in Octets
        /\ prefix \in 24..27 /\ asked \in [Operators -> 24..27]
        /\ owner \in [Slots -> Hosts \cup {NoHost}]
    BY <1>1, ZenonT(60) DEF IInv, TypeOK, InstanceOK, InstanceRecord, Row
  <2>2. SlotOf(instance[i].address, prefix) \in Slots
    BY <2>1, SlotOfAddress, SMTT(60)
  <2>3. CASE UNCHANGED <<prefix, owner, instance>>
    BY <1>1, <2>3, SMTT(60) DEF OwnerOf
  <2>4. CASE EnsureHost
    BY <1>1, <2>1, <2>2, <2>4, SlotsAssumption, SMTT(60) DEF EnsureHost, OwnerOf
  <2>5. ASSUME NEW k \in Operators, SetPrefix(k), ~UNCHANGED <<prefix, owner, instance>>
        PROVE  OwnerOf(instance'[i].address, owner', prefix') = instance[i].host
    <3>1. asked[k] \in 24..27
      BY <2>1, SMTT(60)
    <3>2. instance'[i].address = instance[i].address
      <4>1. instance'[i] = IF asked[k] = prefix THEN instance[i]
                       ELSE [instance[i] EXCEPT !.slot = SlotOf(instance[i].address, asked[k]),
                                            !.overlapped = FALSE]
        BY <1>1, <2>5, SetPrefixDone, ZenonT(60)
      <4>2. instance[i] \in InstanceRecord
        BY <1>1, SMTT(60) DEF IInv, TypeOK
      <4>3. [instance[i] EXCEPT !.slot = SlotOf(instance[i].address, asked[k]),
                            !.overlapped = FALSE].address = instance[i].address
        BY <4>2 DEF InstanceRecord
      <4> QED
        BY <4>1, <4>3
    <3>3. TypeOK /\ instance[i].host # NoHost
      BY <1>1, <2>1, SlotsAssumption, SMTT(60) DEF IInv
    <3>4. owner[SlotOf(instance[i].address, prefix)] = instance[i].host
      BY <1>1, ZenonT(60) DEF OwnerOf
    <3>5. Renumbered(asked[k])[SlotOf(instance[i].address, asked[k])] = instance[i].host
      BY <2>1, <2>5, <3>1, <3>3, <3>4, SetPrefixDone, RenumberedKeepsOwner, Zenon
    <3> QED
      BY <2>5, <3>2, <3>5, SetPrefixDone, Zenon DEF OwnerOf
  <2>6. ASSUME NEW s \in Slots, NEW h \in Hosts, Give(s, h)
        PROVE  OwnerOf(instance'[i].address, owner', prefix') = instance[i].host
    BY <1>1, <2>1, <2>2, <2>6, SMTT(60) DEF Give, Occupied, OwnerOf
  <2>7. ASSUME NEW j \in Instances,
               \/ \E h \in Hosts : BeginCreate(j, h)
               \/ ReadSlots(j) \/ TrySlot(j) \/ Insert(j) \/ Delete(j)
        PROVE  OwnerOf(instance'[i].address, owner', prefix') = instance[i].host
    <3>1. UNCHANGED <<prefix, owner>> /\ instance'[i] = instance[i]
      BY <1>1, <2>7, RowsStay, ZenonT(60)
    <3> QED
      BY <1>1, <3>1, SMTT(60) DEF OwnerOf
  <2>8. ASSUME NEW k \in Operators, NEW p \in Prefixes, AskPrefix(k, p)
        PROVE  UNCHANGED <<prefix, owner, instance>>
    BY <2>8, SMTT(60) DEF AskPrefix
  <2>9. UNCHANGED vars => UNCHANGED <<prefix, owner, instance>>
    BY SMTT(60) DEF vars
  <2> QED
    BY <1>1, <2>3, <2>4, <2>5, <2>6, <2>7, <2>8, <2>9, Zenon DEF Next
<1>2. IInv /\ [Next]_vars =>
        [\A i \in Instances :
           Row(i) /\ Row(i)' /\ OwnerOf(instance[i].address, owner, prefix) = instance[i].host =>
             OwnerOf(instance'[i].address, owner', prefix') = instance[i].host]_vars
  BY <1>1, Zenon
<1> QED
  BY Invariance, <1>2, PTL DEF Spec, NobodyLosesTheirAddress

(***************************************************************************)
(* renumber_slots gives no owned address to another host, whether slots    *)
(* are split or merged.                                                    *)
(***************************************************************************)
THEOREM OwnersStay == Spec => RenumberingKeepsOwners
<1>1. ASSUME IInv, [Next]_vars, prefix' # prefix,
             NEW a \in Octets, OwnerOf(a, owner, prefix) # NoHost
      PROVE  OwnerOf(a, owner', prefix') = OwnerOf(a, owner, prefix)
  <2>1. PICK k \in Operators : SetPrefix(k)
    BY <1>1, ZenonT(60) DEF Next, vars, EnsureHost, AskPrefix, Give, BeginCreate, ReadSlots,
                       TrySlot, Insert, Delete
  <2>2. TypeOK /\ asked[k] \in 24..27
    BY <1>1, SMTT(60) DEF IInv, TypeOK
  <2>3. /\ asked[k] >= prefix \/ ~SplitsOwners(asked[k])
        /\ prefix' = asked[k] /\ owner' = Renumbered(asked[k])
    BY <1>1, <2>1, SetPrefixDone, ZenonT(60)
  <2>4. owner[SlotOf(a, prefix)] # NoHost
    BY <1>1, SMTT(60) DEF OwnerOf
  <2> QED
    BY <2>2, <2>3, <2>4, RenumberedKeepsOwner, Zenon DEF OwnerOf
<1>2. IInv /\ [Next]_vars =>
        [prefix' # prefix =>
           \A a \in Octets : OwnerOf(a, owner, prefix) # NoHost =>
             OwnerOf(a, owner', prefix') = OwnerOf(a, owner, prefix)]_vars
  BY <1>1
<1> QED
  BY Invariance, <1>2, PTL DEF Spec, RenumberingKeepsOwners
==============================================================================
