------------------------------- MODULE Images -------------------------------
(***************************************************************************)
(* The content-addressed image store.  fetch-images and the runtime        *)
(* addition of an OCI image are processes of their own over one database   *)
(* and one image directory; a create in serve builds an overlay over a     *)
(* version; a collection deletes versions.  Two locks guard them: the      *)
(* store lock around the creation and deletion of versions and around an   *)
(* overlay, and the OCI lock around a whole pull and build.  A download or *)
(* a build holds no store lock, and the marking of an already built        *)
(* version as current holds only the OCI lock.                             *)
(*                                                                         *)
(* A version is a row of image_versions and a file; the two are written    *)
(* in separate steps with failures and crashes between them.  The foreign  *)
(* keys of schema.sql are part of every write.                             *)
(***************************************************************************)
EXTENDS Naturals, FiniteSets

CONSTANTS
  Image,      \* the names
  Oci,        \* the ones whose source is an OCI reference
  Configured, \* the ones the configuration lists
  Published,  \* what a URL can serve, by content
  Disk,       \* what a build can produce, by content
  Digest,     \* what a reference can resolve to
  Pinned,     \* image -> {} or {the checksum the allowlist pins}
  Worker,     \* the processes that fetch
  Inst,       \* the instances
  MaxFaults,  \* bound on crashes, failed writes and failed commands
  MaxJobs,    \* bound on fetches and additions started
  MaxMoves    \* bound on changes of what a source serves

\* A built disk and a published file never have the same content.
ASSUME ImagesAssumption == Oci \cup Configured \subseteq Image /\ Published \cap Disk = {}

Checksum == Published \cup Disk

VARIABLES
  listed,   \* images: the names with a row
  current,  \* images.current_checksum: image -> {} or {checksum}
  version,  \* image_versions: checksum -> {} or {the image it was stored for}
  source,   \* image_source_versions: <<image, digest, checksum>>
  files,    \* the complete files of the image directory
  served,   \* what each source serves now (environment)
  lock,     \* .lock: {} or {holder}
  ocilock,  \* .oci.lock: {} or {holder}
  work,     \* the fetching processes
  inst,     \* the instances: [stage, base, image, far]
  rfiles,   \* the files of the runner's image directory
  held,     \* host_images: <<host, image, checksum>>
  sync,     \* the runner's image sync
  faults, jobs, moves

imagesVars == <<listed, current, version, source, files, served, lock, ocilock, work, inst,
          rfiles, held, sync, faults, jobs, moves>>

tables == <<listed, current, version, source, held>>

Idle == [stage |-> "idle"]

\* A lock file is taken only while nobody holds it.
acquire_lock(holder) == holder = {}

EmptyStore ==
  /\ listed = {}
  /\ current = [i \in Image |-> {}]
  /\ version = [c \in Checksum |-> {}]
  /\ source = {} /\ files = {}
  /\ lock = {} /\ ocilock = {}
  /\ work = [p \in Worker |-> Idle]
  /\ inst = [u \in Inst |-> Idle]
  /\ rfiles = {} /\ held = {} /\ sync = Idle
  /\ faults = 0 /\ jobs = 0 /\ moves = 0

ImagesInit ==
  /\ EmptyStore
  /\ served \in [Image -> Published \cup Digest]
  /\ \A i \in Image : served[i] \in IF i \in Oci THEN Digest ELSE Published

-----------------------------------------------------------------------------
(* The rows.                                                               *)

has_image_version(c) == version[c] # {}

checksum_in_use(c) == \E u \in Inst : inst[u].stage \in {"row", "disk"} /\ inst[u].base = c

\* The foreign keys on image_versions: an image or an instance refers to it.
Referenced(c) == checksum_in_use(c) \/ \E i \in Image : current[i] = {c}

image_version_for_source(i, d) ==
  {c \in Checksum : <<i, d, c>> \in source /\ has_image_version(c)}

\* The condition of delete_unbuilt_image.
Unbuilt(i) ==
  /\ current[i] = {}
  /\ \A c \in Checksum : i \notin version[c]
  /\ \A u \in Inst : inst[u].stage \in {"row", "disk"} => inst[u].image # i

\* hosts_missing_image is empty: both machines are recorded as holding it.
FleetReady(i, c) == \A h \in {"here", "runner"} : <<h, i, c>> \in held

-----------------------------------------------------------------------------
(* Steps of a fetching process.                                            *)

Goto(p, s) == work' = [work EXCEPT ![p].stage = s]

\* The next stage after an image is done: the rest of the list, or, for an
\* addition, the end.
Done(p, ok) ==
  LET w == work[p] IN
  IF w.job = "fetch"
  THEN work' = [work EXCEPT ![p] = [stage |-> "list", job |-> "fetch", todo |-> w.todo]]
  ELSE work' = [work EXCEPT ![p] =
                  IF ok \/ ~w.new THEN Idle ELSE [stage |-> "forget", job |-> "add", image |-> w.image]]

\* fetch_images: the allowlist, brought up to date before, is read once.
fetch_images(p) ==
  /\ Configured \subseteq listed /\ work[p] = Idle /\ jobs < MaxJobs /\ jobs' = jobs + 1
  /\ work' = [work EXCEPT ![p] = [stage |-> "list", job |-> "fetch", todo |-> listed]]
  /\ UNCHANGED <<tables, files, served, lock, ocilock, inst, rfiles, sync, faults, moves>>

Begun(j, i, todo, new) ==
  [stage |-> IF i \in Oci THEN "oci" ELSE "download", job |-> j, image |-> i, todo |-> todo,
   new |-> new, sum |-> {}, digest |-> {}, armed |-> FALSE]

\* fetch_one of each image of the list.
fetch_one(p) ==
  /\ work[p].stage = "list"
  /\ \E i \in work[p].todo :
       work' = [work EXCEPT ![p] = Begun("fetch", i, work[p].todo \ {i}, FALSE)]
  /\ UNCHANGED <<tables, files, served, lock, ocilock, inst, rfiles, sync, faults, jobs, moves>>

\* add_oci_image: a new row, or a retry of the row the same source already has.
add_oci_image(p, i) ==
  /\ work[p] = Idle /\ i \in Oci /\ jobs < MaxJobs /\ jobs' = jobs + 1
  /\ listed' = listed \cup {i}
  /\ work' = [work EXCEPT ![p] = Begun("add", i, {}, i \notin listed)]
  /\ UNCHANGED <<current, version, source, held, files, served, lock, ocilock, inst, rfiles,
                 sync, faults, moves>>

\* The request, the stream or a command fails before anything was stored.
fetch_fails(p) ==
  /\ work[p].stage \in {"download", "pulled", "build"} /\ faults < MaxFaults
  /\ faults' = faults + 1
  /\ ocilock' = ocilock \ {p}
  /\ Done(p, FALSE)
  /\ UNCHANGED <<tables, files, served, lock, inst, rfiles, sync, jobs, moves>>

\* The download is hashed as it is written; a pinned image must match.
download(p) ==
  LET i == work[p].image IN
  /\ work[p].stage = "download"
  /\ IF Pinned[i] \in {{}, {served[i]}}
     THEN work' = [work EXCEPT ![p].stage = "commit", ![p].sum = {served[i]}]
     ELSE Done(p, FALSE)
  /\ UNCHANGED <<tables, files, served, lock, ocilock, inst, rfiles, sync, faults, jobs, moves>>

\* fetch_oci: the OCI lock, the pull and the digest of what was pulled.
fetch_oci(p) ==
  /\ work[p].stage = "oci" /\ acquire_lock(ocilock)
  /\ ocilock' = {p}
  /\ work' = [work EXCEPT ![p].stage = "pulled", ![p].digest = {served[work[p].image]}]
  /\ UNCHANGED <<tables, files, served, lock, inst, rfiles, sync, faults, jobs, moves>>

\* The disks already built from this digest, with their file still there.
CachedBuilds(i, d) == image_version_for_source(i, d) \cap files

find_cached(p) ==
  LET w == work[p] IN
  /\ w.stage = "pulled"
  /\ \E d \in w.digest :
       IF CachedBuilds(w.image, d) = {} THEN Goto(p, "build")
       ELSE \E c \in CachedBuilds(w.image, d) :
              work' = [work EXCEPT ![p].stage = "cached", ![p].sum = {c}]
  /\ UNCHANGED <<tables, files, served, lock, ocilock, inst, rfiles, sync, faults, jobs, moves>>

\* The bootc contract holds and image-builder made one disk; its content is
\* not a function of the source.
image_builder(p) ==
  /\ work[p].stage = "build"
  /\ \E c \in Disk : work' = [work EXCEPT ![p].stage = "commit", ![p].sum = {c}]
  /\ UNCHANGED <<tables, files, served, lock, ocilock, inst, rfiles, sync, faults, jobs, moves>>

\* The contract check fails or the builder left no disk, or several.
contract_fails(p) ==
  /\ work[p].stage = "build"
  /\ ocilock' = {} /\ Done(p, FALSE)
  /\ UNCHANGED <<tables, files, served, lock, inst, rfiles, sync, faults, jobs, moves>>

-----------------------------------------------------------------------------
(* commit_download and commit_generated, under the store lock.             *)

\* Mutant of Persists: a commit answers for the file whoever stored it.
PersistsAlways(i, c) == TRUE

\* A downloaded file replaces what is at its path unless the row exists and
\* the file is there; a built disk never replaces a file.
Persists(i, c) == c \notin files \/ (i \notin Oci /\ ~has_image_version(c))

commit(p) ==
  LET w == work[p] IN
  /\ w.stage = "commit" /\ acquire_lock(lock)
  /\ lock' = {p}
  /\ \E c \in w.sum :
       /\ files' = files \cup {c}
       /\ work' = [work EXCEPT ![p].armed = Persists(w.image, c),
                               ![p].stage = IF ~has_image_version(c) THEN "insert"
                                            ELSE IF w.image \in Oci THEN "source" ELSE "mark"]
  /\ UNCHANGED <<tables, served, ocilock, inst, rfiles, sync, faults, jobs, moves>>

\* FileRollback::drop: the file this commit stored goes again; both guards
\* are dropped.
Rollback(p) ==
  /\ files' = IF work[p].armed THEN files \ work[p].sum ELSE files
  /\ lock' = lock \ {p} /\ ocilock' = ocilock \ {p}
  /\ Done(p, FALSE)

\* A write of the commit fails.
commit_fails(p) ==
  /\ work[p].stage \in {"insert", "source", "mark", "cached"} /\ faults < MaxFaults
  /\ faults' = faults + 1
  /\ Rollback(p)
  /\ UNCHANGED <<tables, served, inst, rfiles, sync, jobs, moves>>

insert_image_version(p) ==
  LET w == work[p] IN
  /\ w.stage = "insert"
  /\ \/ /\ w.image \in listed
        /\ version' = [c \in Checksum |-> IF c \in w.sum THEN {w.image} ELSE version[c]]
        /\ Goto(p, IF w.image \in Oci THEN "source" ELSE "mark")
        /\ UNCHANGED <<files, lock, ocilock>>
     \/ w.image \notin listed /\ Rollback(p) /\ UNCHANGED version
  /\ UNCHANGED <<listed, current, source, held, served, inst, rfiles, sync, faults, jobs, moves>>

record_image_source(p) ==
  LET w == work[p] IN
  /\ w.stage = "source"
  /\ \/ /\ w.image \in listed
        /\ source' = {s \in source : s[1] # w.image \/ s[2] \notin w.digest}
                       \cup {<<w.image, d, c>> : d \in w.digest, c \in w.sum}
        /\ Goto(p, "mark")
        /\ UNCHANGED <<files, lock, ocilock>>
     \/ w.image \notin listed /\ Rollback(p) /\ UNCHANGED source
  /\ UNCHANGED <<listed, current, version, held, served, inst, rfiles, sync, faults, jobs, moves>>

\* set_current_checksum finds the image, and the foreign key the version.
CanMark(i, c) == i \in listed /\ has_image_version(c)

\* The last write of a commit, and the only one for an already built disk.
set_current_checksum(p) ==
  LET w == work[p] IN
  /\ w.stage \in {"mark", "cached"}
  /\ \E c \in w.sum :
       \/ /\ CanMark(w.image, c)
          /\ current' = [current EXCEPT ![w.image] = {c}]
          /\ lock' = lock \ {p} /\ ocilock' = ocilock \ {p}
          /\ Done(p, TRUE)
          /\ UNCHANGED files
       \/ ~CanMark(w.image, c) /\ Rollback(p) /\ UNCHANGED current
  /\ UNCHANGED <<listed, version, source, held, served, inst, rfiles, sync, faults, jobs, moves>>

\* A failed first build of an added image takes its row away again.
delete_unbuilt_image(p) ==
  /\ work[p].stage = "forget"
  /\ listed' = IF Unbuilt(work[p].image) THEN listed \ {work[p].image} ELSE listed
  /\ source' = {s \in source : s[1] \in listed'}
  /\ work' = [work EXCEPT ![p] = Idle]
  /\ UNCHANGED <<current, version, held, files, served, lock, ocilock, inst, rfiles, sync, faults, jobs, moves>>

-----------------------------------------------------------------------------
(* collect, at the end of fetch-images and under the store lock.           *)

\* The versions that were current of no image when the collection began.
Collectable(cs) == {c \in cs : \A i \in Image : current[i] # {c}}

collect(p) ==
  /\ work[p].stage = "list" /\ work[p].todo = {} /\ acquire_lock(lock)
  /\ lock' = {p}
  /\ work' = [work EXCEPT ![p] =
                [stage |-> "collect",
                 todo |-> Collectable({c \in Checksum : has_image_version(c)}), sum |-> {}]]
  /\ UNCHANGED <<tables, files, served, ocilock, inst, rfiles, sync, faults, jobs, moves>>

\* One version: an instance still uses it, or it is doomed.
collect_look(p) ==
  LET w == work[p] IN
  /\ w.stage = "collect"
  /\ \E c \in w.todo :
       work' = [work EXCEPT ![p].todo = w.todo \ {c},
                            ![p].stage = IF checksum_in_use(c) THEN "collect" ELSE "doomed",
                            ![p].sum = {c}]
  /\ UNCHANGED <<tables, files, served, lock, ocilock, inst, rfiles, sync, faults, jobs, moves>>

\* DELETE FROM image_versions: one row, and no foreign key against it.
DeletesRow(c) == has_image_version(c) /\ ~Referenced(c)

delete_image_version(p) ==
  LET w == work[p] IN
  /\ w.stage = "doomed"
  /\ \E c \in w.sum :
       \/ /\ DeletesRow(c)
          /\ version' = [version EXCEPT ![c] = {}]
          /\ source' = {s \in source : s[3] # c}
          /\ Goto(p, "unlink")
       \/ ~DeletesRow(c) /\ Goto(p, "collect") /\ UNCHANGED <<version, source>>
  /\ UNCHANGED <<listed, current, held, files, served, lock, ocilock, inst, rfiles, sync, faults, jobs, moves>>

\* The file after its row; a file that cannot be removed stays behind.
collect_unlink(p) ==
  /\ work[p].stage = "unlink"
  /\ \/ files' = files \ work[p].sum /\ UNCHANGED faults
     \/ faults < MaxFaults /\ faults' = faults + 1 /\ UNCHANGED files
  /\ Goto(p, "collect")
  /\ UNCHANGED <<tables, served, lock, ocilock, inst, rfiles, sync, jobs, moves>>

collect_ends(p) ==
  /\ work[p].stage = "collect" /\ work[p].todo = {}
  /\ lock' = {} /\ work' = [work EXCEPT ![p] = Idle]
  /\ UNCHANGED <<tables, files, served, ocilock, inst, rfiles, sync, faults, jobs, moves>>

\* The process dies: its locks are the kernel's to release, its rollback does
\* not run.
Crash(p) ==
  /\ work[p] # Idle /\ faults < MaxFaults /\ faults' = faults + 1
  /\ work' = [work EXCEPT ![p] = Idle]
  /\ lock' = lock \ {p} /\ ocilock' = ocilock \ {p}
  /\ UNCHANGED <<tables, files, served, inst, rfiles, sync, jobs, moves>>

-----------------------------------------------------------------------------
(* Instances: the base is read, the row is written, the overlay is made.   *)

\* create reads the current version and the fleet gate, then chooses a machine.
create(u, i) ==
  /\ inst[u] = Idle /\ i \in listed
  /\ \E c \in current[i], far \in BOOLEAN :
       /\ FleetReady(i, c)
       /\ inst' = [inst EXCEPT ![u] = [stage |-> "read", base |-> c, image |-> i, far |-> far]]
  /\ UNCHANGED <<tables, files, served, lock, ocilock, work, rfiles, sync, faults, jobs, moves>>

\* create_instance of the store: the foreign keys find the version and the image.
store_create_instance(u) ==
  /\ inst[u].stage = "read"
  /\ inst' = [inst EXCEPT ![u] = IF has_image_version(inst[u].base)
                                 THEN [inst[u] EXCEPT !.stage = "row"] ELSE Idle]
  /\ UNCHANGED <<tables, files, served, lock, ocilock, work, rfiles, sync, faults, jobs, moves>>

\* The backing file an overlay needs, where its disk is to be.
OverlayReady(u) ==
  IF inst[u].far THEN inst[u].base \in rfiles ELSE inst[u].base \in files

\* create_overlay holds the store lock of its machine from the look at the
\* backing file to the resized overlay; without the file, or when qemu-img
\* fails, the row goes again.
create_overlay(u) ==
  /\ inst[u].stage = "row"
  /\ inst[u].far \/ acquire_lock(lock)
  /\ \/ OverlayReady(u) /\ inst' = [inst EXCEPT ![u].stage = "disk"] /\ UNCHANGED faults
     \/ ~OverlayReady(u) /\ inst' = [inst EXCEPT ![u] = Idle] /\ UNCHANGED faults
     \/ faults < MaxFaults /\ faults' = faults + 1 /\ inst' = [inst EXCEPT ![u] = Idle]
  /\ UNCHANGED <<tables, files, served, lock, ocilock, work, rfiles, sync, jobs, moves>>

\* remove: the disk and then the row, from the image store's side one step.
remove(u) ==
  /\ inst[u].stage = "disk"
  /\ inst' = [inst EXCEPT ![u] = Idle]
  /\ UNCHANGED <<tables, files, served, lock, ocilock, work, rfiles, sync, faults, jobs, moves>>

-----------------------------------------------------------------------------
(* The runner's copy.                                                      *)

\* The version a sync asks the runner to keep: the current one when it is
\* recorded there, otherwise one that is.
preferred_version(i) ==
  LET there == {c \in Checksum : <<"runner", i, c>> \in held} IN
  IF current[i] \cap there # {} THEN {current[i]} ELSE {{c} : c \in there}

\* sync_host of one image from the poll loop.
sync_host(i) ==
  /\ sync = Idle /\ i \in listed
  /\ \E have \in preferred_version(i) \cup
                 (IF preferred_version(i) = {} THEN {{}} ELSE {}) :
       sync' = [stage |-> "asked", image |-> i, have |-> have]
  /\ UNCHANGED <<tables, files, served, lock, ocilock, work, inst, rfiles, faults, jobs, moves>>

\* sync_images: the operator makes the runner fetch the source again.
sync_images(i) ==
  /\ sync = Idle /\ i \in listed
  /\ sync' = [stage |-> "asked", image |-> i, have |-> {}]
  /\ UNCHANGED <<tables, files, served, lock, ocilock, work, inst, rfiles, faults, jobs, moves>>

\* ensure_image on the runner: a version it was asked to keep and has is the
\* answer, otherwise what the URL serves now under the name of its content.
\* An OCI reference is no URL to fetch.
ensure_image ==
  /\ sync.stage = "asked"
  /\ LET kept == sync.have \cap rfiles IN
     \E got \in IF kept # {} THEN {kept}
                ELSE IF sync.image \in Oci THEN {{}} ELSE {{served[sync.image]}} :
       /\ rfiles' = rfiles \cup got
       /\ sync' = IF got = {} THEN Idle
                  ELSE [stage |-> "ready", image |-> sync.image, got |-> got]
  /\ UNCHANGED <<tables, files, served, lock, ocilock, work, inst, faults, jobs, moves>>

\* ensure, after the answer: record_host_image adds and never replaces.
record_host_image ==
  /\ sync.stage = "ready"
  /\ held' = held \cup {<<"runner", sync.image, c>> : c \in sync.got}
  /\ sync' = Idle
  /\ UNCHANGED <<listed, current, version, source, files, served, lock, ocilock, work, inst,
                 rfiles, faults, jobs, moves>>

\* The request times out or its answer is lost.
sync_fails ==
  /\ sync # Idle /\ faults < MaxFaults /\ faults' = faults + 1
  /\ sync' = Idle
  /\ UNCHANGED <<tables, files, served, lock, ocilock, work, inst, rfiles, jobs, moves>>

\* serve starts: the versions of the database are the ones held here.
record_local_image_versions ==
  /\ held' = held \cup {<<"here", row[1], row[2]>> : row \in
                          {x \in Image \X Checksum : x[1] \in version[x[2]]}}
  /\ held' # held
  /\ UNCHANGED <<listed, current, version, source, files, served, lock, ocilock, work, inst,
                 rfiles, sync, faults, jobs, moves>>

\* sync_image_allowlist at startup: every configured image has a row again.
sync_image_allowlist ==
  /\ ~(Configured \subseteq listed)
  /\ listed' = listed \cup Configured
  /\ UNCHANGED <<current, version, source, held, files, served, lock, ocilock, work, inst,
                 rfiles, sync, faults, jobs, moves>>

\* A source serves something else from now on.
SourceMoves(i) ==
  /\ moves < MaxMoves /\ moves' = moves + 1
  /\ \E x \in (IF i \in Oci THEN Digest ELSE Published) \ {served[i]} :
       served' = [served EXCEPT ![i] = x]
  /\ UNCHANGED <<tables, files, lock, ocilock, work, inst, rfiles, sync, faults, jobs>>

-----------------------------------------------------------------------------
Fetching(p) ==
  \/ fetch_images(p) \/ fetch_one(p) \/ (\E i \in Image : add_oci_image(p, i))
  \/ download(p) \/ fetch_oci(p) \/ find_cached(p) \/ image_builder(p) \/ contract_fails(p)
  \/ fetch_fails(p) \/ commit(p) \/ commit_fails(p) \/ insert_image_version(p)
  \/ record_image_source(p) \/ set_current_checksum(p) \/ delete_unbuilt_image(p)
  \/ collect(p) \/ collect_look(p) \/ delete_image_version(p) \/ collect_unlink(p)
  \/ collect_ends(p) \/ Crash(p)

Creating(u) ==
  (\E i \in Image : create(u, i)) \/ store_create_instance(u) \/ create_overlay(u) \/ remove(u)

Syncing ==
  \/ \E i \in Image : sync_host(i) \/ sync_images(i) \/ SourceMoves(i)
  \/ ensure_image \/ record_host_image \/ sync_fails
  \/ record_local_image_versions \/ sync_image_allowlist

ImagesNext == (\E p \in Worker : Fetching(p)) \/ (\E u \in Inst : Creating(u)) \/ Syncing

ImagesSpec == ImagesInit /\ [][ImagesNext]_imagesVars

-----------------------------------------------------------------------------
\* Sets and stages are what their declarations say (crates/images/src/store.rs).
ImagesTypeOK ==
  /\ listed \subseteq Image /\ current \in [Image -> SUBSET Checksum]
  /\ version \in [Checksum -> SUBSET Image]
  /\ source \subseteq Oci \X Digest \X Disk
  /\ files \subseteq Checksum /\ rfiles \subseteq Checksum
  /\ Cardinality(lock) <= 1 /\ Cardinality(ocilock) <= 1
  /\ held \subseteq {"here", "runner"} \X Image \X Checksum
  /\ faults \in 0 .. MaxFaults /\ jobs \in 0 .. MaxJobs /\ moves \in 0 .. MaxMoves

\* The refinement mapping: a complete version is a row with its file; a disk
\* here is what the promise is about, as a runner never deletes a version.
Complete == {c \in files : has_image_version(c)}
Backing == [u \in Inst |-> IF inst[u].stage = "disk" /\ ~inst[u].far THEN {inst[u].base} ELSE {}]
Catalogue == INSTANCE ImageCatalogue WITH ready <- Complete, current <- current, under <- Backing

\* The store, with its crashes and failed writes, does nothing but what the
\* catalogue allows: no version an image points at or a disk is backed by
\* loses its row or its file (fetch.rs commit_download, commit_generated,
\* collect; overlay.rs create_overlay).
KeepsCatalogue == Catalogue!Spec
=============================================================================
