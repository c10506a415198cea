------------------------------ MODULE Startup ------------------------------
(***************************************************************************)
(* How the processes of one controller machine come up and go down:        *)
(* bentod serve, bentod sshd and bentod sync-images, over one database     *)
(* file, one key directory and one controller lease.  Each opens the       *)
(* database and migrates it (crates/store/src/migrate.rs), so on an        *)
(* upgrade two may migrate at once; each names its host row and its key;   *)
(* serve holds the lease while its tasks run and gives it up after them.   *)
(*                                                                         *)
(* A migration that adds a column or a table inspects first and adds       *)
(* nothing twice, so the columns are left out; the rows that migrations    *)
(* rewrite are kept.  Rows have one runner in the configuration.           *)
(***************************************************************************)
EXTENDS Integers, FiniteSets, FiniteSetsExt

CONSTANTS OldKeys,        \* ssh_keys tables an upgraded database may have
          MaxUp,          \* bound: processes up at the same time
          MaxBootFaults   \* bound: failed steps and crashes

VARIABLE boot

bootvars == <<boot>>

Process == {"serve", "sshd", "sync"}
Task == {"renewal", "restore", "loop", "handler"}   \* loop: poller, sampler, runner poll, converge
Latest == 9                                  \* the migrations, numbered from 1

\* The startup of each process, step by step, in the order of the code.
Plan == [serve |-> <<"open", "migrate", "lease", "checks", "host", "runners", "key", "policy", "serving">>,
         sshd  |-> <<"open", "migrate", "checks", "key", "host", "serving">>,
         sync  |-> <<"open", "migrate", "runners", "lease", "serving">>]
Stage == {"down", "open", "migrate", "lease", "checks", "host", "runners", "key", "keynew", "keywrite",
          "policy", "serving", "draining", "renewal", "release"}

HostRow == [id : 1..4, machine : {"none", "here", "there"}, runner : BOOLEAN]
InstanceRow == [name : {1, 2}, host : 1..4, slot : {"none", "0"}]
KeyRow == [id : 1..4, fingerprint : {"f", "g"}, user : {"a", "b"}]
Database ==
  [recorded : SUBSET (1..Latest), hosts : SUBSET HostRow, instances : SUBSET InstanceRow,
   slot0 : 0..4, keys : SUBSET KeyRow, token : {"none", "epoch", "never"},
   version : [digest : BOOLEAN, kind : {"none", "qcow2", "oci"}, source : BOOLEAN]]

Down == [at |-> "down", seen |-> 0, key |-> 0, holds |-> FALSE]

Fresh == [recorded |-> {}, hosts |-> {}, instances |-> {}, slot0 |-> 0, keys |-> {}, token |-> "none",
          version |-> [digest |-> FALSE, kind |-> "qcow2", source |-> FALSE]]

\* Version 1 minted a host row for each name the machine had.
Upgraded(keys) ==
  [Fresh EXCEPT !.hosts = [id : {1, 2}, machine : {"none"}, runner : {FALSE}],
                !.instances = {[name |-> i, host |-> i, slot |-> "none"] : i \in {1, 2}},
                !.keys = keys, !.token = "epoch",
                !.version = [digest |-> TRUE, kind |-> "none", source |-> FALSE]]

Init ==
  \E db \in {Fresh} \cup {Upgraded(keys) : keys \in OldKeys} :
    boot = [db |-> db, before |-> db.keys, proc |-> [p \in Process |-> Down],
            lease |-> "free", tasks |-> {}, cancelled |-> FALSE,
            file |-> [key |-> 0, full |-> FALSE], runners |-> {}, strayed |-> FALSE, faults |-> 0]

-----------------------------------------------------------------------------
(* Migrations.                                                             *)

\* A version with a source digest is of an OCI image, and its source is kept.
image_source_columns(db) ==
  [db EXCEPT !.version = [digest |-> @.digest, source |-> @.source \/ @.digest,
                          kind |-> IF @.kind # "none" THEN @.kind ELSE IF @.digest THEN "oci" ELSE "qcow2"]]

\* Every row is this machine: keep the oldest and move the instances to it.
host_machine_id(db) ==
  IF db.hosts = {} THEN db
  ELSE LET keep == Min({h.id : h \in db.hosts}) IN
       [db EXCEPT !.hosts = {h \in @ : h.id = keep}, !.instances = {[i EXCEPT !.host = keep] : i \in @}]

\* One slot, owned by the one host, that every instance is in.
runners_and_slots(db) ==
  IF db.hosts = {} THEN db
  ELSE [db EXCEPT !.slot0 = IF @ = 0 THEN Min({h.id : h \in db.hosts}) ELSE @,
                  !.instances = {[i EXCEPT !.slot = "0"] : i \in @}]

\* host_observations, host_images, host_underlay and dispatch_generations.
AddsTables(db) == db

\* A fingerprint of several users is nobody's; of one user's rows the oldest
\* stays.
unique_ssh_key_fingerprints(db) ==
  LET Of(k) == {j \in db.keys : j.fingerprint = k.fingerprint} IN
  [db EXCEPT !.keys = {k \in @ : /\ \A j \in Of(k) : j.user = k.user
                                 /\ \A j \in Of(k) : k.id <= j.id}]

nullable_token_expiry(db) == [db EXCEPT !.token = IF @ = "epoch" THEN "never" ELSE @]

MIGRATIONS(db, v) ==
  CASE v = 1 -> image_source_columns(db)
    [] v = 2 -> host_machine_id(db)
    [] v = 3 -> runners_and_slots(db)
    [] v \in 4..7 -> AddsTables(db)
    [] v = 8 -> unique_ssh_key_fingerprints(db)
    [] v = 9 -> nullable_token_expiry(db)

\* Mutant of CanRecord: a version another process recorded is run again.
CanRecordAgain(v) == v \in 1..Latest

\* The version is the primary key of schema_migrations.
CanRecord(v) == v \notin boot.db.recorded

-----------------------------------------------------------------------------
(* Steps of a process.                                                     *)

At(p, stage) == boot.proc[p].at = stage
NextStage(p, stage) == LET i == CHOOSE i \in DOMAIN Plan[p] : Plan[p][i] = stage IN Plan[p][i + 1]
Onward(b, p, stage) == [b EXCEPT !.proc[p].at = NextStage(p, stage)]

\* A step that fails ends the process, which first gives the lease up.
Ended(b, p) ==
  [b EXCEPT !.proc[p] = IF @.holds THEN [@ EXCEPT !.at = "renewal"] ELSE Down,
            !.cancelled = IF p = "serve" THEN boot.proc[p].holds ELSE @]

run(p) ==
  /\ At(p, "down") /\ Quantify(Process, LAMBDA q : ~At(q, "down")) < MaxUp
  /\ boot' = [boot EXCEPT !.proc[p] = [Down EXCEPT !.at = "open"]]

\* schema.sql, then the version is read, outside the transactions to come.
current_version(p) ==
  /\ At(p, "open")
  /\ boot' = Onward([boot EXCEPT !.proc[p].seen = Max(boot.db.recorded \cup {0})], p, "open")

\* Each migration and the row that records it are one transaction.
apply(p) ==
  LET v == boot.proc[p].seen + 1 IN
  /\ At(p, "migrate")
  /\ boot' = IF v > Latest THEN Onward(boot, p, "migrate")
             ELSE IF ~CanRecord(v) THEN Ended(boot, p)
             ELSE [boot EXCEPT !.db = [MIGRATIONS(boot.db, v) EXCEPT !.recorded = @ \cup {v}],
                               !.proc[p].seen = v]

\* serve and sync-images; the lease row is taken when nobody holds it.
acquire_lease(p) ==
  /\ At(p, "lease")
  /\ boot' = IF boot.lease # "free" THEN Ended(boot, p)
             ELSE Onward([boot EXCEPT !.lease = p, !.proc[p].holds = TRUE,
                                      !.tasks = IF p = "serve" THEN {"renewal"} ELSE @,
                                      !.cancelled = IF p = "serve" THEN FALSE ELSE @], p, "lease")

\* The row of this machine, the one row nobody claimed, or a new one.
ensure_host(p) ==
  LET db == boot.db
      known == {h \in db.hosts : h.machine = "here"}
      lone == {h \in db.hosts : h.machine = "none" /\ db.hosts = {h}}
      mine == IF known # {} THEN known ELSE lone
      id == IF mine # {} THEN (CHOOSE h \in mine : TRUE).id ELSE Max({0} \cup {h.id : h \in db.hosts}) + 1 IN
  /\ At(p, "host")
  /\ boot' = Onward([boot EXCEPT
               !.db.hosts = (@ \ mine) \cup {[id |-> id, machine |-> "here", runner |-> FALSE]},
               !.db.slot0 = IF @ = 0 THEN id ELSE @], p, "host")

\* The configured runner's row, found by its name.
register_runner(p) ==
  LET db == boot.db
      id == Max({0} \cup {h.id : h \in db.hosts}) + 1
      known == \E h \in db.hosts : h.runner IN
  /\ At(p, "runners")
  /\ boot' = Onward(IF known THEN boot
                    ELSE [boot EXCEPT !.db.hosts = @ \cup {[id |-> id, machine |-> "none", runner |-> TRUE]},
                                      !.runners = @ \cup {id},
                                      !.strayed = @ \/ \A h \in db.hosts : h.machine # "here"],
                    p, "runners")

\* The frontend key: load it, or generate it and write it to a new file.
ensure_key(p) ==
  /\ At(p, "key")
  /\ boot' = IF boot.file.full THEN Onward([boot EXCEPT !.proc[p].key = boot.file.key], p, "key")
             ELSE IF boot.file.key # 0 THEN Ended(boot, p)
             ELSE [boot EXCEPT !.proc[p].at = "keynew"]

create_new(p) ==
  /\ At(p, "keynew")
  /\ boot' = IF boot.file.key # 0 THEN Ended(boot, p)
             ELSE [boot EXCEPT !.file = [key |-> 1, full |-> FALSE], !.proc[p].at = "keywrite",
                               !.proc[p].key = 1]

write_key(p) ==
  /\ At(p, "keywrite")
  /\ boot' = Onward([boot EXCEPT !.file.full = TRUE], p, "key")

\* host_checks and the libvirt connection; the networks, the firewall and the
\* listener.  serve starts its tasks when it listens.
Prepares(p) ==
  \E stage \in {"checks", "policy"} :
    /\ At(p, stage)
    /\ boot' = Onward([boot EXCEPT !.tasks = IF stage = "policy" THEN @ \cup (Task \ {"renewal"}) ELSE @], p, stage)

\* The other steps of a startup fail too: a check, libvirt, a busy port.
Fails(p) ==
  /\ boot.proc[p].at \in {"checks", "host", "runners", "key", "policy"} /\ boot.faults < MaxBootFaults
  /\ boot' = Ended([boot EXCEPT !.faults = @ + 1], p)

\* A runner's first answer names its machine (observe_host).
observe_host ==
  /\ At("serve", "serving") /\ "loop" \in boot.tasks
  /\ \E h \in boot.db.hosts : h.runner /\ h.machine = "none" /\
       boot' = [boot EXCEPT !.db.hosts = (@ \ {h}) \cup {[h EXCEPT !.machine = "there"]}]

-----------------------------------------------------------------------------
(* Shutdown.                                                               *)

\* A signal, a lost lease or a renewal that failed cancels every task.
Cancelled ==
  /\ At("serve", "serving")
  /\ boot' = [boot EXCEPT !.cancelled = TRUE, !.proc["serve"].at = "draining"]

\* Tasks end at their next look at the token, the handlers when they are
\* done; restore is aborted once the listener has returned.
every(t) ==
  /\ t \in boot.tasks /\ boot.cancelled
  /\ t = "restore" => "handler" \notin boot.tasks
  /\ boot' = [boot EXCEPT !.tasks = @ \ {t}]

\* Mutant of serve_inner_returns: it does not wait for the tasks.
serve_inner_detaches == At("serve", "draining") /\ "handler" \notin boot.tasks

serve_inner_returns == At("serve", "draining") /\ boot.tasks \subseteq {"renewal"}

serve_inner == serve_inner_returns /\ boot' = [boot EXCEPT !.proc["serve"].at = "renewal"]

renewal_joined(p) ==
  /\ At(p, "renewal") /\ (p = "serve" => "renewal" \notin boot.tasks)
  /\ boot' = [boot EXCEPT !.proc[p].at = "release"]

\* Only the holder's row is released; then the database is closed.
release_lease(p) ==
  /\ At(p, "release")
  /\ boot' = [boot EXCEPT !.lease = IF @ = p THEN "free" ELSE @, !.proc[p] = Down]

\* sshd and sync-images stop at a signal.
shutdown_signal(p) == p # "serve" /\ At(p, "serving") /\ boot' = Ended(boot, p)

Crash(p) ==
  /\ ~At(p, "down") /\ boot.faults < MaxBootFaults
  /\ boot' = [boot EXCEPT !.proc[p] = Down, !.faults = @ + 1, !.tasks = IF p = "serve" THEN {} ELSE @]

\* The lease runs out when its holder is gone, renews no more or was held up.
LeaseExpires == boot.lease # "free" /\ boot' = [boot EXCEPT !.lease = "free"]

Next ==
  \/ Cancelled \/ serve_inner \/ observe_host \/ LeaseExpires \/ \E t \in Task : every(t)
  \/ \E p \in Process :
       \/ run(p) \/ current_version(p) \/ apply(p) \/ acquire_lease(p) \/ ensure_host(p) \/ register_runner(p)
       \/ ensure_key(p) \/ create_new(p) \/ write_key(p) \/ Prepares(p) \/ Fails(p)
       \/ renewal_joined(p) \/ release_lease(p) \/ shutdown_signal(p) \/ Crash(p)

-----------------------------------------------------------------------------
StartupTypeOK ==
  /\ boot.db \in Database /\ boot.lease \in {"free", "serve", "sync"} /\ boot.tasks \subseteq Task
  /\ boot.proc \in [Process -> [at : Stage, seen : 0..Latest, key : 0..1, holds : BOOLEAN]]

\* The rows an upgrade rewrites: whatever ran at once or stopped halfway,
\* the recorded versions are a prefix and each has done its work once.  A
\* key of one user survives and a contested one does not, an instance is on
\* a live host row and in a slot of that host, and no row a runner got is
\* taken away (migrate.rs apply).
MigratedOnce ==
  LET db == boot.db
      Users(f) == {k.user : k \in {k \in boot.before : k.fingerprint = f}} IN
  /\ db.recorded = 1..Max(db.recorded \cup {0})
  /\ 8 \in db.recorded =>
       \A f \in {"f", "g"} : Quantify(db.keys, LAMBDA k : k.fingerprint = f) = IF Cardinality(Users(f)) = 1 THEN 1 ELSE 0
  /\ \A i \in db.instances : /\ \E h \in db.hosts : h.id = i.host
                             /\ i.slot = "0" => db.slot0 = i.host
  /\ boot.runners \subseteq {h.id : h \in db.hosts}
  /\ 1 \in db.recorded => (db.version.kind = "oci" <=> db.version.digest)
  /\ 9 \in db.recorded => db.token # "epoch"

\* One machine, one row, one key: the processes agree on the row that is
\* this machine, which is not a runner's and has the instances of the
\* upgrade (hosts.rs ensure_host; a runner registered before this machine
\* had a row is excepted), and every process that serves uses the key on
\* disk (keys.rs ensure_key).  serve gives its lease up after the last of
\* its tasks has ended (serve.rs run_serve, serve_inner), and not before.
\* It does not keep the lease that long: the renewal ends with the
\* cancellation while the handlers still finish, so the lease may run out,
\* and another process take it, under a handler that is still at work.
\* What such a handler can do then is the matter of module Dispatch.
StartsAsOne ==
  LET here == {h.id : h \in {h \in boot.db.hosts : h.machine = "here"}} IN
  /\ \A g, h \in here : g = h
  /\ ~boot.strayed /\ here # {} => here \cap boot.runners = {} /\ \A i \in boot.db.instances : i.host \in here
  /\ \A p \in {"serve", "sshd"} : At(p, "serving") => boot.file.full /\ boot.proc[p].key = boot.file.key
  /\ boot.proc["serve"].at \in {"release", "down"} => boot.tasks = {}

StartupSound == MigratedOnce /\ StartsAsOne
=============================================================================
