------------------------------ MODULE Monitor ------------------------------
(***************************************************************************)
(* The operator's screen (bento-monitor): it rereads the machine from time *)
(* to time, offers commands for what it saw, and runs what the operator    *)
(* confirms, one command after another.  Between the reading, the question *)
(* and the commands the machine may change from outside.  With it the two  *)
(* database commands it offers, dump-db and restore-db (bentod/src/ops.rs).*)
(*                                                                         *)
(* A key is one action whatever tab and row it needs; moving between tabs  *)
(* and rows, help, and what is drawn are left out.  A stopped or started   *)
(* unit shows in nothing that is checked here, so those commands have no   *)
(* effect.  A configuration is one of its kinds: the example, one that     *)
(* moves the state directories and points the runner listener at the       *)
(* underlay, one that names runners, or one that does not load.            *)
(***************************************************************************)
EXTENDS Naturals, Sequences, FiniteSets, SequencesExt

CONSTANTS UNITS,        \* the unit names in screen order; SERVE and RUNNER among them
          SERVE, RUNNER,
          MaxRuns,      \* bound: confirmed lists
          MaxTouches    \* bound: changes from outside and seconds, together

VARIABLE mon

monvars == <<mon>>

Unit == ToSet(UNITS)
StepKind == {"Binary", "Directories", "Config", "Units", "Enable"}
InOrder == <<"Binary", "Directories", "Config", "Units", "Enable">>
ConfigFile == {"none", "bad", "example", "runner", "fleet"}
StateDirs == {"default", "moved"}
Loads(config) == config \in {"example", "runner", "fleet"}
DirsOf(config) == IF config = "runner" THEN "moved" ELSE "default"

\* A copy of the database beside it; its content is a version, 0 when the
\* copying was cut off and the file is empty.
Version == 0..(MaxTouches + 1)
Copy == [prefix : {"backup", "before-restore"}, stamp : 1..(MaxTouches + 1), content : Version]

HostState == [binaries : {"missing", "stale", "current"}, config : ConfigFile, etc : BOOLEAN,
              dirs : SUBSET StateDirs, files : SUBSET Unit, enabled : SUBSET Unit,
              db : Version, copies : SUBSET Copy]
Screen == [loads : BOOLEAN, role : {"Controller", "Runner"}, dirs : StateDirs, files : SUBSET Unit,
           done : SUBSET StepKind, blocked : SUBSET StepKind]

\* One command of a list.  unit and copy say what it is for, where it needs it.
Cmd(op, units, copies) == [op |-> op, units |-> units, copies |-> copies]
Plain(op) == Cmd(op, {}, {})

-----------------------------------------------------------------------------
(* Reading the machine.                                                    *)

\* The order of the tests is the definition.
detect(config, files) ==
  IF config = "fleet" \/ SERVE \in files THEN "Controller"
  ELSE IF config = "runner" THEN "Runner" ELSE "Controller"

wants(role) == IF role = "Controller" THEN Unit ELSE {RUNNER}

\* A step that is done is never blocked.
steps(h, source, dirs, files, enabled, role) ==
  LET all == wants(role) \subseteq files
      done == {k \in StepKind :
                 CASE k = "Binary" -> h.binaries = "current"
                   [] k = "Directories" -> h.etc /\ dirs \in h.dirs
                   [] k = "Config" -> h.config # "none"
                   [] k = "Units" -> all
                   [] k = "Enable" -> wants(role) \subseteq enabled}
  IN [done |-> done,
      blocked |-> {k \in StepKind \ done :
                     CASE k \in {"Binary", "Config"} -> ~source
                       [] k = "Units" -> h.binaries = "missing"
                       [] k = "Enable" -> ~all
                       [] OTHER -> FALSE}]

\* systemctl may fail, and then no unit is known.  A configuration that
\* loads moves the directories; one that does not leaves them where they were.
refresh(h, source, dirs, answered) ==
  LET files == IF answered THEN h.files ELSE {}
      enabled == IF answered THEN h.enabled ELSE {}
      role == detect(h.config, files)
      now == IF Loads(h.config) THEN DirsOf(h.config) ELSE dirs
      s == steps(h, source, now, files, enabled, role)
  IN [loads |-> Loads(h.config), role |-> role, dirs |-> now, files |-> files,
      done |-> s.done, blocked |-> s.blocked]

\* The machine as an operator may find it.
Init ==
  \E binaries \in {"missing", "stale", "current"}, config \in ConfigFile, source \in BOOLEAN,
     files \in {{}, Unit} :
    /\ binaries = "stale" => source
    /\ LET h == [binaries |-> binaries, config |-> config, etc |-> config # "none",
                 dirs |-> IF files = Unit THEN StateDirs ELSE {}, files |-> files, enabled |-> {},
                 db |-> 1, copies |-> IF files = Unit THEN {[prefix |-> "backup", stamp |-> 1, content |-> 1]} ELSE {}] IN
       mon = [host |-> h, source |-> source, screen |-> refresh(h, source, "default", TRUE),
              modal |-> "none", list |-> <<>>, running |-> FALSE, everything |-> FALSE,
              exact |-> TRUE, whole |-> FALSE, stamp |-> 1, touches |-> 0, runs |-> 0,
              replaced |-> {}, kept |-> {}]

\* exact: the screen shows the machine as it is.  everything: the list was
\* made to install everything, from such a screen, and nothing changed since.
\* whole: such a list has just run to its end.  replaced: the databases that
\* restores replaced.  kept: the last copy that was completed.
Idle == mon.modal = "none" /\ ~mon.running /\ mon.runs < MaxRuns
MayTouch == mon.touches + (mon.stamp - 1) < MaxTouches

\* Every few seconds, also while a question is open.
Tick ==
  /\ ~mon.running
  /\ \E answered \in BOOLEAN :
       mon' = [mon EXCEPT !.screen = refresh(mon.host, mon.source, mon.screen.dirs, answered),
                          !.exact = answered, !.whole = FALSE]

-----------------------------------------------------------------------------
(* Offering commands.                                                      *)

\* confirm opens the question with its list; a message has no list.
confirm(list) == mon' = [mon EXCEPT !.modal = "confirm", !.list = list, !.everything = FALSE, !.whole = FALSE]
message == mon' = [mon EXCEPT !.modal = "message", !.whole = FALSE]

on_services_key ==
  /\ Idle
  /\ \E u \in Unit, op \in {"systemctl", "enable", "disable", "logs"} :
       IF u \notin mon.screen.files /\ op # "logs" THEN message
       ELSE confirm(<<Cmd(op, {u}, {})>>)

\* The Fleet tab only reports, and on a runner not even that.
on_fleet_key ==
  /\ Idle
  /\ IF mon.screen.role = "Runner" THEN message ELSE confirm(<<Plain("bentod")>>)

\* What each step runs; a build and an example need the source tree.
NeedsSource(kind) == kind \in {"Binary", "Config"}

commands(kind, dirs, role) ==
  CASE kind = "Binary" -> <<Plain("make"), Plain("install.sh")>>
    [] kind = "Directories" -> <<Plain(dirs)>>
    [] kind = "Config" -> <<Plain("example")>>
    [] kind = "Units" -> SetToSeq({Cmd("unit", {u}, {}) : u \in wants(role)}) \o <<Plain("daemon-reload")>>
    [] kind = "Enable" -> <<Cmd("enable", wants(role), {})>>

\* One step, done or not.
run_step ==
  /\ Idle
  /\ \E kind \in StepKind :
       IF kind \in mon.screen.blocked \/ (NeedsSource(kind) /\ ~mon.source) THEN message
       ELSE confirm(commands(kind, mon.screen.dirs, mon.screen.role))

\* Mutant of Pending: what an earlier step blocks is left for a later round.
PendingUnblocked == SelectSeq(InOrder, LAMBDA k : k \notin mon.screen.done \cup mon.screen.blocked)

\* The steps not done, in order, with those an earlier step still blocks.
Pending == SelectSeq(InOrder, LAMBDA k : k \notin mon.screen.done)

run_remaining_steps ==
  LET lists == [i \in 1..Len(Pending) |-> commands(Pending[i], mon.screen.dirs, mon.screen.role)] IN
  /\ Idle
  /\ IF Pending = <<>> \/ (~mon.source /\ \E k \in ToSet(Pending) : NeedsSource(k)) THEN message
     ELSE mon' = [mon EXCEPT !.modal = "confirm", !.list = FlattenSeq(lists), !.everything = mon.exact,
                             !.whole = FALSE]

\* Mutant of newest_backup: the whole names are compared.
newest_by_name(copies) ==
  LET Sooner(d, c) == \/ d.prefix = c.prefix /\ d.stamp <= c.stamp
                      \/ d.prefix = "backup" /\ c.prefix = "before-restore"
  IN {c \in copies : \A d \in copies : Sooner(d, c)}

\* The stamp decides, whichever prefix goes before it; of two copies with
\* the same stamp the directory's order does.
newest_backup(copies) == {c \in copies : \A d \in copies : d.stamp <= c.stamp}

on_config_key ==
  /\ Idle
  /\ \/ confirm(<<Plain("edit")>>)
     \/ confirm(<<Plain("bentod")>>)
     \/ mon.screen.loads /\ confirm(<<Cmd("dump-db", {}, {[prefix |-> "backup", stamp |-> mon.stamp, content |-> 0]})>>)
     \/ /\ mon.screen.loads
        /\ \E c \in newest_backup(mon.host.copies) :
             confirm(<<Cmd("restore-db", {}, {c})>>)
     \/ mon.screen.loads /\ mon.host.copies = {} /\ message
     \/ ~mon.screen.loads /\ message

\* y or Enter runs the list as it was when the question was asked; any
\* other key closes the question.
on_modal_key ==
  /\ mon.modal # "none"
  /\ \/ mon.modal = "confirm" /\ mon' = [mon EXCEPT !.modal = "none", !.running = TRUE, !.runs = @ + 1]
     \/ mon' = [mon EXCEPT !.modal = "none", !.list = <<>>, !.everything = FALSE]

-----------------------------------------------------------------------------
(* Running them.                                                           *)

\* dump_db creates its destination and refuses one that is there.
Exists(h, c) == \E d \in h.copies : d.prefix = c.prefix /\ d.stamp = c.stamp

\* bentod reads the configuration and opens the database first.
BentodRuns(h) == h.binaries # "missing" /\ Loads(h.config)

\* What a command needs of the machine to succeed.
Works(h, c) ==
  CASE c.op = "example" -> h.etc
    [] c.op = "enable" -> c.units \subseteq h.files
    [] c.op \in {"bentod", "restore-db"} -> BentodRuns(h)
    [] c.op = "dump-db" -> BentodRuns(h) /\ \A d \in c.copies : ~Exists(h, d)
    [] OTHER -> TRUE

\* The machines a command may leave behind when it succeeds.
Runs(h, c) ==
  CASE c.op = "install.sh" -> {[h EXCEPT !.binaries = "current"]}
    [] c.op \in StateDirs -> {[h EXCEPT !.etc = TRUE, !.dirs = @ \cup {c.op}]}
    [] c.op = "example" -> {[h EXCEPT !.config = "example"]}
    [] c.op = "edit" -> {[h EXCEPT !.config = config] : config \in IF h.etc THEN ConfigFile \ {"none"} ELSE {h.config}}
    [] c.op = "unit" -> {[h EXCEPT !.files = @ \cup c.units]}
    [] c.op = "enable" -> {[h EXCEPT !.enabled = @ \cup c.units]}
    [] c.op = "disable" -> {[h EXCEPT !.enabled = @ \ c.units]}
    [] c.op = "dump-db" -> {[h EXCEPT !.copies = @ \cup {[d EXCEPT !.content = h.db] : d \in c.copies}]}
    [] OTHER -> {h}

\* Mutant of Aside: the safety copy overwrites one of the same second.
AsideOver(h, stamp, content) ==
  [h EXCEPT !.copies = {d \in @ : d.prefix = "backup" \/ d.stamp # stamp}
                         \cup {[prefix |-> "before-restore", stamp |-> stamp, content |-> content]}]

\* The machine with the database copied aside.
Aside(h, stamp, content) ==
  IF Exists(h, [prefix |-> "before-restore", stamp |-> stamp]) THEN h
  ELSE [h EXCEPT !.copies = @ \cup {[prefix |-> "before-restore", stamp |-> stamp, content |-> content]}]

\* restore: the copy aside must be made before anything is replaced.
restore(h, c) ==
  LET aside == Aside(h, mon.stamp, h.db) IN
  IF aside = h THEN {} ELSE {[aside EXCEPT !.db = d.content] : d \in c.copies}

\* The copy a command completed, or the one completed before it.
LastCopy(h) == IF h.copies \subseteq mon.host.copies THEN mon.kept ELSE h.copies \ mon.host.copies

\* The list is over: the screen is reread.
Finish(m, h, all) ==
  \E answered \in BOOLEAN :
    mon' = [m EXCEPT !.host = h, !.screen = refresh(h, m.source, m.screen.dirs, answered),
                     !.running = FALSE, !.list = <<>>, !.everything = FALSE,
                     !.exact = answered, !.whole = all /\ answered /\ m.everything]

Advance(m, h) ==
  IF Len(m.list) = 1 THEN Finish(m, h, TRUE)
  ELSE mon' = [m EXCEPT !.host = h, !.list = Tail(@)]

\* The next command of the list; the first that fails ends it.
run_commands ==
  LET c == Head(mon.list) IN
  /\ mon.running /\ Works(mon.host, c)
  /\ IF c.op = "restore-db"
     THEN \E h \in restore(mon.host, c) :
            Advance([mon EXCEPT !.replaced = @ \cup {mon.host.db}, !.kept = LastCopy(h)], h)
     ELSE \E h \in Runs(mon.host, c) : Advance([mon EXCEPT !.kept = LastCopy(h)], h)

\* It fails of its own accord or for want of what it needs.  A copy that
\* was begun stays behind, empty; a restore may fail on either side of it.
command_fails ==
  LET c == Head(mon.list) h == mon.host IN
  /\ mon.running
  /\ \/ Finish(mon, h, FALSE)
     \/ /\ c.op = "dump-db" /\ Works(h, c)
        /\ Finish(mon, [h EXCEPT !.copies = @ \cup c.copies], FALSE)
     \/ /\ c.op = "restore-db" /\ Works(h, c)
        /\ \/ Finish(mon, Aside(h, mon.stamp, 0), FALSE)
           \/ LET aside == Aside(h, mon.stamp, h.db) IN
              Finish([mon EXCEPT !.kept = LastCopy(aside)], aside, FALSE)

-----------------------------------------------------------------------------
(* Another terminal, another build, a change to the database, time.        *)

Touch(h) ==
  /\ MayTouch
  /\ mon' = [mon EXCEPT !.host = h, !.touches = @ + 1, !.exact = FALSE, !.everything = FALSE,
                     !.whole = FALSE]

Outside ==
  \/ Touch([mon.host EXCEPT !.db = mon.touches + 2])
  \/ \E config \in ConfigFile : mon.host.etc /\ Touch([mon.host EXCEPT !.config = config])
  \/ mon.source /\ mon.host.binaries = "current" /\ Touch([mon.host EXCEPT !.binaries = "stale"])
  \/ \E u \in Unit : Touch([mon.host EXCEPT !.files = @ \ {u}, !.enabled = @ \ {u}])

SecondPasses == MayTouch /\ mon' = [mon EXCEPT !.stamp = @ + 1]

Next == Tick \/ on_services_key \/ on_fleet_key \/ run_step \/ run_remaining_steps \/ on_config_key
          \/ on_modal_key \/ run_commands \/ command_fails \/ Outside \/ SecondPasses

-----------------------------------------------------------------------------
MonitorTypeOK ==
  /\ mon.host \in HostState /\ mon.screen \in Screen
  /\ mon.modal \in {"none", "confirm", "message"} /\ mon.running = (mon.running /\ mon.list # <<>>)
  /\ mon.replaced \subseteq Version /\ mon.kept \subseteq Copy

\* "Install everything" installs everything (app.rs run_remaining_steps: "the
\* earlier step runs first and clears the block"): for a list made from an
\* exact reading and not disturbed from outside, each command finds what it
\* needs, and a list that ran to its end leaves every step done, unless it
\* brought in an example whose directories are not those on the screen.
InstallsEverything ==
  /\ mon.running /\ mon.everything => Works(mon.host, Head(mon.list))
  /\ mon.whole => \/ mon.screen.done = StepKind
                  \/ mon.screen.done = StepKind \ {"Directories"} /\ mon.host.config = "example"

\* A restore never loses a database (ops.rs restore: "The safety copy is the
\* point"), not even two within a second: what was replaced is among the
\* copies.  And what the Restore key offers (app.rs newest_backup) is the
\* copy that was last completed, by a backup or a restore, so that one more
\* restore goes back; a copy of the other kind made in that second, and one
\* begun since and cut off, may be offered in its place.
RestoreKeepsAll ==
  /\ \A v \in mon.replaced : \E c \in mon.host.copies : c.content = v
  /\ \A k \in mon.kept, c \in newest_backup(mon.host.copies) :
       c = k \/ (c.stamp = k.stamp /\ c.prefix # k.prefix) \/ (c.stamp > k.stamp /\ c.content = 0)

MonitorSound == InstallsEverything /\ RestoreKeepsAll
=============================================================================
