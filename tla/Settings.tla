------------------------------ MODULE Settings ------------------------------
(***************************************************************************)
(* What bentod decides before it starts anything: the command line         *)
(* (bentod/src/main.rs), the configuration (crates/config/src/lib.rs), the *)
(* host requirements (crates/hypervisor/src/check.rs) and the subnet plan  *)
(* (crates/network/src/subnet.rs), against what the processes that use     *)
(* them rely on.                                                           *)
(*                                                                         *)
(* These are algorithms, so a state is one input.  A configuration file    *)
(* is a function from keys to options ({} for an omitted key); the inputs  *)
(* are the files that differ from a good one in at most two keys.  A       *)
(* domain is its sequence of labels, a network address the number of its   *)
(* /24, and a listen address the way it is written with its port.          *)
(***************************************************************************)
EXTENDS Integers, Sequences, FiniteSets, SequencesExt, FiniteSetsExt

VARIABLE input

inputvars == <<input>>

-----------------------------------------------------------------------------
(* The configuration file and its defaults.                                *)

Good == <<"bento", "x">>
Domain == {<<>>, Good, <<"x">>, <<"*", "x">>}
Label == {"bento", "www", "web", "x"}
Net == 680960                                     \* 10.100.0.0, as the number of its /24
\* ":443", "0.0.0.0:443", "127.0.0.1:443", "192.0.2.1:443" or other text.
At(form, port) == [form |-> form, port |-> port]
Interface == {"loopback", "address"}
Runner(endpoint, underlay) == [endpoint |-> endpoint, underlay |-> underlay]
ImageEntry(name, url, oci, pin) == [name |-> name, url |-> url, oci |-> oci, pin |-> pin]

\* The values a key may be given; the first is what a good file writes.
\* An endpoint's host is the number of a /24, -1 for a host name, -2 for none.
Written ==
  [base |-> <<Good, <<>>, <<"*", "x">>, <<"x">>>>, instance |-> <<<<"x">>, Good, <<>>>>,
   dns |-> <<{1}, {}>>, overcommit |-> <<2, 1, 0>>, batch |-> <<4, 0>>,
   runner_listen |-> <<"underlay", "wildcard", "address", "text">>, skew |-> <<60, 0>>,
   bits |-> <<16, 24, 25>>,
   runners |-> <<<<Runner(7, {})>>, <<Runner(-1, {})>>, <<Runner(-1, {8})>>, <<Runner(7, {Net + 3})>>,
                 <<Runner(Net + 255, {8})>>, <<Runner(-2, {})>>, <<>>>>,
   http |-> <<At("loopback", 10080), At("any", 3000), At("port", 443), At("address", 80), At("port", 0), At("text", 80)>>,
   https |-> <<At("port", 443), At("any", 5000), At("address", 443), At("loopback", 10443), At("any", 0), At("text", 0)>>,
   ssh |-> <<At("port", 22), At("text", 22)>>,
   port_min |-> <<3000, 0, 10000>>, port_max |-> <<9999, 2999, 10080>>,
   vcpu |-> <<2, 0>>, image |-> <<"a", "z">>, rootfs |-> <<"xfs", "vfat">>, storage |-> <<"/c", "">>,
   timeout |-> <<30, 0>>, builder |-> <<"pinned", "tag">>, reserved |-> <<{"www"}, {}>>,
   images |-> <<<<ImageEntry("a", {"u"}, {}, {"c"}), ImageEntry("b", {}, {"o"}, {})>>, <<>>,
                <<ImageEntry("a", {"u"}, {}, {}), ImageEntry("a", {}, {"o"}, {})>>, <<ImageEntry("a", {"u"}, {"o"}, {})>>,
                <<ImageEntry("a", {}, {"o"}, {"c"})>>, <<ImageEntry("", {"u"}, {}, {})>>, <<ImageEntry("a", {""}, {}, {})>>>>]

Key == DOMAIN Written
Options(k) == {{}} \cup {{Written[k][i]} : i \in DOMAIN Written[k]}
GoodFile == [k \in Key |-> {Written[k][1]}]
Files == UNION {{[GoodFile EXCEPT ![j] = v, ![k] = w] : v \in Options(j), w \in Options(k)} : j \in Key, k \in Key}
           \cup {[k \in Key |-> IF k = "base" THEN {d} ELSE {}] : d \in Domain}

Default ==
  [base |-> <<>>, instance |-> <<>>, dns |-> {1, 9}, overcommit |-> 1, batch |-> 4,
   runner_listen |-> "underlay", skew |-> 60, bits |-> 16, runners |-> <<>>,
   http |-> At("loopback", 10080), https |-> At("port", 443), ssh |-> At("port", 22),
   port_min |-> 3000, port_max |-> 9999, vcpu |-> 2, image |-> {}, rootfs |-> "ext4", storage |-> "/s",
   timeout |-> 30, builder |-> {}, reserved |-> {"www", "bento"}, images |-> <<>>]

\* Keys whose value stays an option; the instance domain follows the base.
resolve(file) ==
  [k \in Key |->
     IF k \in {"image", "builder"} THEN file[k]
     ELSE IF file[k] # {} THEN CHOOSE v \in file[k] : TRUE
     ELSE IF k = "instance" /\ file["base"] # {} THEN CHOOSE v \in file["base"] : TRUE
     ELSE Default[k]]

-----------------------------------------------------------------------------
(* Validation.                                                             *)

\* Exactly one source, not empty, and no checksum beside an OCI reference.
try_from(e) ==
  /\ e.name # "" /\ (e.url = {}) # (e.oci = {}) /\ "" \notin e.url \cup e.oci
  /\ e.oci # {} => e.pin = {}

endpoint_host(r) == IF r.endpoint = -2 THEN {} ELSE {r.endpoint}

\* The next hop: the underlay address, or the endpoint's when it is one.
underlay_address(r) == IF r.underlay # {} THEN r.underlay ELSE endpoint_host(r) \ {-1}

Size(bits) == 2 ^ (24 - bits)
contains(bits, net) == bits <= 24 /\ net >= 0 /\ net \div Size(bits) = Net \div Size(bits)

\* The interfaces a listen address is bound on, none for one that is refused.
resolve_listen_addr(a) ==
  IF a.form \in {"port", "any"} THEN Interface ELSE {a.form} \cap Interface
listen_port(a) == {a.port}
validate_runner_listen(l) == l = "underlay"
pinned_oci_reference(b) == b = "pinned"

\* Mutant of CheckRunners: only the next hop is looked at.
CheckNextHops(c) ==
  \A i \in DOMAIN c.runners : /\ underlay_address(c.runners[i]) # {}
                              /\ \A a \in underlay_address(c.runners[i]) : ~contains(c.bits, a)

\* Every runner has a next hop, and neither it nor the endpoint is a guest's.
CheckRunners(c) ==
  \A i \in DOMAIN c.runners : /\ underlay_address(c.runners[i]) # {}
                              /\ \A a \in underlay_address(c.runners[i]) \cup endpoint_host(c.runners[i]) : ~contains(c.bits, a)

CheckPorts(c) ==
  /\ c.port_min # 0 /\ resolve_listen_addr(c.http) # {} /\ resolve_listen_addr(c.ssh) # {}
  /\ c.port_min <= c.port_max /\ \A p \in listen_port(c.http) : p \notin c.port_min..c.port_max

CheckImages(c) ==
  LET oci == \E i \in DOMAIN c.images : c.images[i].oci # {} IN
  /\ \A i, j \in DOMAIN c.images : c.images[i].name = c.images[j].name => i = j
  /\ IF c.builder = {} THEN ~oci ELSE \A b \in c.builder : pinned_oci_reference(b)

validate(c) ==
  /\ c.base # <<>> /\ c.instance # <<>> /\ c.dns # {}
  /\ \A d \in {c.base, c.instance} : "*" \notin ToSet(d)
  /\ c.overcommit >= 1 /\ c.batch >= 1 /\ validate_runner_listen(c.runner_listen) /\ c.skew > 0
  /\ c.bits <= 24 /\ CheckRunners(c) /\ CheckPorts(c)
  /\ c.vcpu >= 1 /\ c.rootfs \in {"ext4", "xfs", "btrfs"} /\ c.storage # "" /\ c.timeout > 0
  /\ CheckImages(c)

\* An entry that does not convert is refused while the file is decoded.
parse(file) ==
  /\ \A es \in file["images"] : \A i \in DOMAIN es : try_from(es[i])
  /\ validate(resolve(file))

\* The names no instance may take.
reserved(c) ==
  c.reserved \cup IF Len(c.base) = Len(c.instance) + 1 /\ Tail(c.base) = c.instance THEN {Head(c.base)} ELSE {}

default_image(c) == IF c.image # {} THEN c.image ELSE IF c.images = <<>> THEN {} ELSE {c.images[1].name}

\* Mutant of control_url: an unspecified host is dialled as it is written.
control_url_verbatim(a) == a

\* What the processes make of the listen addresses (bentod/src/setup.rs).
\* An empty bind_host is left to the system's resolver to understand.
control_url(a) == IF a.form \in {"port", "any"} THEN At("loopback", a.port) ELSE a
bind_host(a) == IF a.form = "port" THEN "" ELSE a.form
main_port(a) == IF a.form = "text" THEN 0 ELSE a.port
with_ports(main) == IF main = 0 THEN 443 ELSE main

\* ProxyBuilder::build.
build(c) ==
  c.base # <<>> /\ c.port_min <= c.port_max /\ with_ports(main_port(c.https)) \notin c.port_min..c.port_max

\* What every accepted file gives the processes that use it without a look
\* of their own: a next hop and a management address outside the guest range
\* for each runner; a control plane that listens where the proxy dials it,
\* unless its port is 0; a control-plane port outside the proxy's high range;
\* a builder for every OCI image and one allowlist row for each name; and no
\* instance name that the proxy answers itself.  A file with the base domain
\* alone is accepted.
\*
\* The https address is not validated, and an accepted file may be one the
\* proxy cannot serve: its main port may be in the high range, which is the
\* one reason for which the builder then refuses the file, it may be the
\* control plane's port, and it may be no address at all.  Of one that is
\* written with a host the proxy binds that host and port, 443 for port 0.
ConfigServes(file) ==
  LET c == resolve(file)
      main == with_ports(main_port(c.https)) IN
  /\ parse(file) =>
       /\ \A i \in DOMAIN c.runners : \E a \in underlay_address(c.runners[i]) : \A b \in endpoint_host(c.runners[i]) \cup {a} :
            b \notin Net..(Net + Size(c.bits) - 1)
       /\ c.http.port # 0 => LET to == control_url(c.http) IN
            to.form \in resolve_listen_addr(c.http) /\ to.port = c.http.port
       /\ c.http.port \notin c.port_min..c.port_max
       /\ \A i \in DOMAIN c.images : /\ c.images[i].oci # {} => c.builder = {"pinned"}
                                     /\ Cardinality(c.images[i].url \cup c.images[i].oci) = 1
       /\ Cardinality({c.images[i].name : i \in DOMAIN c.images}) = Len(c.images)
       /\ \A name \in Label \ reserved(c) : <<name>> \o c.instance # c.base
       /\ build(c) <=> main \notin c.port_min..c.port_max
       /\ c.https.form \notin {"port", "text"} =>
            /\ resolve_listen_addr(c.https) = resolve_listen_addr(At(bind_host(c.https), main))
            /\ main = IF c.https.port = 0 THEN 443 ELSE c.https.port
  /\ (file["base"] = {Good} /\ \A k \in Key \ {"base"} : file[k] = {}) => parse(file)

-----------------------------------------------------------------------------
(* Host requirements.                                                      *)

Directory == {"missing", "file", "readonly", "writable"}
Hosts == [kvm : BOOLEAN, libvirt : BOOLEAN, tools : BOOLEAN, podman : BOOLEAN, images : Directory,
          storage : {"writable", "readonly"}, containers : Directory, oci : BOOLEAN,
          ksm : {"0", "1", "2", "unread"}, nested : {{}, {"Y"}, {"N"}}, nested_wanted : BOOLEAN]

result(name, fatal, ok) == [name |-> name, fatal |-> fatal, ok |-> ok]

\* A directory that is there is also probed for writing.
Dir(name, fatal, d) ==
  <<result(name, fatal, d \in {"readonly", "writable"})>>
    \o IF d \in {"readonly", "writable"} THEN <<result(name \o " writable", fatal, d = "writable")>> ELSE <<>>

check_ksm(h) == result("ksm run", FALSE, h.ksm \notin {"0", "unread"})
nested_enabled(h) == h.nested = {"Y"}
check_nested(h) == IF h.nested_wanted THEN <<result("nested virtualization", FALSE, nested_enabled(h))>> ELSE <<>>

check(h) ==
  <<result("kvm device", TRUE, h.kvm), result("libvirtd socket", TRUE, h.libvirt),
    result("tools", TRUE, h.tools), result("podman binary", h.oci, h.podman)>>
    \o Dir("image directory", TRUE, h.images) \o Dir("storage directory", TRUE, h.storage)
    \o Dir("container storage directory", h.oci, h.containers) \o <<check_ksm(h)>> \o check_nested(h)

ok(report) == \A i \in DOMAIN report : report[i].fatal => report[i].ok
warnings(report) == SelectSeq(report, LAMBDA r : ~r.fatal /\ ~r.ok)

\* A host starts exactly when it can run guests, and can build images when it
\* has OCI images to build (check.rs check): KSM and nesting only warn, and a
\* host without OCI images does not need Podman.  A start without a warning
\* has Podman, nesting if it is wanted, and KSM not at 0; at 2 (merging
\* stopped and undone) it is not told from 1.
HostServes(h) ==
  /\ ok(check(h)) <=> /\ h.kvm /\ h.libvirt /\ h.tools /\ h.images = "writable" /\ h.storage = "writable"
                      /\ h.oci => h.podman /\ h.containers = "writable"
  /\ ok(check(h)) /\ warnings(check(h)) = <<>> =>
       h.ksm \in {"1", "2"} /\ h.podman /\ (h.nested_wanted => nested_enabled(h))

-----------------------------------------------------------------------------
(* The command line.                                                       *)

Arg == {"-h", "-config", "-config=p", "-x", "serve", "images", "what"}
COMMANDS == {"serve", "images"}

\* The flags before the command; what follows it is the command's.
parse_args(args) ==
  LET scan[i \in 1..(Len(args) + 2), config \in {"default", "given"}] ==
        IF i > Len(args) THEN [error |-> FALSE, config |-> config, rest |-> <<>>]
        ELSE IF args[i] = "-config"
               THEN IF i = Len(args) THEN [error |-> TRUE, config |-> config, rest |-> <<>>] ELSE scan[i + 2, "given"]
        ELSE IF args[i] = "-config=p" THEN scan[i + 1, "given"]
        ELSE IF args[i] \in {"-h", "-x"} THEN [error |-> TRUE, config |-> config, rest |-> <<>>]
        ELSE [error |-> FALSE, config |-> config, rest |-> SubSeq(args, i, Len(args))]
  IN scan[1, "default"]

\* The exit status, when the command itself succeeds or fails.
run(args, succeeds) ==
  LET parsed == parse_args(args) IN
  IF parsed.error \/ parsed.rest = <<>> \/ Head(parsed.rest) \notin COMMANDS THEN 2
  ELSE IF succeeds THEN 0 ELSE 1

\* A command runs only when every word before it is a flag this program has,
\* and a failed one is told from one that never ran (main.rs run): what it
\* gets is the tail of what was typed.
ArgsRun(args) ==
  LET parsed == parse_args(args) IN
  /\ run(args, TRUE) = 2 <=> run(args, FALSE) = 2
  /\ run(args, TRUE) = 0 => \E i \in DOMAIN args :
       /\ args[i] \in COMMANDS /\ parsed.rest = SubSeq(args, i, Len(args))
       /\ \A j \in 1..(i - 1) : args[j] \in {"-config", "-config=p"} \/ (j > 1 /\ args[j - 1] = "-config")
       /\ (i > 1) <=> parsed.config = "given"

-----------------------------------------------------------------------------
(* The subnet plan.                                                        *)

from_prefix(bits) == bits <= 24
subnets(bits) == Size(bits)
masked(bits, net) == (net \div Size(bits)) * Size(bits)
subnet(bits, net, i) == IF i \in 0..(subnets(bits) - 1) THEN {masked(bits, net) + i} ELSE {}
index(bits, net, s) == IF masked(bits, s) = masked(bits, net) THEN {s - masked(bits, net)} ELSE {}

\* The lowest index no user has; subnets of an earlier range do not count.
allocate(bits, net, used) ==
  LET taken == UNION {index(bits, net, s) : s \in used}
      free == (0..(subnets(bits) - 1)) \ taken
  IN IF free = {} THEN {} ELSE subnet(bits, net, Min(free))

\* A user gets a /24 of the range that nobody has while there is one, and
\* index and subnet are inverse (subnet.rs).
PlanAllocates(p) ==
  LET range == Net..(Net + Size(p.bits) - 1)
      got == allocate(p.bits, p.net, p.used) IN
  from_prefix(p.bits) =>
    /\ got \subseteq range \ p.used /\ (got = {} <=> range \subseteq p.used)
    /\ \A i \in 0..subnets(p.bits) : \A s \in subnet(p.bits, p.net, i) : index(p.bits, p.net, s) = {i}

-----------------------------------------------------------------------------
Init ==
  \/ input \in [kind : {"config"}, of : Files]
  \/ input \in [kind : {"host"}, of : {h \in Hosts : h.kvm \/ (h.libvirt /\ h.tools)}]
  \/ input \in [kind : {"args"}, of : UNION {[1..n -> Arg] : n \in 0..3}]
  \/ input \in [kind : {"plan"}, of : [bits : {22}, net : {Net, Net + 1}, used : SUBSET ((Net - 1)..(Net + 4))]]

Next == UNCHANGED input

SettingsTypeOK == input.kind \in {"config", "host", "args", "plan"}

\* What each of the checks before a start promises of what it lets through.
SettingsSound ==
  CASE input.kind = "config" -> ConfigServes(input.of)
    [] input.kind = "host" -> HostServes(input.of)
    [] input.kind = "args" -> ArgsRun(input.of)
    [] input.kind = "plan" -> PlanAllocates(input.of)
=============================================================================
