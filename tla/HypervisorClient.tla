-------------------------- MODULE HypervisorClient --------------------------
(***************************************************************************)
(* The libvirt client (crates/hypervisor/src/client.rs) as operators on    *)
(* the domains of every machine.  "dom" maps a UUID to its domain or to    *)
(* NoDomain.  libvirt itself is external: it keys a domain by UUID and by  *)
(* name, refuses a definition that would give one UUID two names or one    *)
(* name two UUIDs, and starts a domain only when its files are there.      *)
(* Every client call addresses a domain by NAME on one machine.            *)
(***************************************************************************)
EXTENDS Integers, FiniteSets

CONSTANTS Uuid, Name, Host, Memory, NoDomain

Domain == [host : Host, name : Name, mem : Memory, iso : BOOLEAN, on : BOOLEAN]

Domains(dom, h) == {u \in Uuid : dom[u] # NoDomain /\ dom[u].host = h}

\* lookup: the UUID libvirt has under a name; {} is DomainNotFound.
Lookup(dom, h, n) == {u \in Domains(dom, h) : dom[u].name = n}

On(dom, u) == dom[u] # NoDomain /\ dom[u].on

DomainState(dom, u) == IF On(dom, u) THEN "running" ELSE "stopped"

\* list: every domain of the machine with its state, keyed by UUID.
Listing(dom, h) == [u \in Domains(dom, h) |-> DomainState(dom, u)]

\* libvirt accepts a definition only under these conditions (external).
DefineOk(dom, h, u, n) ==
  \A v \in Domains(dom, h) : v = u <=> dom[v].name = n

\* define: replaces the persistent definition; a running guest keeps running.
Define(dom, h, u, n, m, withIso) ==
  [dom EXCEPT ![u] = [host |-> h, name |-> n, mem |-> m, iso |-> withIso,
                      on |-> On(dom, u)]]

\* domain_create succeeds when the disk and the attached seed exist (external).
Bootable(dom, u, disk, iso) ==
  dom[u] # NoDomain /\ disk[u] > 0 /\ (dom[u].iso => iso[u])

Powered(dom, u, on) == [dom EXCEPT ![u].on = on]

\* remove: destroy when it is not stopped, then undefine.
Undefined(dom, u) == [dom EXCEPT ![u] = NoDomain]

\* create: define, clear autostart, start; when a later call fails the
\* definition is withdrawn, and a failure to withdraw it is ignored.
CreateFailures(dom, h, u, n, m, withIso) ==
  {dom} \cup IF DefineOk(dom, h, u, n)
             THEN {Define(dom, h, u, n, m, withIso)} ELSE {}
=============================================================================
