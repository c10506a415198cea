--------------------------- MODULE FirewallPolicy ---------------------------
(***************************************************************************)
(* What the nftables table of one machine (Here) lets through: the rules   *)
(* of crates/network/src/nftables.rs render, over the description of the   *)
(* machine that bentod/src/netstate.rs machine_network derives from the    *)
(* database, against the isolation policy the deployment promises.         *)
(*                                                                         *)
(* The table is an algorithm, so a state is one input: the facts the       *)
(* description is built from, once they are read.  Packets are quantified  *)
(* over in the property.  An address is a pair: <<user, slot>> stands for  *)
(* the guests of a user in one runner slot, <<kind, host>> for a machine's *)
(* underlay or endpoint address, and Net for the rest of the world.        *)
(***************************************************************************)
EXTENDS Naturals, Sequences, FiniteSetsExt

CONSTANTS FwUser, RunnerSlot, Host, Here

\* No user is called like a kind of address, or like the wire.
ASSUME FirewallAssumption == FwUser \cap {"net", "underlay", "endpoint", "wire"} = {}

VARIABLE facts

\* Slots and hosts as facts; each user runs one instance in each owned slot.
Rows == [owner : [RunnerSlot -> SUBSET Host], moving : SUBSET RunnerSlot,
         underlay : SUBSET Host, endpoint : SUBSET Host, controller : Host,
         published : SUBSET FwUser]

\* Before the first description there is no table.
Undescribed == <<>>

FirewallInit == facts = Undescribed

\* The rows a description is read from.  It is a function of them alone, so
\* one reading of every combination says all.
machine_network ==
  \E owner \in [RunnerSlot -> {{}} \cup {{h} : h \in Host}], moving \in SUBSET RunnerSlot,
     underlay \in SUBSET Host, controller \in Host, published \in SUBSET FwUser :
    /\ facts = Undescribed
    /\ \A s \in moving : owner[s] # {}
    /\ facts' = [owner |-> owner, moving |-> moving, underlay |-> underlay,
                 endpoint |-> {h \in Host : h # controller}, controller |-> controller,
                 published |-> published]

FirewallNext == machine_network

FirewallSpec == FirewallInit /\ [][FirewallNext]_facts

-----------------------------------------------------------------------------
(* The description of this machine (machine_network).                      *)

Guest == FwUser \X RunnerSlot
Net == <<"net", "net">>
Underlay(h) == <<"underlay", h>>
Endpoint(h) == <<"endpoint", h>>
Address == Guest \cup {Net} \cup {Underlay(h) : h \in Host} \cup {Endpoint(h) : h \in Host}

\* A slot is remote when another machine owns it, that machine has an
\* underlay address, and the slot is not being moved.
remote_slots ==
  {s \in RunnerSlot : \E h \in facts.owner[s] \ {Here} : h \in facts.underlay /\ s \notin facts.moving}

\* The instances this machine runs, with the HTTP ports of the visible ones.
instances == {g \in Guest : facts.owner[g[2]] = {Here}}
PortsOf(g) == {"ssh"} \cup (IF g[1] \in facts.published THEN {"http", "high"} ELSE {})

\* Frontends are on the controller; its own guests need no entry.
frontends == {Underlay(h) : h \in ({facts.controller} \cap facts.underlay) \ {Here}}

management == {Underlay(h) : h \in facts.underlay} \cup {Endpoint(h) : h \in facts.endpoint}

\* Mutant of local_prefixes: the remote slots are forgotten.
whole_subnet(u) == {u} \X RunnerSlot

\* The part of a user's /24 this machine holds: all of it, or all slots that
\* are not remote.
local_prefixes(u) == {u} \X (RunnerSlot \ remote_slots)
remote_prefixes(u) == {u} \X remote_slots

\* nft refuses a set without elements, and with it the whole table.
Loads == \A u \in FwUser : local_prefixes(u) # {}

-----------------------------------------------------------------------------
(* The chains: a rule of the code is written once for each user or         *)
(* instance, and here it is one step with their patterns, since they share *)
(* a verdict.  A pattern is by interface, address and kind of packet; the  *)
(* first rule that matches decides, the chain's policy decides the rest.   *)

Wire == "wire"
Iface == FwUser \cup {Wire}
PacketKind == {"established", "icmp", "ssh", "http", "high", "web", "other"}

Pattern(iif, oif, src, dst, kind) == [iif |-> iif, oif |-> oif, src |-> src, dst |-> dst, kind |-> kind]
Rule(verdict, patterns) == [verdict |-> verdict, patterns |-> patterns]

Fits(q, p) ==
  p.iif \in q.iif /\ p.oif \in q.oif /\ p.src \in q.src /\ p.dst \in q.dst /\ p.kind \in q.kind
Matches(r, p) == \E q \in r.patterns : Fits(q, p)
Verdict(chain, policy, p) ==
  LET hits == {i \in 1..Len(chain) : Matches(chain[i], p)}
  IN  IF hits = {} THEN policy ELSE chain[Min(hits)].verdict

Established == Rule("accept", {Pattern(Iface, Iface, Address, Address, {"established"})})

\* Rule 1: the host reaches port 22 and the published ports of an instance.
output_chain ==
  <<Rule("accept", {Pattern(Iface, {g[1]}, Address, {g}, PortsOf(g)) : g \in instances}),
    Rule("drop", {Pattern(Iface, {u}, Address, Address, PacketKind) : u \in FwUser})>>

\* Rule 8: a guest reaches the host by ICMP and the public ports only.
input_chain ==
  <<Established,
    Rule("accept", {Pattern({u}, Iface, Address, Address, {"icmp"}) : u \in FwUser}),
    Rule("accept", {Pattern({u}, Iface, Address, Address, {"web"}) : u \in FwUser}),
    Rule("drop", {Pattern({u}, Iface, Address, Address, PacketKind) : u \in FwUser})>>

\* Rules 9, 10 and 3 drop; 6 and 7 admit from outside a bridge; 4, 2b and 2
\* let a guest out.
Rule9 == Rule("drop", {Pattern({u}, Iface, Address \ local_prefixes(u), Address, PacketKind) : u \in FwUser})
Rule10 == Rule("drop", {Pattern({u}, Iface, Address, management, PacketKind) : u \in FwUser})
Rule3 == Rule("drop", {Pattern({u}, FwUser \ {u}, Address, Address, PacketKind) : u \in FwUser})
Rule6 ==
  Rule("accept", IF remote_slots = {} THEN {}
                 ELSE {Pattern({Wire}, {u}, remote_prefixes(u), local_prefixes(u), PacketKind) : u \in FwUser})
Rule7 == Rule("accept", {Pattern(Iface, {g[1]}, frontends, {g}, PortsOf(g)) : g \in instances})
Rule4 == Rule("accept", {Pattern({u}, {u}, Address, Address, PacketKind) : u \in FwUser})
Rule2b ==
  Rule("accept", IF remote_slots = {} THEN {}
                 ELSE {Pattern({u}, Iface, Address, {u} \X RunnerSlot, PacketKind) : u \in FwUser})
Rule2 == Rule("accept", {Pattern({u}, Iface, Address, Address \ Guest, PacketKind) : u \in FwUser})

forward_chain == <<Established, Rule9, Rule10, Rule3, Rule6, Rule7, Rule4, Rule2b, Rule2>>

\* Rule 5: a guest's packet that leaves the private range is masqueraded.
Masquerades(p) == p.src \in Guest /\ p.dst \notin Guest

-----------------------------------------------------------------------------
(* The policy, stated without the rules: who may reach whom.               *)

\* The kernel sends a guest's address out on the user's bridge unless a slot
\* route sends it over the underlay, and everything else out on the wire.
OutOf(dst) == IF dst \in Guest /\ dst[2] \notin remote_slots THEN dst[1] ELSE Wire

NewPacket ==
  {[iif |-> iif, oif |-> OutOf(dst), src |-> src, dst |-> dst, kind |-> kind] :
     iif \in Iface, src \in Address, dst \in Address, kind \in PacketKind \ {"established"}}

\* The slots this machine owns, by the rows.
OwnSlots == {s \in RunnerSlot : facts.owner[s] = {Here}}

\* Rows in which every other slot has its route: each is owned by a machine
\* with an underlay address and is not being moved.
Settled ==
  \A s \in RunnerSlot \ OwnSlots :
    s \notin facts.moving /\ \E h \in facts.owner[s] \ {Here} : h \in facts.underlay

\* The claims a guest's new packet must satisfy to be forwarded: an address
\* of its own user in a slot this machine owns, and either its own user's
\* network or an address outside the range that is no machine's.
MayLeave(p) ==
  /\ p.src[1] = p.iif /\ p.src[2] \in OwnSlots
  /\ \/ p.dst \in Guest /\ p.dst[1] = p.iif
     \/ p.dst = Net
     \/ p.dst \in {Underlay(h) : h \in Host \ facts.underlay} \cup {Endpoint(h) : h \in Host \ facts.endpoint}

\* The claims of a new packet from outside every bridge: the same user's
\* guest in another machine's slot, to one in a slot of this machine, or the
\* frontend to an open port of an instance.
MayEnter(p) ==
  /\ p.dst \in Guest /\ p.oif = p.dst[1] /\ p.dst[2] \in OwnSlots
  /\ \/ p.src \in Guest /\ p.src[1] = p.dst[1] /\ p.src[2] \notin OwnSlots
     \/ /\ facts.controller \in facts.underlay \ {Here} /\ p.src = Underlay(facts.controller)
        /\ p.kind = "ssh" \/ (p.kind \in {"http", "high"} /\ p.dst[1] \in facts.published)

\* What holds whoever owns the slots: no guest sends as another user's, or to
\* one or to a machine, and none is sent to by another user's.
KeepsToUser(p) ==
  IF p.iif = Wire
  THEN p.dst \in Guest /\ p.oif = p.dst[1] /\ (p.src \in Guest => p.src[1] = p.dst[1])
  ELSE p.src \in Guest /\ p.src[1] = p.iif /\ (p.dst \in Guest => p.dst[1] = p.iif) /\ p.dst \notin management

\* A table that loads (nftables.rs render over netstate.rs machine_network)
\* keeps users apart whatever the rows say, and when every other slot has its
\* route it accepts exactly the new traffic of MULTI-NODE.md:496-520: a guest
\* leaves only with an address of its user in a slot of this machine and
\* never for another user or a machine, and nothing enters a bridge but the
\* same user's far guests and the frontend on open ports.  A packet that
\* leaves is masqueraded exactly when it leaves the private range, and a
\* guest reaches of the host ICMP, the public ports and what replies to it.
\*
\* Three places where the table is not what the text says.  While a slot has
\* no owner, is moving or its owner has no underlay address, this machine
\* takes the slot for its own (local_prefixes) and accepts its addresses,
\* which MULTI-NODE.md:518-520 rules out.  For a machine that owns no slot
\* the empty set of rule 9 is refused and no table loads.  And the host
\* sends a guest nothing but packets to open ports: the output chain has no
\* rule for replies, so it drops the answers to the pings and the requests
\* to ports 80 and 443 that the input chain lets in.
PolicyIsolates ==
  facts # Undescribed /\ Loads =>
    LET forward == forward_chain
        output == output_chain
        input == input_chain IN
    /\ \A p \in NewPacket :
         LET accepted == Verdict(forward, "drop", p) = "accept" IN
         /\ Settled => (accepted <=> IF p.iif = Wire THEN MayEnter(p) ELSE MayLeave(p))
         /\ accepted => KeepsToUser(p)
         /\ accepted /\ p.iif # Wire => (Masquerades(p) <=> p.dst \notin Guest)
    /\ \A p \in [iif : {Wire}, oif : FwUser, src : {Net}, dst : Guest, kind : PacketKind] :
         (Verdict(output, "accept", p) = "accept") <=>
           p.oif = p.dst[1] /\ facts.owner[p.dst[2]] = {Here} /\ p.kind \in PortsOf(p.dst)
    /\ \A p \in [iif : FwUser, oif : {Wire}, src : Address, dst : {Net}, kind : PacketKind] :
         (Verdict(input, "accept", p) = "accept") <=> p.kind \in {"established", "icmp", "web"}

\* The facts are those of rows, once read (netstate.rs machine_network).
FirewallTypeOK == facts = Undescribed \/ facts \in Rows
=============================================================================
