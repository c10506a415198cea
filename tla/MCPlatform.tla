----------------------------- MODULE MCPlatform -----------------------------
(***************************************************************************)
(* The components around the fleet protocol, for TLC: requests, the        *)
(* frontends, images, the hypervisor connection, and the pure rules.  They *)
(* share no state that their properties depend on, so one behaviour        *)
(* exercises one of them, chosen at the start, and the others rest: the    *)
(* state space is the sum of theirs.  The constants of the components      *)
(* extended here get their values in the configuration.                    *)
(***************************************************************************)
EXTENDS Requests, Images, HypervisorRpc, TLC

CONSTANTS x1, x2, y1, y2, z1, z2

\* The components are independent, so they share model values: a permutation
\* of one pair of values is then a symmetry of every component at once.
Symmetry == Permutations({x1, x2}) \cup Permutations({y1, y2}) \cup Permutations({z1, z2})

\* No image is pinned to a checksum.
MCPinned == [i \in Image |-> {}]

-----------------------------------------------------------------------------
(* Credentials.                                                            *)

CrdUser == {x1, x2}
Fp == {y1, y2}
Client == {"client"}
MaxIds == 2
MaxNow == 1
MaxCrdEdits == 4

-----------------------------------------------------------------------------
(* Frontends: one SSH session, one proxy connection, one certificate.      *)

PipeCap == 1
WindowCap == 1
Timeout == 4
Interval == 1
DialMax == 2
MaxSent == 3
MaxOut == 2

PxUser == {"a", "b"}
PxPort == {443, 3000}
MainPort == 443
QueueCap == 1
MaxUuids == 2
MaxEdits == 2

Auth == {"base", "wildcard"}
MaxIssued == 3
MaxCrtFaults == 2

-----------------------------------------------------------------------------
(* The pure rules.                                                          *)

Base == 5
MAX_VALUE_LENGTH == 40
MAX_PACKET_LENGTH == 200

-----------------------------------------------------------------------------
\* The component that is exercised, and the state of one whose module
\* declares a single variable.
VARIABLES which, v1

Se == INSTANCE SshSession WITH ses <- v1
Px == INSTANCE Proxy WITH px <- v1, Conn <- {"connection"}
Ce == INSTANCE Certificates WITH crt <- v1
Cr == INSTANCE Credentials WITH crd <- v1
Sg == INSTANCE Settings WITH input <- v1
Wi == INSTANCE Wire WITH wire <- v1

vars == <<which, v1, requestsVars, imagesVars, rpc>>

\* A component at rest is in one state in which nothing has happened yet.
AtRest == "at rest"
RequestsRests == RequestsInit /\ rows = [u \in Uuid |-> NoRow]
ImagesRests == EmptyStore /\ served = AtRest
RpcRests == RpcInit /\ rpc.advertised = <<>>

Single ==
  \/ which = "session" /\ Se!Init
  \/ which = "proxy" /\ Px!Init
  \/ which = "certificates" /\ Ce!Init
  \/ which = "credentials" /\ Cr!Init
  \/ which = "settings" /\ Sg!Init
  \/ which = "wire" /\ Wi!Init

Init ==
  /\ Single \/ (which \in {"requests", "images", "rpc"} /\ v1 = AtRest)
  /\ IF which = "requests" THEN RequestsInit ELSE RequestsRests
  /\ IF which = "images" THEN ImagesInit ELSE ImagesRests
  /\ IF which = "rpc" THEN RpcInit ELSE RpcRests

Next ==
  \/ which = "requests" /\ RequestsNext /\ UNCHANGED <<which, v1, imagesVars, rpc>>
  \/ which = "images" /\ ImagesNext /\ UNCHANGED <<which, v1, requestsVars, rpc>>
  \/ which = "rpc" /\ RpcNext /\ UNCHANGED <<which, v1, requestsVars, imagesVars>>
  \/ /\ UNCHANGED <<which, requestsVars, imagesVars, rpc>>
     /\ \/ which = "session" /\ Se!Next
        \/ which = "proxy" /\ Px!Next
        \/ which = "certificates" /\ Ce!Next
        \/ which = "credentials" /\ Cr!Next
        \/ which = "settings" /\ Sg!Next
        \/ which = "wire" /\ Wi!Next

Spec == Init /\ [][Next]_vars

-----------------------------------------------------------------------------
\* The state of the component that is exercised has its type.
TypeOK ==
  CASE which = "requests" -> RequestsTypeOK
    [] which = "images" -> ImagesTypeOK
    [] which = "session" -> Se!SessionTypeOK
    [] which = "proxy" -> Px!ProxyTypeOK
    [] which = "certificates" -> Ce!CertificatesTypeOK
    [] which = "credentials" -> Cr!CredentialsTypeOK
    [] which = "rpc" -> RpcTypeOK
    [] which = "settings" -> Sg!SettingsTypeOK
    [] which = "wire" -> Wi!WireTypeOK

\* What users reach the platform by keeps its promises: an SSH session is
\* told its status once and after all output (sshfront/src/session.rs), the proxy lets through only
\* what the owner allowed (proxy/src/lib.rs), no challenge record is
\* forgotten (tlscert/src/lib.rs), and a credential opens the same doors
\* everywhere (auth, store/src/sshkeys.rs).
FrontendsSound ==
  CASE which = "session" -> Se!EndsAfterOutput
    [] which = "proxy" -> Px!ProxyGates
    [] which = "certificates" -> Ce!CertificateSound
    [] which = "credentials" -> Cr!DoorsAgree
    [] OTHER -> TRUE

\* The pure rules agree with their references: what an accepted
\* configuration promises the processes (config/src/lib.rs, see ConfigServes
\* for what it does not), and the libvirt encoding is the one of RFC 4506,
\* read back (hypervisor/src/xdr.rs).
RulesAgree ==
  CASE which = "settings" -> Sg!SettingsSound
    [] which = "wire" -> Wi!WireSound
    [] OTHER -> TRUE
=============================================================================
