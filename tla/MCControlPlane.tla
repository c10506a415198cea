--------------------------- MODULE MCControlPlane ---------------------------
(***************************************************************************)
(* The instance lifecycle, sign-in and the linking of SSH keys, for TLC.   *)
(* They share no state that their properties depend on, so one behaviour   *)
(* exercises one of them, chosen at the start, and the others rest: the    *)
(* state space is the sum of theirs.                                       *)
(***************************************************************************)
EXTENDS MCLifecycle, Login, Pairing, TLC

CONSTANTS x1, x2, y1, y2, z1, z2

\* Sign-in and linking share model values: a permutation of one pair is then
\* a symmetry of both.
Symmetry == Permutations({x1, x2}) \cup Permutations({y1, y2}) \cup Permutations({z1, z2})

\* Everybody prefers the same name.
MCPreferredName == [s \in Subject |-> "ada"]

VARIABLE which \* the component that is exercised

controlVars == <<which, vars, loginVars, pairingVars>>

\* A component at rest is in one of its initial states.
ControlInit ==
  /\ which \in {"lifecycle", "login", "pairing"}
  /\ Init /\ (which = "lifecycle" \/ rows[u1].host = ctl)
  /\ LoginInit /\ (which = "login" \/ idp = [b \in Browser |-> {}])
  /\ PairingInit

\* Sign-ins and links may be over; the polls of the lifecycle never are.
ControlNext ==
  \/ which = "lifecycle" /\ Next /\ UNCHANGED <<which, loginVars, pairingVars>>
  \/ which = "login" /\ LoginNext /\ UNCHANGED <<which, vars, pairingVars>>
  \/ which = "pairing" /\ PairingNext /\ UNCHANGED <<which, vars, loginVars>>
  \/ which # "lifecycle" /\ UNCHANGED controlVars

ControlSpec == ControlInit /\ [][ControlNext]_controlVars
=============================================================================
