----------------------------- MODULE MCLifecycle -----------------------------
(***************************************************************************)
(* Two instances, one settled at the start and one that can be created or  *)
(* copied; two names, two users, the control plane's machine and a runner. *)
(***************************************************************************)
EXTENDS Lifecycle
CONSTANTS u1, u2, web, db1, alice, bob, ctl, run
MCUuid == {u1, u2}
MCExisting == {u1}
MCName == {web, db1}
MCOwner == {alice, bob}
MCHost == {ctl, run}
MCSize == {[mem |-> 1, disk |-> 1], [mem |-> 2, disk |-> 2]}
MCNewSize == {[mem |-> 2, disk |-> 2]}
Settled1(h, s) ==
  [name |-> web, owner |-> alice, host |-> h, mem |-> 1, disk |-> 1,
   state |-> s, desired |-> s]
MCSettled == {Settled1(ctl, "stopped"), Settled1(run, "stopped")}
MCSlot == {"api", "sshd"}
=============================================================================
