--------------------------- MODULE ControllerLease ---------------------------
(***************************************************************************)
(* The controller lease: one row of the SQLite database that says which    *)
(* `bentod serve` process may drive the runners, until when, and under     *)
(* which epoch.  Every transaction is one action.  All the processes that  *)
(* open the database run on one machine and read one clock, which counts   *)
(* half seconds.                                                           *)
(*                                                                         *)
(* A member of Controllers is one run of `serve`: it draws a fresh holder  *)
(* id at its start, so a process that is started again is another member.  *)
(***************************************************************************)
EXTENDS Integers

CONSTANTS Controllers,   \* runs of `bentod serve`, each with its holder id
          NoHolder,      \* holder_id IS NULL
          TTL,           \* CONTROLLER_LEASE_TTL, in half seconds
          MaxClock       \* bound: where the clock stops

ASSUME LeaseAssumption ==
  /\ NoHolder \notin Controllers
  /\ TTL \in Nat \ {0}
  /\ MaxClock \in Nat

VARIABLES clock,         \* the time, in half seconds
          lease,         \* the row of controller_lease
          serve,         \* how far each run of `serve` is
          held           \* the lease each run last published on its channel

leaseVars == <<clock, lease, serve, held>>

NoLease == [epoch |-> 0, expires |-> 0]

Live(c) == serve[c] \in {"serving", "stopping"}

(***************************************************************************)
(* Times are stored as RFC 3339 text in UTC, which prints a whole second   *)
(* without a fraction: "...:02Z", then "...:02.5Z".                        *)
(* A comparison of the texts, which is what SQL does, agrees with the      *)
(* times across seconds.  Within one second 'Z' sorts after '.', so the    *)
(* whole second comes out above its own fraction.                          *)
(***************************************************************************)
TextAfter(t, u) ==
  \/ t \div 2 > u \div 2
  \/ t \div 2 = u \div 2 /\ t < u

(* acquire_lease: the expiry is parsed, so this is a comparison of times.  *)
HeldByAnother(c) ==
  /\ lease.holder \notin {NoHolder, c}
  /\ lease.expires > clock

LeaseInit ==
  /\ clock = 0
  /\ lease = [holder |-> NoHolder, epoch |-> 0, expires |-> 0]
  /\ serve = [c \in Controllers |-> "down"]
  /\ held = [c \in Controllers |-> NoLease]

(* Mutant of Acquire: the holder's expiry is not looked at. *)
AcquireWithoutAsking(c) ==
  /\ serve[c] = "down"
  /\ lease' = [holder |-> c, epoch |-> lease.epoch + 1, expires |-> clock + TTL]
  /\ held' = [held EXCEPT ![c] = [epoch |-> lease.epoch + 1, expires |-> clock + TTL]]
  /\ serve' = [serve EXCEPT ![c] = "serving"]
  /\ UNCHANGED clock

(***************************************************************************)
(* A run starts and takes the lease in one write transaction.  When        *)
(* another run holds an unexpired one the process exits and nothing has    *)
(* changed, so a refused start is no step.                                 *)
(***************************************************************************)
Acquire(c) ==
  /\ serve[c] = "down"
  /\ ~HeldByAnother(c)
  /\ lease' = [holder |-> c, epoch |-> lease.epoch + 1, expires |-> clock + TTL]
  /\ held' = [held EXCEPT ![c] = [epoch |-> lease.epoch + 1, expires |-> clock + TTL]]
  /\ serve' = [serve EXCEPT ![c] = "serving"]
  /\ UNCHANGED clock

(***************************************************************************)
(* One turn of the renewal task.  It compares the texts of the times.  The *)
(* renewed lease is published on the channel; a lease that was lost        *)
(* cancels the run.                                                        *)
(***************************************************************************)
Renew(c) ==
  /\ serve[c] = "serving"
  /\ IF lease.holder = c /\ TextAfter(lease.expires, clock)
     THEN /\ lease' = [lease EXCEPT !.expires = clock + TTL]
          /\ held' = [held EXCEPT ![c] = [epoch |-> lease.epoch, expires |-> clock + TTL]]
          /\ UNCHANGED serve
     ELSE /\ serve' = [serve EXCEPT ![c] = "stopping"]
          /\ UNCHANGED <<lease, held>>
  /\ UNCHANGED clock

(* A shutdown signal, a failed task, or a renewal that met a database error. *)
Cancel(c) ==
  /\ serve[c] = "serving"
  /\ serve' = [serve EXCEPT ![c] = "stopping"]
  /\ UNCHANGED <<clock, lease, held>>

(* Mutant of Release: the expiry is set into the past, not to NULL. *)
ReleaseBackdated(c) ==
  /\ serve[c] = "stopping"
  /\ lease' = [holder |-> NoHolder, epoch |-> lease.epoch, expires |-> clock - TTL]
  /\ serve' = [serve EXCEPT ![c] = "released"]
  /\ held' = [held EXCEPT ![c] = NoLease]
  /\ UNCHANGED clock

(* The end of run_serve: the row is given up if it is still this run's. *)
Release(c) ==
  /\ serve[c] = "stopping"
  /\ IF lease.holder = c
     THEN /\ lease' = [holder |-> NoHolder, epoch |-> lease.epoch, expires |-> 0]
          /\ serve' = [serve EXCEPT ![c] = "released"]
     ELSE /\ serve' = [serve EXCEPT ![c] = "gone"]
          /\ UNCHANGED lease
  /\ held' = [held EXCEPT ![c] = NoLease]
  /\ UNCHANGED clock

(* The process dies, or its release fails: the row stays as it is. *)
Crash(c) ==
  /\ Live(c)
  /\ serve' = [serve EXCEPT ![c] = "gone"]
  /\ held' = [held EXCEPT ![c] = NoLease]
  /\ UNCHANGED <<clock, lease>>

Tick ==
  /\ clock < MaxClock
  /\ clock' = clock + 1
  /\ UNCHANGED <<lease, serve, held>>

LeaseTypeOK ==
  /\ clock \in Nat
  /\ lease \in [holder : Controllers \cup {NoHolder}, epoch : Nat, expires : Nat]
  /\ serve \in [Controllers -> {"down", "serving", "stopping", "released", "gone"}]
  /\ held \in [Controllers -> [epoch : Nat, expires : Nat]]

(***************************************************************************)
(* At most one running controller believes that it holds an unexpired      *)
(* lease, and the row agrees with it (acquire_lease refuses an unexpired   *)
(* lease of another holder; the channel never promises more than the row). *)
(***************************************************************************)
OneLiveController ==
  \A c \in Controllers :
    Live(c) /\ held[c].expires > clock =>
      /\ lease.holder = c
      /\ lease.epoch = held[c].epoch
      /\ held[c].expires <= lease.expires
==============================================================================
