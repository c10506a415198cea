------------------------------ MODULE Dispatch -------------------------------
(***************************************************************************)
(* Orders from the processes of a deployment to its runners: the           *)
(* controller, which holds the lease, and the SSH frontend, which names    *)
(* the lease the controller holds (LeaseSource of bentod/src/runners.rs),  *)
(* the generation each order takes from the database, the network that     *)
(* delays or drops it, and the fence that judges it.                       *)
(***************************************************************************)
EXTENDS RunnerFence

CONSTANTS Followers,     \* processes that dispatch without holding the lease
          EpochStride    \* the 1_000_000 of next_dispatch_generation

ASSUME DispatchAssumption ==
  /\ Controllers \cap Followers = {}
  /\ EpochStride \in Nat

VARIABLE generation      \* dispatch_generations, by object

vars == <<clock, lease, serve, held, envelope, fence, handler, skew,
          admitted, generation>>

Unused(o) == [stage |-> "unused", sender |-> NoHolder, holder |-> NoHolder,
              epoch |-> 0, expires |-> 0, object |-> o, digest |-> NoDigest,
              target |-> NoRequest, generation |-> 0, sentAt |-> 0]

Init ==
  /\ LeaseInit
  /\ FenceInit
  /\ \E o \in Objects : envelope = [q \in Requests |-> Unused(o)]
  /\ generation = [o \in Objects |-> 0]

(***************************************************************************)
(* The first step of provision, redefine and change: the lease is read.    *)
(* The controller takes the one on its channel.                            *)
(***************************************************************************)
BeginHeld(c, q, o, d, r) ==
  /\ Live(c)
  /\ envelope[q].stage = "unused"
  /\ envelope' = [envelope EXCEPT ![q] =
       [stage |-> "leased", sender |-> c, holder |-> c, epoch |-> held[c].epoch,
        expires |-> held[c].expires, object |-> o, digest |-> d, target |-> r,
        generation |-> 0, sentAt |-> 0]]
  /\ UNCHANGED <<leaseVars, fenceVars, generation>>

(* A follower reads the row, whose expiry it does not look at. *)
BeginFollowing(f, q, o, d, r) ==
  /\ lease.holder # NoHolder
  /\ envelope[q].stage = "unused"
  /\ envelope' = [envelope EXCEPT ![q] =
       [stage |-> "leased", sender |-> f, holder |-> lease.holder, epoch |-> lease.epoch,
        expires |-> lease.expires, object |-> o, digest |-> d, target |-> r,
        generation |-> 0, sentAt |-> 0]]
  /\ UNCHANGED <<leaseVars, fenceVars, generation>>

(* The process that prepares the order is still there. *)
CanStep(q) == envelope[q].sender \in Followers \cup {c \in Controllers : Live(c)}

(* Mutant of NextGeneration: an order at the stored generation, not above it. *)
SameGeneration(o, epoch) ==
  LET floor == epoch * EpochStride IN
  IF generation[o] > floor + 1 THEN generation[o] ELSE floor + 1

(* next_dispatch_generation: max(generation + 1, the epoch's floor + 1). *)
NextGeneration(o, epoch) ==
  LET floor == epoch * EpochStride IN
  IF generation[o] > floor THEN generation[o] + 1 ELSE floor + 1

(* object_fence: the order takes its generation, in a transaction. *)
Number(q) ==
  LET g == NextGeneration(envelope[q].object, envelope[q].epoch) IN
  /\ envelope[q].stage = "leased"
  /\ CanStep(q)
  /\ generation' = [generation EXCEPT ![envelope[q].object] = g]
  /\ envelope' = [envelope EXCEPT ![q] = [@ EXCEPT !.stage = "numbered", !.generation = g]]
  /\ UNCHANGED <<leaseVars, fenceVars>>

(* send: from here the network has it.  An order that is lost never arrives. *)
Send(q) ==
  /\ envelope[q].stage = "numbered"
  /\ CanStep(q)
  /\ envelope' = [envelope EXCEPT ![q] =
       [@ EXCEPT !.stage = "sent", !.sender = NoHolder, !.sentAt = clock]]
  /\ UNCHANGED <<leaseVars, fenceVars, generation>>

notLease == <<envelope, fence, handler, skew, admitted, generation>>
notFence == <<clock, lease, serve, held, envelope, generation>>

Next ==
  \/ \E c \in Controllers : Acquire(c) /\ UNCHANGED notLease
  \/ \E c \in Controllers : Renew(c) /\ UNCHANGED notLease
  \/ \E c \in Controllers : Cancel(c) /\ UNCHANGED notLease
  \/ \E c \in Controllers : Release(c) /\ UNCHANGED notLease
  \/ \E c \in Controllers : Crash(c) /\ UNCHANGED notLease
  \/ Tick /\ UNCHANGED notLease
  \/ \E c \in Controllers, q \in Requests, o \in Objects, d \in Digests, r \in Runners :
       BeginHeld(c, q, o, d, r)
  \/ \E f \in Followers, q \in Requests, o \in Objects, d \in Digests, r \in Runners :
       BeginFollowing(f, q, o, d, r)
  \/ \E q \in Requests : Number(q)
  \/ \E q \in Requests : Send(q)
  \/ \E h \in Handlers, q \in Requests, r \in Runners :
       Arrive(h, q, r) /\ UNCHANGED notFence
  \/ \E h \in Handlers : CheckObject(h) /\ UNCHANGED notFence
  \/ \E h \in Handlers : CheckOutcome(h) /\ UNCHANGED notFence
  \/ \E h \in Handlers : AcceptEpoch(h) /\ UNCHANGED notFence
  \/ \E h \in Handlers : AcceptObject(h) /\ UNCHANGED notFence
  \/ \E h \in Handlers : Work(h) /\ UNCHANGED notFence
  \/ \E h \in Handlers : WorkFails(h) /\ UNCHANGED notFence
  \/ \E h \in Handlers : Finish(h) /\ UNCHANGED notFence
  \/ \E r \in Runners : CrashRunner(r) /\ UNCHANGED notFence

Spec == Init /\ [][Next]_vars
------------------------------------------------------------------------------
EnvelopeType ==
  [stage : {"unused", "leased", "numbered", "sent"},
   sender : Controllers \cup Followers \cup {NoHolder},
   holder : Controllers \cup {NoHolder},
   epoch : Nat, expires : Nat, object : Objects, digest : Digests \cup {NoDigest},
   target : Runners \cup {NoRequest}, generation : Nat, sentAt : Nat]

OrdersTyped ==
  /\ envelope \in [Requests -> EnvelopeType]
  /\ generation \in [Objects -> Nat]

(* Every variable keeps its type. *)
TypeOK == LeaseTypeOK /\ FenceTypeOK /\ OrdersTyped

Numbered(q) == envelope[q].stage \in {"numbered", "sent"}

(***************************************************************************)
(* A generation of an object names one order, whichever process sent it    *)
(* and under whichever epoch (next_dispatch_generation); and what a        *)
(* runner's fence has recorded of an object is an order that was really    *)
(* sent, with that order's own digest, so that a GenerationConflict never  *)
(* meets an order of this deployment.                                      *)
(***************************************************************************)
GenerationNamesOneOrder ==
  /\ \A p, q \in Requests :
       /\ Numbered(p) /\ Numbered(q)
       /\ envelope[p].object = envelope[q].object
       /\ envelope[p].generation = envelope[q].generation
       => p = q
  /\ \A r \in Runners, o \in Objects :
       fence[r].object[o].generation > 0 =>
         \E q \in Requests :
           /\ envelope[q].stage = "sent"
           /\ envelope[q].object = o
           /\ envelope[q].generation = fence[r].object[o].generation
           /\ envelope[q].digest = fence[r].object[o].digest

(***************************************************************************)
(* An order takes a generation above every generation that any runner has  *)
(* accepted for its object (next_dispatch_generation: "still dispatches    *)
(* above whatever a runner already accepted").                             *)
(***************************************************************************)
DispatchesAboveAccepted ==
  [][\A q \in Requests :
       envelope[q].stage = "leased" /\ envelope'[q].stage = "numbered" =>
         \A r \in Runners :
           envelope'[q].generation > fence[r].object[envelope[q].object].generation]_vars

(***************************************************************************)
(* An order that arrives at a runner after an order of a newer epoch, or a *)
(* later order for the same object, was let through there never gets to    *)
(* the end of admit, whatever is in service beside it and however often    *)
(* the runner crashed in between (Fence::admit over SqliteFence).          *)
(***************************************************************************)
AdmissionRespectsHistory ==
  \A h \in Handlers : handler[h].outranked => handler[h].pc \notin {"run", "finish"}

(***************************************************************************)
(* A request whose outcome was recorded before it arrived again is not     *)
(* carried out a second time (outcome and finish).                         *)
(***************************************************************************)
FinishedIsNotRepeated ==
  \A h \in Handlers : handler[h].finished => handler[h].pc \notin {"run", "finish"}

(***************************************************************************)
(* A controller that was replaced because its lease ran out is shut out at *)
(* once by every runner whose clock is not behind: an order that passes    *)
(* the first checks belongs to the epoch of the row, or to a controller    *)
(* that gave its lease up itself.                                          *)
(***************************************************************************)
ReplacedControllerIsFenced ==
  [][\A h \in Handlers :
       handler[h].pc = "idle" /\ handler'[h].pc = "object" =>
         LET e == envelope[handler'[h].req] IN
         skew[handler'[h].at] >= 0 /\ e.epoch < lease.epoch =>
           serve[e.holder] = "released"]_vars

(***************************************************************************)
(* MULTI-NODE 5, rule 16, and 11.3: work that starts on a runner is never  *)
(* of an epoch, or of a generation of its object, below what that runner   *)
(* has accepted.                                                           *)
(***************************************************************************)
WorkIsNeverOutranked ==
  [][\A h \in Handlers :
       handler[h].pc = "run" /\ handler'[h].pc = "finish" =>
         LET e == envelope[handler[h].req]
             f == fence[handler[h].at]
         IN /\ e.epoch >= f.epoch
            /\ e.generation >= f.object[e.object].generation]_vars
==============================================================================
