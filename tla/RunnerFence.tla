---------------------------- MODULE RunnerFence ------------------------------
(***************************************************************************)
(* A runner's fence and the handler around it (crates/runner).  The fence  *)
(* is a SQLite file: what it records survives the process.  A handler runs *)
(* on a thread of its own, and each statement takes the connection's lock  *)
(* by itself, so each statement is one action and handlers interleave      *)
(* between them.                                                           *)
(*                                                                         *)
(* Only changes are modelled.  A read passes the same first checks and     *)
(* records nothing, so here it would be no step; a refusal is an answer    *)
(* that changes nothing.  A request may be sent again with its own id at   *)
(* any time, also while an earlier delivery is still running.              *)
(***************************************************************************)
EXTENDS ControllerLease

CONSTANTS Runners,       \* machines, by machine_id
          Handlers,      \* bound: requests a deployment's runners serve at once
          Requests,      \* request ids
          Objects,       \* what an order changes: an instance, an image, a network
          Digests,       \* what an order wants of its object
          NoRequest,
          NoDigest,
          Skews,         \* how far a runner's clock may be from the database's
          MaxSkew        \* Fence::max_skew, in whole seconds

ASSUME FenceAssumption ==
  /\ NoRequest \notin Requests
  /\ NoDigest \notin Digests
  /\ Skews \subseteq Int
  /\ MaxSkew \in Nat

VARIABLES envelope,      \* the orders, by request id
          fence,         \* each runner's SqliteFence
          handler,       \* the requests in service
          skew,          \* each runner's clock minus the database's
          admitted       \* history: the orders each runner's fence has let through

fenceVars == <<fence, handler, skew, admitted>>

Idle == [pc |-> "idle", req |-> NoRequest, at |-> NoRequest,
         outranked |-> FALSE, finished |-> FALSE]

RunnerClock(r) == clock + skew[r]

(* OffsetDateTime - OffsetDateTime, then whole_seconds(), which truncates. *)
WholeSeconds(d) == IF d >= 0 THEN d \div 2 ELSE -((-d) \div 2)

ClockTrusted(r, e) ==
  LET s == WholeSeconds(RunnerClock(r) - e.sentAt) IN -MaxSkew <= s /\ s <= MaxSkew

FenceInit ==
  /\ fence = [r \in Runners |->
       [epoch |-> 0,
        object |-> [o \in Objects |-> [generation |-> 0, digest |-> NoDigest]],
        outcomes |-> {}]]
  /\ handler = [h \in Handlers |-> Idle]
  /\ skew \in [Runners -> Skews]
  /\ admitted = [r \in Runners |-> {}]

Step(h, pc) == handler' = [handler EXCEPT ![h].pc = pc]
Leave(h) == handler' = [handler EXCEPT ![h] = Idle]

(* An order of a newer controller, or a later order for the same object. *)
Outranks(d, e) ==
  \/ d.epoch > e.epoch
  \/ d.object = e.object /\ d.generation > e.generation

(* Mutant of LeaseValid: an expiry that is now still counts. *)
LeaseValidAtExpiry(r, e) == e.expires >= RunnerClock(r)

(* The lease in the envelope, judged by the runner's clock. *)
LeaseValid(r, e) == e.expires > RunnerClock(r)

(***************************************************************************)
(* A request reaches a runner.  `outranked` and `finished` remember        *)
(* whether the runner had by then let through an order that outranks this  *)
(* one, and whether it had answered this very request; no check reads      *)
(* them.                                                                   *)
(***************************************************************************)
Arrive(h, q, r) ==
  LET e == envelope[q] IN
  /\ handler[h] = Idle
  /\ e.stage = "sent"
  /\ e.target = r
  /\ e.epoch >= fence[r].epoch
  /\ ClockTrusted(r, e)
  /\ LeaseValid(r, e)
  /\ handler' = [handler EXCEPT ![h] =
       [pc |-> "object", req |-> q, at |-> r,
        outranked |-> \E p \in admitted[r] : Outranks(envelope[p], e),
        finished |-> q \in fence[r].outcomes]]
  /\ UNCHANGED <<fence, skew, admitted>>

(* object_generation, and the comparisons with it. *)
CheckObject(h) ==
  LET e == envelope[handler[h].req]
      stored == fence[handler[h].at].object[e.object]
  IN
  /\ handler[h].pc = "object"
  /\ IF \/ e.generation < stored.generation
        \/ e.generation = stored.generation /\ e.digest # stored.digest
     THEN Leave(h)
     ELSE Step(h, "outcome")
  /\ UNCHANGED <<fence, skew, admitted>>

(* Mutant of CheckOutcome: the recorded answer is not looked up. *)
ForgetOutcome(h) ==
  /\ handler[h].pc = "outcome"
  /\ Step(h, "epoch")
  /\ UNCHANGED <<fence, skew, admitted>>

(* A request that already finished is answered from memory. *)
CheckOutcome(h) ==
  /\ handler[h].pc = "outcome"
  /\ IF handler[h].req \in fence[handler[h].at].outcomes
     THEN Leave(h)
     ELSE Step(h, "epoch")
  /\ UNCHANGED <<fence, skew, admitted>>

(* accept_epoch: SET accepted_epoch = MAX(accepted_epoch, ?). *)
AcceptEpoch(h) ==
  LET e == envelope[handler[h].req]
      r == handler[h].at
  IN
  /\ handler[h].pc = "epoch"
  /\ fence' = [fence EXCEPT ![r].epoch = IF e.epoch > @ THEN e.epoch ELSE @]
  /\ Step(h, "accept")
  /\ UNCHANGED <<skew, admitted>>

(* Mutant of Supersedes: the upsert has no WHERE. *)
AlwaysSupersedes(e, stored) == TRUE

(* The WHERE of accept_object's upsert. *)
Supersedes(e, stored) == e.generation > stored.generation

(* accept_object, the last statement of admit: the order may act. *)
AcceptObject(h) ==
  LET e == envelope[handler[h].req]
      r == handler[h].at
  IN
  /\ handler[h].pc = "accept"
  /\ fence' = [fence EXCEPT ![r].object[e.object] =
       IF Supersedes(e, @)
       THEN [generation |-> e.generation, digest |-> e.digest]
       ELSE @]
  /\ admitted' = [admitted EXCEPT ![r] = @ \cup {handler[h].req}]
  /\ Step(h, "run")
  /\ UNCHANGED skew

(* The host carries the order out. *)
Work(h) ==
  /\ handler[h].pc = "run"
  /\ Step(h, "finish")
  /\ UNCHANGED <<fence, skew, admitted>>

(***************************************************************************)
(* The host fails, or the client went away and the handler is dropped: the *)
(* order took effect or it did not, and no outcome is recorded.            *)
(***************************************************************************)
WorkFails(h) ==
  /\ handler[h].pc = "run"
  /\ Leave(h)
  /\ UNCHANGED <<fence, skew, admitted>>

(* finish: the outcome is recorded before the answer leaves. *)
Finish(h) ==
  /\ handler[h].pc = "finish"
  /\ fence' = [fence EXCEPT ![handler[h].at].outcomes = @ \cup {handler[h].req}]
  /\ Leave(h)
  /\ UNCHANGED <<skew, admitted>>

(* The runner process or its machine stops: only the file is left. *)
CrashRunner(r) ==
  /\ handler' = [h \in Handlers |-> IF handler[h].at = r THEN Idle ELSE handler[h]]
  /\ UNCHANGED <<fence, skew, admitted>>

FenceRecord ==
  [epoch : Nat,
   object : [Objects -> [generation : Nat, digest : Digests \cup {NoDigest}]],
   outcomes : SUBSET Requests]

HandlerRecord ==
  [pc : {"idle", "object", "outcome", "epoch", "accept", "run", "finish"},
   req : Requests \cup {NoRequest}, at : Runners \cup {NoRequest},
   outranked : BOOLEAN, finished : BOOLEAN]

FenceTypeOK ==
  /\ fence \in [Runners -> FenceRecord]
  /\ handler \in [Handlers -> HandlerRecord]
  /\ skew \in [Runners -> Skews]
  /\ admitted \in [Runners -> SUBSET Requests]
==============================================================================
