--------------------------- MODULE DispatchProofs ----------------------------
(***************************************************************************)
(* What Dispatch promises for any number of controllers, runners, requests *)
(* and objects, any lease time and any clock skews.                        *)
(***************************************************************************)
EXTENDS Dispatch, TLAPS

(***************************************************************************)
(* The lease row: whoever it names has started, its expiry is at most one  *)
(* lease time away, and no channel is ahead of its epoch.                  *)
(***************************************************************************)
RowFacts ==
  /\ lease.holder # NoHolder => serve[lease.holder] # "down"
  /\ lease.expires <= clock + TTL
  /\ \A c \in Controllers : held[c].epoch <= lease.epoch

(***************************************************************************)
(* The lease inside an order: as long as it has not run out, it is the     *)
(* row's, or its holder gave it up.                                        *)
(***************************************************************************)
LeaseInOrder(e) ==
  /\ e.holder \in Controllers
  /\ e.target \in Runners
  /\ e.epoch <= lease.epoch
  /\ e.expires > clock =>
       \/ serve[e.holder] = "released"
       \/ /\ e.epoch = lease.epoch
          /\ e.holder = lease.holder
          /\ e.expires <= lease.expires

OrderFacts ==
  \A q \in Requests : envelope[q].stage # "unused" => LeaseInOrder(envelope[q])

(* A numbered order has a generation of its own, up to the counter's. *)
GenerationFacts ==
  /\ \A q \in Requests : Numbered(q) =>
       /\ envelope[q].generation > 0
       /\ envelope[q].generation <= generation[envelope[q].object]
  /\ GenerationNamesOneOrder

(* What a runner let through is on its fence's record. *)
AdmittedFacts ==
  \A r \in Runners : \A q \in admitted[r] :
    /\ envelope[q].stage = "sent"
    /\ envelope[q].epoch <= fence[r].epoch
    /\ envelope[q].generation <= fence[r].object[envelope[q].object].generation

(***************************************************************************)
(* A handler: past accept_epoch its epoch is on record; an outranked one   *)
(* is about to meet a later generation, a finished one its own outcome.    *)
(***************************************************************************)
HandlerOK(k) ==
  LET e == envelope[k.req]
      f == fence[k.at]
  IN k # Idle =>
       /\ k.pc # "idle"
       /\ k.req \in Requests
       /\ k.at \in Runners
       /\ e.stage = "sent"
       /\ k.pc \in {"accept", "run", "finish"} => e.epoch <= f.epoch
       /\ k.outranked => k.pc = "object" /\ e.generation < f.object[e.object].generation
       /\ k.finished => k.pc \in {"object", "outcome"} /\ k.req \in f.outcomes

HandlerFacts == \A h \in Handlers : HandlerOK(handler[h])

IInv ==
  /\ TypeOK
  /\ OneLiveController
  /\ RowFacts
  /\ OrderFacts
  /\ GenerationFacts
  /\ AdmittedFacts
  /\ HandlerFacts
------------------------------------------------------------------------------
(* The initial state satisfies the inductive invariant. *)
LEMMA InitOK == Init => IInv
<1> SUFFICES ASSUME Init PROVE IInv
  OBVIOUS
<1> USE LeaseAssumption, FenceAssumption, DispatchAssumption
<1>1. LeaseTypeOK /\ OneLiveController /\ RowFacts
  BY DEF Init, LeaseInit, LeaseTypeOK, OneLiveController, RowFacts, NoLease, Live
<1>2. FenceTypeOK
  BY DEF Init, FenceInit, FenceTypeOK, FenceRecord, HandlerRecord, Idle
<1>3. envelope \in [Requests -> EnvelopeType] /\ generation \in [Objects -> Nat]
  BY DEF Init, Unused, EnvelopeType
<1>4. OrderFacts
  BY DEF Init, Unused, OrderFacts
<1>5. GenerationFacts
  BY DEF Init, FenceInit, Unused, GenerationFacts, GenerationNamesOneOrder, Numbered
<1>6. AdmittedFacts /\ HandlerFacts
  BY DEF Init, FenceInit, AdmittedFacts, HandlerFacts, HandlerOK, Idle
<1> QED
  BY <1>1, <1>2, <1>3, <1>4, <1>5, <1>6 DEF IInv, TypeOK, OrdersTyped

(* A handler in service has a request that was sent, and a runner. *)
LEMMA HandlerIsBusy ==
  ASSUME HandlerFacts, NEW h \in Handlers, handler[h].pc # "idle"
  PROVE  /\ handler[h] # Idle
         /\ handler[h].req \in Requests
         /\ handler[h].at \in Runners
         /\ envelope[handler[h].req].stage = "sent"
<1>1. handler[h] # Idle
  BY DEF Idle
<1> QED
  BY <1>1 DEF HandlerFacts, HandlerOK

(***************************************************************************)
(* The steps on the lease, and on the fences, by the name of the component *)
(* they belong to; the rest of the state is unchanged by them.             *)
(***************************************************************************)
LeaseStep ==
  /\ \/ \E c \in Controllers : \/ Acquire(c) \/ Renew(c) \/ Cancel(c)
                               \/ Release(c) \/ Crash(c)
     \/ Tick
  /\ UNCHANGED notLease

FenceStep ==
  /\ \/ \E h \in Handlers, q \in Requests, r \in Runners : Arrive(h, q, r)
     \/ \E h \in Handlers : \/ CheckObject(h) \/ CheckOutcome(h) \/ AcceptEpoch(h)
                            \/ AcceptObject(h) \/ Work(h) \/ WorkFails(h) \/ Finish(h)
     \/ \E r \in Runners : CrashRunner(r)
  /\ UNCHANGED notFence

OrderStep ==
  \/ \E c \in Controllers, q \in Requests, o \in Objects, d \in Digests, r \in Runners :
       BeginHeld(c, q, o, d, r)
  \/ \E f \in Followers, q \in Requests, o \in Objects, d \in Digests, r \in Runners :
       BeginFollowing(f, q, o, d, r)
  \/ \E q \in Requests : Number(q) \/ Send(q)

(* Every step of Next is one of these. *)
LEMMA StepKinds == Next <=> LeaseStep \/ FenceStep \/ OrderStep
  BY Zenon DEF Next, LeaseStep, FenceStep, OrderStep

(* A step on the lease keeps its types. *)
LEMMA LeaseTypeStep == LeaseTypeOK /\ LeaseStep => LeaseTypeOK'
<1> SUFFICES ASSUME LeaseTypeOK, LeaseStep PROVE LeaseTypeOK'
  OBVIOUS
<1> USE LeaseAssumption DEF LeaseTypeOK
<1>1. ASSUME NEW c \in Controllers, Acquire(c) PROVE LeaseTypeOK'
  BY <1>1 DEF Acquire
<1>2. ASSUME NEW c \in Controllers, Renew(c) PROVE LeaseTypeOK'
  <2>1. CASE lease.holder = c /\ TextAfter(lease.expires, clock)
    BY <1>2, <2>1 DEF Renew
  <2>2. CASE ~(lease.holder = c /\ TextAfter(lease.expires, clock))
    BY <1>2, <2>2 DEF Renew
  <2> QED
    BY <2>1, <2>2
<1>3. ASSUME NEW c \in Controllers, Cancel(c) PROVE LeaseTypeOK'
  BY <1>3 DEF Cancel
<1>4. ASSUME NEW c \in Controllers, Release(c) PROVE LeaseTypeOK'
  BY <1>4 DEF Release, NoLease
<1>5. ASSUME NEW c \in Controllers, Crash(c) PROVE LeaseTypeOK'
  BY <1>5 DEF Crash, NoLease
<1>6. CASE Tick
  BY <1>6 DEF Tick
<1> QED
  BY <1>1, <1>2, <1>3, <1>4, <1>5, <1>6 DEF LeaseStep

(* A handler that leaves, or goes on to another statement, keeps its type. *)
LEMMA HandlerTypes ==
  ASSUME FenceTypeOK, NEW h \in Handlers,
         NEW pc \in {"outcome", "epoch", "accept", "run", "finish"},
         Leave(h) \/ Step(h, pc), UNCHANGED <<fence, skew, admitted>>
  PROVE  FenceTypeOK'
<1>1. CASE Leave(h)
  BY <1>1, FenceAssumption DEF FenceTypeOK, HandlerRecord, Leave, Idle
<1>2. CASE Step(h, pc)
  BY <1>2 DEF FenceTypeOK, HandlerRecord, Step
<1> QED
  BY <1>1, <1>2

(* A step at a runner keeps the types of its fence and handlers. *)
LEMMA FenceTypeStep == FenceTypeOK /\ OrdersTyped /\ HandlerFacts /\ FenceStep => FenceTypeOK'
<1> SUFFICES ASSUME FenceTypeOK, OrdersTyped, HandlerFacts, FenceStep PROVE FenceTypeOK'
  OBVIOUS
<1>1. ASSUME NEW h \in Handlers, NEW q \in Requests, NEW r \in Runners, Arrive(h, q, r)
      PROVE  FenceTypeOK'
  BY <1>1, SMTT(60) DEF Arrive, FenceTypeOK, HandlerRecord
<1>2. ASSUME NEW h \in Handlers, CheckObject(h) PROVE FenceTypeOK'
  BY <1>2, HandlerTypes, Zenon DEF CheckObject
<1>3. ASSUME NEW h \in Handlers, CheckOutcome(h) PROVE FenceTypeOK'
  BY <1>3, HandlerTypes DEF CheckOutcome
<1>4. ASSUME NEW h \in Handlers, Work(h) \/ WorkFails(h) PROVE FenceTypeOK'
  BY <1>4, HandlerTypes DEF Work, WorkFails
<1>5. ASSUME NEW h \in Handlers, AcceptEpoch(h) PROVE FenceTypeOK'
  <2> DEFINE r == handler[h].at
             epoch == IF envelope[handler[h].req].epoch > fence[r].epoch
                      THEN envelope[handler[h].req].epoch ELSE fence[r].epoch
  <2>1. handler[h].req \in Requests /\ r \in Runners
    BY <1>5, HandlerIsBusy DEF AcceptEpoch
  <2>2. epoch \in Nat
    BY <2>1 DEF OrdersTyped, EnvelopeType, FenceTypeOK, FenceRecord
  <2>3. fence' = [fence EXCEPT ![r].epoch = epoch]
    BY <1>5, <2>1, SMTT(60) DEF AcceptEpoch, FenceTypeOK
  <2>4. fence' \in [Runners -> FenceRecord]
    <3> HIDE DEF epoch
    <3> QED
      BY <2>1, <2>2, <2>3, ZenonT(60) DEF FenceTypeOK, FenceRecord
  <2> QED
    BY <1>5, <2>4 DEF AcceptEpoch, Step, FenceTypeOK, HandlerRecord
<1>6. ASSUME NEW h \in Handlers, AcceptObject(h) PROVE FenceTypeOK'
  <2> DEFINE e == envelope[handler[h].req]
             r == handler[h].at
             stored == fence[r].object[e.object]
             new == IF Supersedes(e, stored)
                    THEN [generation |-> e.generation, digest |-> e.digest] ELSE stored
  <2>1. handler[h].req \in Requests /\ r \in Runners
    BY <1>6, HandlerIsBusy, ZenonT(60) DEF AcceptObject
  <2>2. e.object \in Objects /\ e.generation \in Nat /\ e.digest \in Digests \cup {NoDigest}
    BY <2>1, SMTT(60) DEF OrdersTyped, EnvelopeType
  <2>3. new \in [generation : Nat, digest : Digests \cup {NoDigest}]
    BY <2>1, <2>2, SMTT(60) DEF FenceTypeOK, FenceRecord
  <2>4. fence' = [fence EXCEPT ![r].object[e.object] = new]
    BY <1>6, <2>1, <2>2, SMTT(60) DEF AcceptObject, FenceTypeOK, FenceRecord
  <2>5. handler' \in [Handlers -> HandlerRecord]
    BY <1>6, SMTT(60) DEF AcceptObject, Step, FenceTypeOK, HandlerRecord
  <2>6. admitted' \in [Runners -> SUBSET Requests]
    BY <1>6, <2>1 DEF AcceptObject, FenceTypeOK
  <2>7. fence' \in [Runners -> FenceRecord]
    <3> HIDE DEF new
    <3> QED
      BY <2>1, <2>2, <2>3, <2>4, Zenon DEF FenceTypeOK, FenceRecord
  <2> QED
    BY <1>6, <2>5, <2>6, <2>7, ZenonT(60) DEF AcceptObject, FenceTypeOK
<1>7. ASSUME NEW h \in Handlers, Finish(h) PROVE FenceTypeOK'
  <2>1. handler[h].req \in Requests /\ handler[h].at \in Runners
    BY <1>7, HandlerIsBusy DEF Finish
  <2>2. fence' \in [Runners -> FenceRecord]
    BY <1>7, <2>1, ZenonT(60) DEF Finish, FenceTypeOK, FenceRecord
  <2>3. handler' \in [Handlers -> HandlerRecord]
    BY <1>7, FenceAssumption DEF Finish, Leave, Idle, FenceTypeOK, HandlerRecord
  <2> QED
    BY <1>7, <2>2, <2>3 DEF Finish, FenceTypeOK
<1>8. ASSUME NEW r \in Runners, CrashRunner(r) PROVE FenceTypeOK'
  BY <1>8, FenceAssumption DEF CrashRunner, Idle, FenceTypeOK, HandlerRecord
<1> QED
  BY <1>1, <1>2, <1>3, <1>4, <1>5, <1>6, <1>7, <1>8 DEF FenceStep

(* A step on an order keeps the types of orders and counters. *)
LEMMA OrderTypeStep == TypeOK /\ OrderStep => OrdersTyped'
<1> SUFFICES ASSUME TypeOK, OrderStep PROVE OrdersTyped'
  OBVIOUS
<1>1. ASSUME NEW c \in Controllers, NEW q \in Requests, NEW o \in Objects, NEW d \in Digests,
             NEW r \in Runners, BeginHeld(c, q, o, d, r)
      PROVE  OrdersTyped'
  BY <1>1 DEF BeginHeld, TypeOK, LeaseTypeOK, OrdersTyped, EnvelopeType
<1>2. ASSUME NEW f \in Followers, NEW q \in Requests, NEW o \in Objects, NEW d \in Digests,
             NEW r \in Runners, BeginFollowing(f, q, o, d, r)
      PROVE  OrdersTyped'
  BY <1>2 DEF BeginFollowing, TypeOK, LeaseTypeOK, OrdersTyped, EnvelopeType
<1>3. ASSUME NEW q \in Requests, Number(q) PROVE OrdersTyped'
  <2> DEFINE g == NextGeneration(envelope[q].object, envelope[q].epoch)
  <2>1. envelope[q].object \in Objects /\ g \in Nat
    BY DispatchAssumption DEF NextGeneration, TypeOK, OrdersTyped, EnvelopeType
  <2>2. [envelope[q] EXCEPT !.stage = "numbered", !.generation = g] \in EnvelopeType
    BY <2>1, ZenonT(60) DEF EnvelopeType, TypeOK, OrdersTyped
  <2> HIDE DEF g
  <2> QED
    BY <1>3, <2>1, <2>2 DEF Number, TypeOK, OrdersTyped, g
<1>4. ASSUME NEW q \in Requests, Send(q) PROVE OrdersTyped'
  <2>1. [envelope[q] EXCEPT !.stage = "sent", !.sender = NoHolder, !.sentAt = clock]
          \in EnvelopeType
    <3>1. envelope[q] \in EnvelopeType /\ clock \in Nat
      BY DEF TypeOK, LeaseTypeOK, OrdersTyped
    <3>2. ASSUME NEW e \in EnvelopeType, NEW t \in Nat
          PROVE  [e EXCEPT !.stage = "sent", !.sender = NoHolder, !.sentAt = t] \in EnvelopeType
      BY ZenonT(60) DEF EnvelopeType
    <3> QED
      BY <3>1, <3>2, Zenon
  <2> QED
    BY <1>4, <2>1 DEF Send, TypeOK, OrdersTyped
<1> QED
  BY <1>1, <1>2, <1>3, <1>4 DEF OrderStep

(* Every step keeps the types. *)
LEMMA TypeStep == TypeOK /\ HandlerFacts /\ [Next]_vars => TypeOK'
<1> SUFFICES ASSUME TypeOK, HandlerFacts, [Next]_vars PROVE TypeOK'
  OBVIOUS
<1>1. CASE LeaseStep
  <2>1. FenceTypeOK' /\ OrdersTyped'
    BY <1>1 DEF LeaseStep, notLease, TypeOK, FenceTypeOK, OrdersTyped
  <2> QED
    BY <1>1, <2>1, LeaseTypeStep DEF TypeOK
<1>2. CASE FenceStep
  <2>1. LeaseTypeOK' /\ OrdersTyped'
    BY <1>2, SMTT(60) DEF FenceStep, notFence, TypeOK, LeaseTypeOK, OrdersTyped
  <2> QED
    BY <1>2, <2>1, FenceTypeStep DEF TypeOK
<1>3. CASE OrderStep
  <2>1. LeaseTypeOK' /\ FenceTypeOK'
    BY <1>3, Zenon DEF OrderStep, BeginHeld, BeginFollowing, Number, Send, leaseVars, fenceVars,
                TypeOK, LeaseTypeOK, FenceTypeOK
  <2> QED
    BY <1>3, <2>1, OrderTypeStep, SMTT(60) DEF TypeOK
<1>4. CASE UNCHANGED vars
  BY <1>4 DEF vars, TypeOK, LeaseTypeOK, FenceTypeOK, OrdersTyped
<1> QED
  BY <1>1, <1>2, <1>3, <1>4, StepKinds

(***************************************************************************)
(* Only a lapsed or released lease changes hands, so what a channel, or an *)
(* order, says of an unexpired lease stays true through every step on it.  *)
(***************************************************************************)
LEMMA LeaseFactsStep ==
  LeaseTypeOK /\ OneLiveController /\ RowFacts /\ LeaseStep => OneLiveController' /\ RowFacts'
<1> SUFFICES ASSUME LeaseTypeOK, OneLiveController, RowFacts, LeaseStep
             PROVE  OneLiveController' /\ RowFacts'
  OBVIOUS
<1> USE LeaseAssumption DEF LeaseTypeOK, RowFacts
<1>1. ASSUME NEW c \in Controllers, Acquire(c) PROVE OneLiveController' /\ RowFacts'
  <2>1. \A b \in Controllers \ {c} : Live(b) => held[b].expires <= clock
    BY <1>1 DEF Acquire, HeldByAnother, OneLiveController
  <2>2. OneLiveController'
    BY <1>1, <2>1 DEF Acquire, OneLiveController, Live
  <2>3. RowFacts'
    BY <1>1 DEF Acquire
  <2> QED
    BY <2>2, <2>3
<1>2. ASSUME NEW c \in Controllers, Renew(c) PROVE OneLiveController' /\ RowFacts'
  <2>1. CASE lease.holder = c /\ TextAfter(lease.expires, clock)
    BY <1>2, <2>1 DEF Renew, OneLiveController, Live
  <2>2. CASE ~(lease.holder = c /\ TextAfter(lease.expires, clock))
    BY <1>2, <2>2 DEF Renew, OneLiveController, Live
  <2> QED
    BY <2>1, <2>2
<1>3. ASSUME NEW c \in Controllers, Cancel(c) PROVE OneLiveController' /\ RowFacts'
  BY <1>3 DEF Cancel, OneLiveController, Live
<1>4. ASSUME NEW c \in Controllers, Release(c) PROVE OneLiveController' /\ RowFacts'
  BY <1>4, SMTT(60) DEF Release, OneLiveController, Live, NoLease
<1>5. ASSUME NEW c \in Controllers, Crash(c) PROVE OneLiveController' /\ RowFacts'
  BY <1>5 DEF Crash, OneLiveController, Live, NoLease
<1>6. CASE Tick
  BY <1>6 DEF Tick, OneLiveController, Live
<1> QED
  BY <1>1, <1>2, <1>3, <1>4, <1>5, <1>6 DEF LeaseStep

(* The same for one order. *)
LEMMA LeaseInOrderStep ==
  ASSUME LeaseTypeOK, RowFacts, LeaseStep, NEW e \in EnvelopeType, LeaseInOrder(e)
  PROVE  LeaseInOrder(e)'
<1> USE LeaseAssumption DEF LeaseTypeOK, RowFacts, LeaseInOrder, EnvelopeType
<1>1. ASSUME NEW c \in Controllers, Acquire(c) PROVE LeaseInOrder(e)'
  BY <1>1 DEF Acquire, HeldByAnother
<1>2. ASSUME NEW c \in Controllers, Renew(c) PROVE LeaseInOrder(e)'
  <2>1. CASE lease.holder = c /\ TextAfter(lease.expires, clock)
    BY <1>2, <2>1 DEF Renew
  <2>2. CASE ~(lease.holder = c /\ TextAfter(lease.expires, clock))
    BY <1>2, <2>2 DEF Renew
  <2> QED
    BY <2>1, <2>2
<1>3. ASSUME NEW c \in Controllers, Cancel(c) PROVE LeaseInOrder(e)'
  BY <1>3 DEF Cancel
<1>4. ASSUME NEW c \in Controllers, Release(c) PROVE LeaseInOrder(e)'
  BY <1>4 DEF Release
<1>5. ASSUME NEW c \in Controllers, Crash(c) PROVE LeaseInOrder(e)'
  BY <1>5 DEF Crash, Live
<1>6. CASE Tick
  BY <1>6 DEF Tick
<1> QED
  BY <1>1, <1>2, <1>3, <1>4, <1>5, <1>6 DEF LeaseStep

(* What Number does to the orders and the counters. *)
LEMMA AfterNumber ==
  ASSUME OrdersTyped, NEW q \in Requests, Number(q)
  PROVE  /\ envelope[q].stage = "leased"
         /\ envelope'[q].stage = "numbered"
         /\ envelope'[q].generation > 0
         /\ envelope'[q].generation > generation[envelope[q].object]
         /\ generation' = [generation EXCEPT ![envelope[q].object] = envelope'[q].generation]
         /\ \A p \in Requests :
              /\ p # q => envelope'[p] = envelope[p]
              /\ envelope'[p].object = envelope[p].object
              /\ envelope'[p].holder = envelope[p].holder
              /\ envelope'[p].target = envelope[p].target
              /\ envelope'[p].epoch = envelope[p].epoch
              /\ envelope'[p].expires = envelope[p].expires
<1> DEFINE g == NextGeneration(envelope[q].object, envelope[q].epoch)
<1>1. envelope[q] \in EnvelopeType /\ envelope[q].object \in Objects
  BY DEF OrdersTyped, EnvelopeType
<1>2. g \in Nat /\ g > 0 /\ g > generation[envelope[q].object]
  <2>1. envelope[q].epoch * EpochStride \in Nat
    BY <1>1, DispatchAssumption DEF EnvelopeType
  <2> QED
    BY <1>1, <2>1 DEF NextGeneration, OrdersTyped
<1> HIDE DEF g
<1>3. envelope' = [envelope EXCEPT ![q] = [@ EXCEPT !.stage = "numbered", !.generation = g]]
  BY DEF Number, g
<1>4. envelope'[q] = [envelope[q] EXCEPT !.stage = "numbered", !.generation = g]
  BY <1>3 DEF OrdersTyped
<1>5. envelope'[q].generation = g
  BY <1>1, <1>4 DEF EnvelopeType
<1> QED
  BY <1>1, <1>2, <1>3, <1>4, <1>5 DEF Number, OrdersTyped, EnvelopeType, g

(* What Send does to the orders. *)
LEMMA AfterSend ==
  ASSUME OrdersTyped, NEW q \in Requests, Send(q)
  PROVE  /\ envelope[q].stage = "numbered"
         /\ envelope'[q].stage = "sent"
         /\ \A p \in Requests :
              /\ p # q => envelope'[p] = envelope[p]
              /\ envelope'[p].object = envelope[p].object
              /\ envelope'[p].digest = envelope[p].digest
              /\ envelope'[p].generation = envelope[p].generation
              /\ envelope'[p].holder = envelope[p].holder
              /\ envelope'[p].target = envelope[p].target
              /\ envelope'[p].epoch = envelope[p].epoch
              /\ envelope'[p].expires = envelope[p].expires
<1>1. envelope[q] \in EnvelopeType
  BY DEF OrdersTyped
<1>2. envelope' = [envelope EXCEPT ![q] =
        [@ EXCEPT !.stage = "sent", !.sender = NoHolder, !.sentAt = clock]]
  BY DEF Send
<1>3. envelope'[q] = [envelope[q] EXCEPT !.stage = "sent", !.sender = NoHolder, !.sentAt = clock]
  BY <1>2 DEF OrdersTyped
<1> QED
  BY <1>1, <1>2, <1>3 DEF Send, OrdersTyped, EnvelopeType

(* What a new order leaves alone. *)
LEMMA AfterBegin ==
  ASSUME OrdersTyped, NEW q \in Requests, NEW o \in Objects, NEW d \in Digests, NEW r \in Runners,
         \/ \E c \in Controllers : BeginHeld(c, q, o, d, r)
         \/ \E f \in Followers : BeginFollowing(f, q, o, d, r)
  PROVE  /\ envelope[q].stage = "unused"
         /\ envelope'[q].stage = "leased"
         /\ \A p \in Requests : p # q => envelope'[p] = envelope[p]
         /\ generation' = generation
  BY DEF BeginHeld, BeginFollowing, OrdersTyped

(* Every step keeps what orders say of their leases. *)
LEMMA OrderFactsStep ==
  TypeOK /\ OneLiveController /\ RowFacts /\ OrderFacts /\ [Next]_vars => OrderFacts'
<1> SUFFICES ASSUME TypeOK, OneLiveController, RowFacts, OrderFacts, [Next]_vars
             PROVE  OrderFacts'
  OBVIOUS
<1>1. CASE LeaseStep
  <2>1. envelope' = envelope
    BY <1>1 DEF LeaseStep, notLease
  <2> SUFFICES ASSUME NEW q \in Requests, envelope[q].stage # "unused"
               PROVE  LeaseInOrder(envelope[q])'
    BY <2>1 DEF OrderFacts
  <2>2. envelope[q] \in EnvelopeType /\ LeaseInOrder(envelope[q])
    BY DEF TypeOK, OrdersTyped, OrderFacts
  <2>3. ASSUME NEW e, e = envelope[q] PROVE LeaseInOrder(e)'
    BY <1>1, <2>2, <2>3, LeaseInOrderStep, SMTT(60) DEF TypeOK
  <2> QED
    BY <2>1, <2>3 DEF LeaseInOrder
<1>2. CASE FenceStep
  BY <1>2 DEF FenceStep, notFence, OrderFacts, LeaseInOrder
<1>3. ASSUME NEW c \in Controllers, NEW q \in Requests, NEW o \in Objects, NEW d \in Digests,
             NEW r \in Runners, BeginHeld(c, q, o, d, r)
      PROVE  OrderFacts'
  BY <1>3, SMTT(60) DEF BeginHeld, leaseVars, OrderFacts, LeaseInOrder, TypeOK, OrdersTyped,
              LeaseTypeOK, RowFacts, OneLiveController
<1>4. ASSUME NEW f \in Followers, NEW q \in Requests, NEW o \in Objects, NEW d \in Digests,
             NEW r \in Runners, BeginFollowing(f, q, o, d, r)
      PROVE  OrderFacts'
  BY <1>4 DEF BeginFollowing, leaseVars, OrderFacts, LeaseInOrder, TypeOK, OrdersTyped,
              LeaseTypeOK, RowFacts
<1>5. ASSUME NEW q \in Requests, Number(q) \/ Send(q) PROVE OrderFacts'
  <2>1. \A p \in Requests :
          /\ envelope'[p].stage # "unused" => envelope[p].stage # "unused"
          /\ envelope'[p].holder = envelope[p].holder
          /\ envelope'[p].target = envelope[p].target
          /\ envelope'[p].epoch = envelope[p].epoch
          /\ envelope'[p].expires = envelope[p].expires
    BY <1>5, AfterNumber, AfterSend, SMTT(60) DEF TypeOK
  <2> QED
    BY <1>5, <2>1 DEF Number, Send, leaseVars, OrderFacts, LeaseInOrder
<1>6. CASE UNCHANGED vars
  BY <1>6, SMTT(60) DEF vars, OrderFacts, LeaseInOrder
<1> QED
  BY <1>1, <1>2, <1>3, <1>4, <1>5, <1>6, StepKinds DEF OrderStep

(* An order that was sent is never changed again. *)
LEMMA SentOrdersStay ==
  ASSUME TypeOK, Next, NEW q \in Requests, envelope[q].stage = "sent"
  PROVE  envelope'[q] = envelope[q]
<1>1. CASE LeaseStep \/ FenceStep
  BY <1>1, SMTT(60) DEF LeaseStep, FenceStep, notLease, notFence
<1>2. CASE OrderStep
  <2>1. ASSUME NEW p \in Requests, Number(p) PROVE envelope'[q] = envelope[q]
    BY <2>1, AfterNumber DEF TypeOK
  <2>2. ASSUME NEW p \in Requests, Send(p) PROVE envelope'[q] = envelope[q]
    BY <2>2, AfterSend DEF TypeOK
  <2>3. ASSUME NEW p \in Requests, NEW o \in Objects, NEW d \in Digests, NEW r \in Runners,
               \/ \E c \in Controllers : BeginHeld(c, p, o, d, r)
               \/ \E f \in Followers : BeginFollowing(f, p, o, d, r)
        PROVE  envelope'[q] = envelope[q]
    BY <2>3, AfterBegin DEF TypeOK
  <2> QED
    BY <1>2, <2>1, <2>2, <2>3 DEF OrderStep
<1> QED
  BY <1>1, <1>2, StepKinds

(***************************************************************************)
(* What a step at a runner does to the fences: only accept_epoch raises    *)
(* the epoch, only finish adds an outcome, and only accept_object changes  *)
(* a generation, to a higher one, that of the handler's own order.         *)
(***************************************************************************)
LEMMA FenceMoves ==
  ASSUME TypeOK, HandlerFacts, FenceStep
  PROVE  \A r \in Runners :
           /\ fence[r].epoch <= fence'[r].epoch
           /\ fence[r].outcomes \subseteq fence'[r].outcomes
           /\ \A o \in Objects :
                \/ fence'[r].object[o] = fence[r].object[o]
                \/ /\ fence'[r].object[o].generation > fence[r].object[o].generation
                   /\ \E q \in Requests :
                        /\ envelope[q].stage = "sent"
                        /\ envelope[q].object = o
                        /\ envelope[q].generation = fence'[r].object[o].generation
                        /\ envelope[q].digest = fence'[r].object[o].digest
<1> DEFINE Moves(r) ==
      /\ fence[r].epoch <= fence'[r].epoch
      /\ fence[r].outcomes \subseteq fence'[r].outcomes
      /\ \A o \in Objects :
           \/ fence'[r].object[o] = fence[r].object[o]
           \/ /\ fence'[r].object[o].generation > fence[r].object[o].generation
              /\ \E q \in Requests :
                   /\ envelope[q].stage = "sent"
                   /\ envelope[q].object = o
                   /\ envelope[q].generation = fence'[r].object[o].generation
                   /\ envelope[q].digest = fence'[r].object[o].digest
<1> SUFFICES ASSUME NEW r \in Runners PROVE Moves(r)
  BY SMTT(60)
<1>1. fence \in [Runners -> FenceRecord] /\ fence[r].epoch \in Nat
  BY DEF TypeOK, FenceTypeOK, FenceRecord
<1>2. CASE fence' = fence
  BY <1>1, <1>2
<1>3. ASSUME NEW h \in Handlers, AcceptEpoch(h) PROVE Moves(r)
  <2>1. handler[h].req \in Requests /\ handler[h].at \in Runners
    BY <1>3, HandlerIsBusy, SMTT(60) DEF AcceptEpoch
  <2>2. envelope[handler[h].req].epoch \in Nat
    BY <2>1 DEF TypeOK, OrdersTyped, EnvelopeType
  <2> QED
    BY <1>1, <1>3, <2>1, <2>2, SMTT(60) DEF AcceptEpoch, FenceRecord
<1>4. ASSUME NEW h \in Handlers, AcceptObject(h) PROVE Moves(r)
  <2> DEFINE e == envelope[handler[h].req]
             at == handler[h].at
  <2>1. handler[h].req \in Requests /\ at \in Runners /\ e.stage = "sent"
    BY <1>4, HandlerIsBusy, ZenonT(60) DEF AcceptObject
  <2>2. e.object \in Objects /\ e.generation \in Nat
    BY <2>1, SMTT(60) DEF TypeOK, OrdersTyped, EnvelopeType
  <2>3. fence' = [fence EXCEPT ![at].object[e.object] =
          IF e.generation > fence[at].object[e.object].generation
          THEN [generation |-> e.generation, digest |-> e.digest]
          ELSE fence[at].object[e.object]]
    BY <1>1, <1>4, <2>1, <2>2, ZenonT(60) DEF AcceptObject, Supersedes, FenceRecord
  <2>4. /\ fence'[r].epoch = fence[r].epoch
        /\ fence'[r].outcomes = fence[r].outcomes
        /\ r # at => fence'[r].object = fence[r].object
        /\ \A o \in Objects : o # e.object => fence'[r].object[o] = fence[r].object[o]
    BY <1>1, <2>1, <2>2, <2>3, ZenonT(60) DEF FenceRecord
  <2>5. fence'[at].object[e.object] =
          IF e.generation > fence[at].object[e.object].generation
          THEN [generation |-> e.generation, digest |-> e.digest]
          ELSE fence[at].object[e.object]
    BY <1>1, <2>1, <2>2, <2>3, ZenonT(60) DEF FenceRecord
  <2> HIDE DEF e, at
  <2>6. e.generation > fence[at].object[e.object].generation =>
          /\ fence'[at].object[e.object].generation = e.generation
          /\ fence'[at].object[e.object].digest = e.digest
    BY <2>5, SMTT(60)
  <2>7. ~(e.generation > fence[at].object[e.object].generation) =>
          fence'[at].object[e.object] = fence[at].object[e.object]
    BY <2>5, SMTT(60)
  <2>8. ASSUME NEW o \in Objects
        PROVE  \/ fence'[r].object[o] = fence[r].object[o]
               \/ /\ fence'[r].object[o].generation > fence[r].object[o].generation
                  /\ \E q \in Requests :
                       /\ envelope[q].stage = "sent"
                       /\ envelope[q].object = o
                       /\ envelope[q].generation = fence'[r].object[o].generation
                       /\ envelope[q].digest = fence'[r].object[o].digest
    BY <2>1, <2>4, <2>6, <2>7, ZenonT(60) DEF e
  <2> QED
    BY <1>1, <2>4, <2>8, SMTT(60)
<1>5. ASSUME NEW h \in Handlers, Finish(h) PROVE Moves(r)
  <2>1. handler[h].at \in Runners
    BY <1>5, HandlerIsBusy, SMTT(60) DEF Finish
  <2> QED
    BY <1>1, <1>5, <2>1, SMTT(60) DEF Finish, FenceRecord
<1>6. \/ fence' = fence
      \/ \E h \in Handlers : AcceptEpoch(h) \/ AcceptObject(h) \/ Finish(h)
  BY ZenonT(60) DEF FenceStep, Arrive, CheckObject, CheckOutcome, Work, WorkFails, CrashRunner
<1> HIDE DEF Moves
<1> QED
  BY <1>2, <1>3, <1>4, <1>5, <1>6

(* Every step leaves each generation with one order. *)
LEMMA GenerationFactsStep ==
  TypeOK /\ HandlerFacts /\ GenerationFacts /\ [Next]_vars => GenerationFacts'
<1> SUFFICES ASSUME TypeOK, HandlerFacts, GenerationFacts, [Next]_vars PROVE GenerationFacts'
  BY SMTT(60)
<1> USE DEF GenerationFacts, GenerationNamesOneOrder, Numbered
<1>1. CASE LeaseStep
  BY <1>1 DEF LeaseStep, notLease
<1>2. CASE FenceStep
  <2>1. envelope' = envelope /\ generation' = generation
    BY <1>2, SMTT(60) DEF FenceStep, notFence
  <2>2. ASSUME NEW r \in Runners, NEW o \in Objects, fence'[r].object[o].generation > 0
        PROVE  \E q \in Requests :
                 /\ envelope[q].stage = "sent"
                 /\ envelope[q].object = o
                 /\ envelope[q].generation = fence'[r].object[o].generation
                 /\ envelope[q].digest = fence'[r].object[o].digest
    BY <1>2, <2>2, FenceMoves
  <2> QED
    BY <2>1, <2>2, SMTT(60)
<1>3. ASSUME NEW q \in Requests, NEW o \in Objects, NEW d \in Digests, NEW r \in Runners,
             \/ \E c \in Controllers : BeginHeld(c, q, o, d, r)
             \/ \E f \in Followers : BeginFollowing(f, q, o, d, r)
      PROVE  GenerationFacts'
  <2>1. /\ envelope[q].stage = "unused" /\ envelope'[q].stage = "leased"
        /\ \A p \in Requests : p # q => envelope'[p] = envelope[p]
        /\ generation' = generation
    BY <1>3, AfterBegin, ZenonT(60) DEF TypeOK
  <2>2. fence' = fence
    BY <1>3, SMTT(60) DEF BeginHeld, BeginFollowing, fenceVars
  <2> QED
    BY <2>1, <2>2, SMTT(60)
<1>4. ASSUME NEW q \in Requests, Number(q) PROVE GenerationFacts'
  <2>1. fence' = fence
    BY <1>4, SMTT(60) DEF Number, fenceVars
  <2>2. /\ envelope[q].stage = "leased" /\ envelope'[q].stage = "numbered"
        /\ envelope'[q].generation > 0
        /\ envelope'[q].generation > generation[envelope[q].object]
        /\ generation' = [generation EXCEPT ![envelope[q].object] = envelope'[q].generation]
        /\ \A p \in Requests : /\ p # q => envelope'[p] = envelope[p]
                               /\ envelope'[p].object = envelope[p].object
    BY <1>4, AfterNumber, SMTT(60) DEF TypeOK
  <2>3. \A p \in Requests : /\ envelope[p].object \in Objects
                            /\ envelope[p].generation \in Nat
                            /\ envelope'[p].generation \in Nat
    BY <1>4, OrderTypeStep, SMTT(60) DEF TypeOK, OrdersTyped, EnvelopeType, OrderStep
  <2>4. generation \in [Objects -> Nat]
    BY DEF TypeOK, OrdersTyped
  <2>5. \A p \in Requests : Numbered(p)' =>
          /\ envelope'[p].generation > 0
          /\ envelope'[p].generation <= generation'[envelope'[p].object]
    BY <2>2, <2>3, <2>4, SMTT(60)
  <2>6. \A p \in Requests \ {q} :
          Numbered(p) /\ envelope[p].object = envelope[q].object =>
            envelope[p].generation # envelope'[q].generation
    BY <2>2, <2>3, <2>4
  <2>7. \A p, t \in Requests :
          /\ Numbered(p)' /\ Numbered(t)'
          /\ envelope'[p].object = envelope'[t].object
          /\ envelope'[p].generation = envelope'[t].generation
          => p = t
    BY <2>2, <2>6, SMTT(60)
  <2>8. \A r \in Runners, o \in Objects :
          fence'[r].object[o].generation > 0 =>
            \E p \in Requests :
              /\ envelope'[p].stage = "sent"
              /\ envelope'[p].object = o
              /\ envelope'[p].generation = fence'[r].object[o].generation
              /\ envelope'[p].digest = fence'[r].object[o].digest
    BY <2>1, <2>2
  <2> QED
    BY <2>5, <2>7, <2>8, SMTT(60)
<1>5. ASSUME NEW q \in Requests, Send(q) PROVE GenerationFacts'
  <2>1. /\ fence' = fence /\ generation' = generation
    BY <1>5, SMTT(60) DEF Send, fenceVars
  <2>2. /\ envelope[q].stage = "numbered" /\ envelope'[q].stage = "sent"
        /\ \A p \in Requests :
             /\ p # q => envelope'[p] = envelope[p]
             /\ envelope'[p].object = envelope[p].object
             /\ envelope'[p].digest = envelope[p].digest
             /\ envelope'[p].generation = envelope[p].generation
    BY <1>5, AfterSend DEF TypeOK
  <2>3. \A p \in Requests : Numbered(p)' <=> Numbered(p)
    BY <2>2, SMTT(60)
  <2> QED
    BY <2>1, <2>2, <2>3, SMTT(60)
<1>6. CASE UNCHANGED vars
  BY <1>6 DEF vars
<1> QED
  BY <1>1, <1>2, <1>3, <1>4, <1>5, <1>6, StepKinds, ZenonT(60) DEF OrderStep

(* An order of a deployment keeps clear of what the fences have recorded. *)
LEMMA FenceBelowCounter ==
  ASSUME TypeOK, GenerationFacts, NEW r \in Runners, NEW o \in Objects
  PROVE  fence[r].object[o].generation <= generation[o]
<1>1. fence[r].object[o].generation \in Nat /\ generation[o] \in Nat
  BY SMTT(60) DEF TypeOK, FenceTypeOK, FenceRecord, OrdersTyped
<1> QED
  BY <1>1, SMTT(60) DEF GenerationFacts, GenerationNamesOneOrder, Numbered

(* Every step keeps what was let through on the fences' records. *)
LEMMA AdmittedFactsStep ==
  TypeOK /\ HandlerFacts /\ AdmittedFacts /\ [Next]_vars => AdmittedFacts'
<1> SUFFICES ASSUME TypeOK, HandlerFacts, AdmittedFacts, [Next]_vars,
                    NEW r \in Runners, NEW q \in admitted'[r]
             PROVE  /\ envelope'[q].stage = "sent"
                    /\ envelope'[q].epoch <= fence'[r].epoch
                    /\ envelope'[q].generation <=
                         fence'[r].object[envelope'[q].object].generation
  BY SMTT(60) DEF AdmittedFacts
<1>1. \A p \in admitted[r] : p \in Requests
  BY SMTT(60) DEF TypeOK, FenceTypeOK
<1>2. CASE LeaseStep \/ OrderStep \/ UNCHANGED vars
  <2>1. fence' = fence /\ admitted' = admitted
    BY <1>2, Zenon DEF LeaseStep, OrderStep, BeginHeld, BeginFollowing, Number, Send, notLease,
                fenceVars, vars
  <2>2. envelope'[q] = envelope[q]
    BY <1>1, <1>2, <2>1, SentOrdersStay, StepKinds DEF AdmittedFacts, vars
  <2> QED
    BY <2>1, <2>2, SMTT(60) DEF AdmittedFacts
<1>3. CASE FenceStep
  <2>1. envelope' = envelope
    BY <1>3, SMTT(60) DEF FenceStep, notFence
  <2>2. CASE q \in admitted[r]
    <3>1. q \in Requests
      BY <1>1, <2>2
    <3>2. envelope[q].object \in Objects /\ envelope[q].epoch \in Nat
            /\ envelope[q].generation \in Nat
      BY <3>1, SMTT(60) DEF TypeOK, OrdersTyped, EnvelopeType
    <3>3. fence[r].epoch \in Nat /\ fence[r].object[envelope[q].object].generation \in Nat
      BY <3>2 DEF TypeOK, FenceTypeOK, FenceRecord
    <3>4. FenceTypeOK'
      BY <1>3, FenceTypeStep, SMTT(60) DEF TypeOK
    <3>5. fence'[r].epoch \in Nat /\ fence'[r].object[envelope[q].object].generation \in Nat
      BY <3>2, <3>4, SMTT(60) DEF FenceTypeOK, FenceRecord
    <3>6. /\ fence[r].epoch <= fence'[r].epoch
          /\ fence[r].object[envelope[q].object].generation <=
               fence'[r].object[envelope[q].object].generation
      BY <1>3, <3>2, <3>3, <3>5, FenceMoves
    <3> QED
      BY <2>1, <2>2, <3>2, <3>3, <3>5, <3>6 DEF AdmittedFacts
  <2>3. CASE q \notin admitted[r]
    <3>1. PICK h \in Handlers : AcceptObject(h) /\ handler[h].at = r /\ handler[h].req = q
      <4>1. PICK h \in Handlers : AcceptObject(h)
        BY <1>3, <2>3, ZenonT(60) DEF FenceStep, Arrive, CheckObject, CheckOutcome, AcceptEpoch, Work,
                          WorkFails, Finish, CrashRunner
      <4> QED
        BY <2>3, <4>1, ZenonT(60) DEF AcceptObject, TypeOK, FenceTypeOK
    <3>2. /\ q \in Requests /\ envelope[q].stage = "sent"
          /\ envelope[q].epoch <= fence[r].epoch
      BY <3>1, HandlerIsBusy, Zenon DEF AcceptObject, HandlerFacts, HandlerOK
    <3>3. envelope[q].object \in Objects /\ envelope[q].generation \in Nat
      BY <3>2 DEF TypeOK, OrdersTyped, EnvelopeType
    <3> DEFINE o == envelope[q].object
               g == envelope[q].generation
    <3>4. fence' = [fence EXCEPT ![r].object[o] =
            IF g > fence[r].object[o].generation
            THEN [generation |-> g, digest |-> envelope[q].digest]
            ELSE fence[r].object[o]]
      BY <3>1, <3>3 DEF AcceptObject, Supersedes, TypeOK, FenceTypeOK, FenceRecord
    <3>5. /\ fence'[r].epoch = fence[r].epoch
          /\ fence'[r].object[o] = IF g > fence[r].object[o].generation
                                   THEN [generation |-> g, digest |-> envelope[q].digest]
                                   ELSE fence[r].object[o]
      BY <3>3, <3>4, SMTT(60) DEF TypeOK, FenceTypeOK, FenceRecord
    <3>6. fence[r].object[o].generation \in Nat
      BY <3>3, SMTT(60) DEF TypeOK, FenceTypeOK, FenceRecord
    <3>7. g <= fence'[r].object[o].generation
      BY <3>3, <3>5, <3>6
    <3> QED
      BY <2>1, <3>2, <3>5, <3>7, SMTT(60)
  <2> QED
    BY <2>2, <2>3
<1> QED
  BY <1>2, <1>3, StepKinds, SMTT(60)

(* A fence never forgets: epochs and generations only grow. *)
LEMMA FenceGrows ==
  ASSUME TypeOK, HandlerFacts, Next, NEW r \in Runners
  PROVE  /\ fence[r].epoch \in Nat /\ fence'[r].epoch \in Nat
         /\ fence[r].epoch <= fence'[r].epoch
         /\ fence[r].outcomes \subseteq fence'[r].outcomes
         /\ \A o \in Objects :
              /\ fence[r].object[o].generation \in Nat
              /\ fence'[r].object[o].generation \in Nat
              /\ fence[r].object[o].generation <= fence'[r].object[o].generation
<1>1. fence[r] \in FenceRecord /\ fence'[r] \in FenceRecord
  BY TypeStep, SMTT(60) DEF TypeOK, FenceTypeOK
<1>2. CASE FenceStep
  BY <1>1, <1>2, FenceMoves DEF FenceRecord
<1>3. CASE LeaseStep \/ OrderStep
  <2>1. fence' = fence
    BY <1>3, ZenonT(60) DEF LeaseStep, OrderStep, BeginHeld, BeginFollowing, Number, Send, notLease, fenceVars
  <2> QED
    BY <1>1, <2>1, SMTT(60) DEF FenceRecord
<1> QED
  BY <1>2, <1>3, StepKinds, SMTT(60)

(* A handler that does not move keeps its facts, whatever the others do. *)
LEMMA HandlerKept ==
  ASSUME TypeOK, HandlerFacts, Next, NEW k, HandlerOK(k)
  PROVE  HandlerOK(k)'
<1> SUFFICES ASSUME k # Idle PROVE HandlerOK(k)'
  BY SMTT(60) DEF HandlerOK
<1> DEFINE e == envelope[k.req]
<1>1. /\ k.pc # "idle" /\ k.req \in Requests /\ k.at \in Runners /\ e.stage = "sent"
      /\ k.pc \in {"accept", "run", "finish"} => e.epoch <= fence[k.at].epoch
      /\ k.outranked => /\ k.pc = "object"
                        /\ e.generation < fence[k.at].object[e.object].generation
      /\ k.finished => k.pc \in {"object", "outcome"} /\ k.req \in fence[k.at].outcomes
  BY SMTT(60) DEF HandlerOK
<1>2. envelope'[k.req] = e
  BY <1>1, SentOrdersStay
<1>3. e.epoch \in Nat /\ e.generation \in Nat /\ e.object \in Objects
  BY <1>1, SMTT(60) DEF TypeOK, OrdersTyped, EnvelopeType
<1>4. /\ fence[k.at].epoch \in Nat /\ fence'[k.at].epoch \in Nat
      /\ fence[k.at].epoch <= fence'[k.at].epoch
      /\ fence[k.at].outcomes \subseteq fence'[k.at].outcomes
      /\ fence[k.at].object[e.object].generation \in Nat
      /\ fence'[k.at].object[e.object].generation \in Nat
      /\ fence[k.at].object[e.object].generation <= fence'[k.at].object[e.object].generation
  BY <1>1, <1>3, FenceGrows, Zenon
<1> HIDE DEF e
<1>5. /\ k.pc \in {"accept", "run", "finish"} => e.epoch <= fence'[k.at].epoch
      /\ k.outranked => e.generation < fence'[k.at].object[e.object].generation
      /\ k.finished => k.req \in fence'[k.at].outcomes
  BY <1>1, <1>3, <1>4
<1> QED
  BY <1>1, <1>2, <1>5, SMTT(60) DEF HandlerOK

(* Every step keeps the facts of every handler. *)
LEMMA HandlerFactsStep ==
  TypeOK /\ HandlerFacts /\ AdmittedFacts /\ [Next]_vars => HandlerFacts'
<1> SUFFICES ASSUME TypeOK, HandlerFacts, AdmittedFacts, [Next]_vars, NEW g \in Handlers
             PROVE  HandlerOK(handler[g])'
  BY DEF HandlerFacts
<1> DEFINE k == handler[g]
<1>1. k \in HandlerRecord /\ HandlerOK(k)
  BY SMTT(60) DEF TypeOK, FenceTypeOK, HandlerFacts
<1>2. CASE handler'[g] = k
  <2>1. CASE Next
    <3>1. ASSUME NEW j, j = k PROVE HandlerOK(j)'
      BY <1>1, <2>1, <3>1, HandlerKept, SMTT(60)
    <3> QED
      BY <1>2, <3>1, SMTT(60) DEF HandlerOK
  <2>2. CASE UNCHANGED vars
    BY <1>1, <2>2, Zenon DEF vars, HandlerOK
  <2> QED
    BY <2>1, <2>2, SMTT(60)
<1>3. CASE handler'[g] = Idle
  BY <1>3 DEF HandlerOK
<1>4. CASE ~(handler'[g] = k) /\ ~(handler'[g] = Idle)
  <2>1. FenceStep
    BY <1>4, StepKinds, Zenon DEF LeaseStep, OrderStep, BeginHeld, BeginFollowing, Number, Send,
                           notLease, fenceVars, vars
  <2>2. Next /\ envelope' = envelope
    BY <2>1, StepKinds DEF FenceStep, notFence
  <2>3. ASSUME NEW h \in Handlers, NEW q \in Requests, NEW r \in Runners, Arrive(h, q, r)
        PROVE  HandlerOK(handler[g])'
    <3> DEFINE e == envelope[q]
               outranked == \E p \in admitted[r] : Outranks(envelope[p], e)
               finished == q \in fence[r].outcomes
    <3>1. /\ handler'[g] = [pc |-> "object", req |-> q, at |-> r,
                            outranked |-> outranked, finished |-> finished]
          /\ e.stage = "sent" /\ e.epoch >= fence[r].epoch /\ fence' = fence
      BY <1>4, <2>3, SMTT(60) DEF Arrive, TypeOK, FenceTypeOK
    <3>2. ASSUME NEW p \in admitted[r], Outranks(envelope[p], e)
          PROVE  e.generation < fence[r].object[e.object].generation
      <4>1. p \in Requests
        BY DEF TypeOK, FenceTypeOK
      <4>2. /\ e.epoch \in Nat /\ e.generation \in Nat /\ e.object \in Objects
            /\ envelope[p].epoch \in Nat /\ envelope[p].generation \in Nat
            /\ fence[r].epoch \in Nat
        BY <4>1, SMTT(60) DEF TypeOK, OrdersTyped, EnvelopeType, FenceTypeOK, FenceRecord
      <4>3. fence[r].object[e.object].generation \in Nat
        BY <4>2 DEF TypeOK, FenceTypeOK, FenceRecord
      <4>4. /\ envelope[p].epoch <= fence[r].epoch
            /\ envelope[p].generation <= fence[r].object[envelope[p].object].generation
        BY DEF AdmittedFacts
      <4> QED
        BY <3>1, <3>2, <4>2, <4>3, <4>4, SMTT(30) DEF Outranks
    <3>3. outranked => e.generation < fence[r].object[e.object].generation
      BY <3>2, SMTT(60)
    <3>4. /\ handler'[g].pc = "object" /\ handler'[g].req = q /\ handler'[g].at = r
          /\ handler'[g].outranked = outranked
          /\ handler'[g].finished = finished
      <4> HIDE DEF outranked, finished
      <4> QED
        BY <3>1, SMTT(60)
    <3>5. /\ envelope'[handler'[g].req] = e /\ fence'[handler'[g].at] = fence[r]
          /\ e.stage = "sent"
      BY <2>2, <3>1, <3>4, ZenonT(60)
    <3> HIDE DEF e
    <3> QED
      BY <3>3, <3>4, <3>5, Zenon DEF HandlerOK
  <2>4. ASSUME NEW h \in Handlers, CheckObject(h) PROVE HandlerOK(handler[g])'
    <3>1. /\ h = g /\ k.pc = "object" /\ fence' = fence
          /\ handler'[g] = [k EXCEPT !.pc = "outcome"]
          /\ ~(envelope[k.req].generation <
                 fence[k.at].object[envelope[k.req].object].generation)
      BY <1>4, <2>4, Zenon DEF CheckObject, Leave, Step, TypeOK, FenceTypeOK
    <3>2. k # Idle
      BY <3>1, SMTT(30) DEF Idle
    <3> QED
      BY <1>1, <2>2, <3>1, <3>2, ZenonT(60) DEF HandlerOK, HandlerRecord
  <2>5. ASSUME NEW h \in Handlers, CheckOutcome(h) PROVE HandlerOK(handler[g])'
    <3>1. /\ h = g /\ k.pc = "outcome" /\ fence' = fence
          /\ handler'[g] = [k EXCEPT !.pc = "epoch"]
          /\ k.req \notin fence[k.at].outcomes
      BY <1>4, <2>5 DEF CheckOutcome, Leave, Step, TypeOK, FenceTypeOK
    <3>2. k # Idle
      BY <3>1 DEF Idle
    <3> QED
      BY <1>1, <2>2, <3>1, <3>2 DEF HandlerOK, HandlerRecord
  <2>6. ASSUME NEW h \in Handlers, AcceptEpoch(h) PROVE HandlerOK(handler[g])'
    <3>1. /\ h = g /\ k.pc = "epoch" /\ handler'[g] = [k EXCEPT !.pc = "accept"]
      BY <1>4, <2>6 DEF AcceptEpoch, Step, TypeOK, FenceTypeOK
    <3>2. k # Idle
      BY <3>1 DEF Idle
    <3>3. k.req \in Requests /\ k.at \in Runners /\ ~k.outranked /\ ~k.finished
          /\ envelope[k.req].stage = "sent"
      BY <1>1, <3>1, <3>2 DEF HandlerOK
    <3>4. envelope[k.req].epoch \in Nat /\ fence[k.at].epoch \in Nat
      BY <3>3 DEF TypeOK, OrdersTyped, EnvelopeType, FenceTypeOK, FenceRecord
    <3>5. fence'[k.at].epoch = IF envelope[k.req].epoch > fence[k.at].epoch
                               THEN envelope[k.req].epoch ELSE fence[k.at].epoch
      BY <2>6, <3>1, <3>3 DEF AcceptEpoch, TypeOK, FenceTypeOK, FenceRecord
    <3>6. envelope[k.req].epoch <= fence'[k.at].epoch
      BY <3>4, <3>5, SMTT(60)
    <3> QED
      BY <1>1, <2>2, <3>1, <3>3, <3>6 DEF HandlerOK, HandlerRecord
  <2>7. ASSUME NEW h \in Handlers, AcceptObject(h) \/ Work(h) PROVE HandlerOK(handler[g])'
    <3>1. /\ h = g /\ k.pc \in {"accept", "run"}
          /\ \E pc \in {"run", "finish"} : handler'[g] = [k EXCEPT !.pc = pc]
      BY <1>4, <2>7, ZenonT(60) DEF AcceptObject, Work, Step, TypeOK, FenceTypeOK
    <3>2. k # Idle
      BY <3>1, SMTT(60) DEF Idle
    <3>3. /\ k.req \in Requests /\ k.at \in Runners /\ ~k.outranked /\ ~k.finished
          /\ envelope[k.req].stage = "sent"
          /\ envelope[k.req].epoch <= fence[k.at].epoch
      BY <1>1, <3>1, <3>2, ZenonT(60) DEF HandlerOK
    <3>4. envelope[k.req].epoch \in Nat
      BY <3>3, SMTT(60) DEF TypeOK, OrdersTyped, EnvelopeType
    <3>5. envelope[k.req].epoch <= fence'[k.at].epoch
      BY <2>2, <3>3, <3>4, FenceGrows
    <3>6. PICK pc \in {"run", "finish"} : handler'[g] = [k EXCEPT !.pc = pc]
      BY <3>1
    <3> QED
      BY <1>1, <2>2, <3>3, <3>5, <3>6, ZenonT(60) DEF HandlerOK, HandlerRecord
  <2>8. ~(\E h \in Handlers : WorkFails(h) \/ Finish(h))
    BY <1>4, Zenon DEF WorkFails, Finish, Leave, TypeOK, FenceTypeOK
  <2>9. ~(\E r \in Runners : CrashRunner(r))
    BY <1>4 DEF CrashRunner, TypeOK, FenceTypeOK
  <2> QED
    BY <2>1, <2>3, <2>4, <2>5, <2>6, <2>7, <2>8, <2>9, SMTT(60) DEF FenceStep
<1> QED
  BY <1>2, <1>3, <1>4

(* The invariant is inductive, and every behaviour satisfies it. *)
THEOREM Invariance == Spec => []IInv
<1>1. IInv /\ [Next]_vars => IInv'
  <2> SUFFICES ASSUME IInv, [Next]_vars PROVE IInv'
    OBVIOUS
  <2>1. TypeOK'
    BY TypeStep DEF IInv
  <2>2. OneLiveController' /\ RowFacts'
    <3>1. CASE LeaseStep
      BY <3>1, LeaseFactsStep, SMTT(60) DEF IInv, TypeOK
    <3>2. CASE FenceStep \/ OrderStep \/ UNCHANGED vars
      <4>1. UNCHANGED leaseVars
        BY <3>2, Zenon DEF FenceStep, notFence, OrderStep, BeginHeld, BeginFollowing, Number, Send,
                    vars, leaseVars
      <4> QED
        BY <4>1, SMTT(60) DEF IInv, OneLiveController, RowFacts, Live, leaseVars
    <3> QED
      BY <3>1, <3>2, StepKinds
  <2>3. OrderFacts'
    BY OrderFactsStep DEF IInv
  <2>4. GenerationFacts'
    BY GenerationFactsStep DEF IInv
  <2>5. AdmittedFacts'
    BY AdmittedFactsStep DEF IInv
  <2>6. HandlerFacts'
    BY HandlerFactsStep DEF IInv
  <2> QED
    BY <2>1, <2>2, <2>3, <2>4, <2>5, <2>6 DEF IInv
<1> QED
  BY InitOK, <1>1, PTL DEF Spec

(* The types of the lease, the orders, the fences and the handlers hold. *)
THEOREM TypesHold == Spec => []TypeOK
<1>1. IInv => TypeOK
  BY DEF IInv
<1> QED
  BY <1>1, Invariance, PTL

(***************************************************************************)
(* At most one running controller holds an unexpired lease, and it is the  *)
(* row's (acquire_lease, renew_lease, release_lease).                      *)
(***************************************************************************)
THEOREM OneController == Spec => []OneLiveController
<1>1. IInv => OneLiveController
  BY DEF IInv
<1> QED
  BY <1>1, Invariance, PTL

(***************************************************************************)
(* A generation of an object names one order, and a fence records only     *)
(* orders that were sent (next_dispatch_generation, accept_object).        *)
(***************************************************************************)
THEOREM OneOrderPerGeneration == Spec => []GenerationNamesOneOrder
<1>1. IInv => GenerationNamesOneOrder
  BY SMTT(60) DEF IInv, GenerationFacts
<1> QED
  BY <1>1, Invariance, PTL

(***************************************************************************)
(* An order that arrives after one that outranks it was let through never  *)
(* gets to the end of Fence::admit.                                        *)
(***************************************************************************)
THEOREM HistoryIsRespected == Spec => []AdmissionRespectsHistory
<1>1. IInv => AdmissionRespectsHistory
  BY SMTT(30) DEF IInv, HandlerFacts, HandlerOK, AdmissionRespectsHistory, Idle
<1> QED
  BY <1>1, Invariance, PTL

(* A request whose outcome was on record when it arrived is not run again. *)
THEOREM NoRepeat == Spec => []FinishedIsNotRepeated
<1>1. IInv => FinishedIsNotRepeated
  BY SMTT(30) DEF IInv, HandlerFacts, HandlerOK, FinishedIsNotRepeated, Idle
<1> QED
  BY <1>1, Invariance, PTL

(***************************************************************************)
(* Every order takes a generation above what any runner has accepted for   *)
(* its object (next_dispatch_generation on a database that was not put     *)
(* back to an older copy).                                                 *)
(***************************************************************************)
THEOREM DispatchIsAbove == Spec => DispatchesAboveAccepted
<1> DEFINE Above ==
      \A q \in Requests :
        envelope[q].stage = "leased" /\ envelope'[q].stage = "numbered" =>
          \A r \in Runners :
            envelope'[q].generation > fence[r].object[envelope[q].object].generation
<1>1. IInv /\ [Next]_vars => [Above]_vars
  <2> SUFFICES ASSUME IInv, [Next]_vars, NEW q \in Requests, NEW r \in Runners,
                      envelope[q].stage = "leased", envelope'[q].stage = "numbered"
               PROVE  envelope'[q].generation > fence[r].object[envelope[q].object].generation
    BY SMTT(60)
  <2> USE DEF IInv, TypeOK
  <2>1. Number(q)
    <3>1. CASE LeaseStep \/ FenceStep \/ UNCHANGED vars
      BY <3>1, ZenonT(60) DEF LeaseStep, FenceStep, notLease, notFence, vars
    <3>2. ASSUME NEW p \in Requests, Number(p) PROVE Number(q)
      BY <3>2, AfterNumber
    <3>3. ASSUME NEW p \in Requests, Send(p) PROVE FALSE
      BY <3>3, AfterSend, SMTT(60)
    <3>4. ASSUME NEW p \in Requests, NEW o \in Objects, NEW d \in Digests, NEW s \in Runners,
                 \/ \E c \in Controllers : BeginHeld(c, p, o, d, s)
                 \/ \E f \in Followers : BeginFollowing(f, p, o, d, s)
          PROVE  FALSE
      BY <3>4, AfterBegin, SMTT(60)
    <3> QED
      BY <3>1, <3>2, <3>3, <3>4, StepKinds, ZenonT(60) DEF OrderStep
  <2>2. envelope'[q].generation > generation[envelope[q].object]
    BY <2>1, AfterNumber, SMTT(60)
  <2>3. envelope[q].object \in Objects /\ envelope'[q].generation \in Nat
    BY <2>1, TypeStep DEF OrdersTyped, EnvelopeType
  <2>4. /\ generation[envelope[q].object] \in Nat
        /\ fence[r].object[envelope[q].object].generation \in Nat
    BY <2>3 DEF OrdersTyped, FenceTypeOK, FenceRecord
  <2>5. fence[r].object[envelope[q].object].generation <= generation[envelope[q].object]
    BY <2>3, FenceBelowCounter
  <2> QED
    BY <2>2, <2>3, <2>4, <2>5, SMTT(60)
<1> QED
  BY <1>1, Invariance, PTL DEF Spec, DispatchesAboveAccepted

(***************************************************************************)
(* A controller whose lease ran out is shut out by every runner whose      *)
(* clock is not behind; only one that released its lease may still have an *)
(* order on its way (admit_as, acquire_lease).                             *)
(***************************************************************************)
THEOREM FencedAfterReplacement == Spec => ReplacedControllerIsFenced
<1> DEFINE Fenced ==
      \A h \in Handlers :
        handler[h].pc = "idle" /\ handler'[h].pc = "object" =>
          LET e == envelope[handler'[h].req] IN
          skew[handler'[h].at] >= 0 /\ e.epoch < lease.epoch =>
            serve[e.holder] = "released"
<1>1. IInv /\ [Next]_vars => [Fenced]_vars
  <2> SUFFICES ASSUME IInv, [Next]_vars, NEW h \in Handlers,
                      handler[h].pc = "idle", handler'[h].pc = "object",
                      skew[handler'[h].at] >= 0,
                      envelope[handler'[h].req].epoch < lease.epoch
               PROVE  serve[envelope[handler'[h].req].holder] = "released"
    BY SMTT(60)
  <2> USE DEF IInv, TypeOK
  <2>1. PICK q \in Requests, r \in Runners : Arrive(h, q, r)
    <3>1. FenceStep
      BY StepKinds, ZenonT(60) DEF LeaseStep, OrderStep, BeginHeld, BeginFollowing, Number, Send, notLease,
                       fenceVars, vars
    <3>2. ASSUME NEW g \in Handlers, NEW q \in Requests, NEW r \in Runners, Arrive(g, q, r)
          PROVE  Arrive(h, q, r)
      BY <3>2, ZenonT(60) DEF Arrive, FenceTypeOK
    <3>3. ASSUME NEW g \in Handlers,
                 \/ CheckObject(g) \/ CheckOutcome(g) \/ AcceptEpoch(g) \/ AcceptObject(g)
                 \/ Work(g) \/ WorkFails(g) \/ Finish(g)
          PROVE  FALSE
      BY <3>3, ZenonT(60) DEF CheckObject, CheckOutcome, AcceptEpoch, AcceptObject, Work, WorkFails, Finish,
                  Step, Leave, Idle, FenceTypeOK, HandlerRecord
    <3>4. ASSUME NEW r \in Runners, CrashRunner(r) PROVE FALSE
      BY <3>4, Zenon DEF CrashRunner, Idle, FenceTypeOK
    <3> QED
      BY <3>1, <3>2, <3>3, <3>4, SMTT(60) DEF FenceStep
  <2>2. handler'[h].req = q /\ handler'[h].at = r
    BY <2>1, SMTT(60) DEF Arrive, FenceTypeOK
  <2>3. /\ envelope[q].stage = "sent" /\ envelope[q].expires > clock + skew[r]
    BY <2>1, ZenonT(60) DEF Arrive, LeaseValid, RunnerClock
  <2>4. /\ envelope[q].expires \in Nat /\ envelope[q].epoch \in Nat
        /\ clock \in Nat /\ lease.epoch \in Nat /\ skew[r] \in Int
    BY FenceAssumption, ZenonT(60) DEF OrdersTyped, EnvelopeType, LeaseTypeOK, FenceTypeOK
  <2>5. envelope[q].expires > clock
    BY <2>2, <2>3, <2>4
  <2>6. LeaseInOrder(envelope[q])
    BY <2>3 DEF OrderFacts
  <2> QED
    BY <2>2, <2>4, <2>5, <2>6, SMTT(60) DEF LeaseInOrder
<1> QED
  BY <1>1, Invariance, PTL DEF Spec, ReplacedControllerIsFenced
==============================================================================
