# Verification of bento

TLA+ models of bento, a self-hosted service that runs virtual machines for a
group of users on one or several hosts: what TLC checks on small instances and
what TLAPS proves for every size.

## 1. The system

`bentod` is one binary with several roles that share a SQLite database on one
machine, the *controller's*; `bento-monitor` is the operator's screen beside it.

| part | source | modelled by |
|---|---|---|
| controller lease: which `bentod serve` may drive the runners | `crates/store/src/runners.rs`, `bentod/src/serve.rs` | `ControllerLease` |
| runner fence: what a runner lets through | `crates/runner` | `RunnerFence` |
| order dispatch from `serve` and from the SSH frontend | `bentod/src/runners.rs`, `crates/store/src/runners.rs` | `Dispatch`, `DispatchRestore` |
| runner slots: which host owns which part of each user's /24 | `crates/store/src/{runners,hosts,migrate}.rs`, `crates/network/src/{slot,subnet}.rs`, `bentod/src/ops.rs`, `crates/lifecycle/src/manager.rs` | `RunnerSlots` |
| network convergence of runners | `bentod/src/{runners,netstate,runnerd}.rs`, `crates/network/src/{machine,routes}.rs` | `NetworkSync`, `RouteApply` |
| instance lifecycle, names, capacity | `crates/lifecycle`, `crates/store/src/{instances,names}.rs`, `crates/hypervisor/src/client.rs` | `Lifecycle`, `InstanceStore`, `HypervisorClient` |
| placement and the poll that feeds it | `crates/store/src/runners.rs`, `bentod/src/runners.rs` | `Placement` |
| sign-in, accounts, links of SSH keys, keys and tokens | `crates/auth`, `crates/store/src/{users,pairings,sshkeys,tokens}.rs` | `Login`, `Pairing`, `Credentials` |
| command line, API and pages; shares; the packet filter | `crates/{cli,api}`, `crates/store/src/shares.rs`, `bentod/src/firewall.rs` | `Requests`, `FirewallPolicy` |
| images on the controller and on runners | `crates/images`, `bentod/src/runners.rs` | `Images`, `ImageCatalogue` |
| SSH frontend, HTTP proxy, certificate | `crates/{sshfront,proxy,tlscert}` | `SshSession`, `Proxy`, `Certificates` |
| libvirt connection | `crates/hypervisor/src/{rpc,xdr,client}.rs` | `HypervisorRpc`, `Wire` |
| start and stop of the processes, migrations, configuration | `bentod/src/{setup,serve,keys,main}.rs`, `crates/store/src/migrate.rs`, `crates/config` | `Startup`, `Settings` |
| charts; the operator's screen, dump and restore | `bentod/src/{metrics,ops}.rs`, `bento-monitor` | `Metrics`, `Monitor` |

`PROJECT.json` lists every component with its status, the source lines each
definition translates, and the hazards: the places where interleaving, loss,
crashes or stale reads could break the code, with the properties that watch
each.

How the parts interact. `serve` takes the lease, renews it on a timer and
publishes it on a channel. Whoever changes an instance, an image or a network
on a runner reads a lease (`serve` its own, the SSH frontend the row), takes a
generation for the object from the database, and sends an order. The runner's
fence compares epoch, clock, lease, generation and digest with what it has on
disk, records the order, and the host carries it out. Slots decide which host
gets an address; the network sweep turns slots and users into routes on every
machine. A user comes in by the dashboard, the API or SSH; each surface reads
the row, decides, and calls the lifecycle, which works on row, domain and disk
in turn, here or by an order, while the polls write down what they see.

## 2. Modules

The fleet protocol:

* **ControllerLease**. `lease` is the row, `serve` how far each run is, `held`
  what each run published. One action per transaction. Time counts half
  seconds, because `renew_lease` compares RFC 3339 *texts*, where a whole second
  sorts after its own fractions (`TextAfter`), while `acquire_lease` parses.
* **RunnerFence** extends it. A handler takes one step per SQL statement
  (`Arrive`, `CheckObject`, `CheckOutcome`, `AcceptEpoch`, `AcceptObject`,
  `Work`, `Finish`), since each statement takes the connection's lock by
  itself. `admitted` and two fields of a handler are history variables.
* **Dispatch** composes both with the senders: `BeginHeld`/`BeginFollowing`
  read the lease, `Number` takes the generation, `Send` hands the order to the
  network. A sent order may arrive at any time, any number of times, or never.
* **DispatchRestore** adds `bentod dump-db` and `bentod restore-db`.
* **RunnerSlots**. `prefix`, `owner`, two-step `set-prefix` commands, `Give`,
  and the steps of a create (`BeginCreate`, `ReadSlots`, `TrySlot`, `Insert`).
  Addresses are octets of one /24, in eight cells of `Cell` addresses.
* **NetworkSync**. One runner: what the database says, the controller's caches
  (`applied`, `boots`), the sweep, an order in flight, and the four parts that
  `apply_network` installs.

Instances:

* **InstanceStore** and **HypervisorClient** are the two libraries below the
  lifecycle, as operators on the tables and on the domains of every machine;
  one operator is one transaction or one libvirt call, and a domain is found by
  *name*, as the client does it.
* **Lifecycle** extends the one and uses the other. `task` holds what each
  running operation has read and how far it is; `late` an order that arrives
  after its caller gave up. The steps of `new`, `cp`, `rm`, `rename`, `resize`,
  `start`, `stop`, `restart`, of the restore after a boot and of the polls are
  actions of their own, one per transaction, libvirt call, order or file.
* **Placement**. The two calls of a poll, what `observe_host` records,
  `choose_host`, and the insert that comes later.

Accounts and surfaces:

* **Login**. Several tabs, one cookie jar per browser, a callback in five
  awaits, key rotation at the provider. A page and a sign-out are requests in
  flight (`visit`, `leaving`) with the cookies they were sent with, and the
  browser applies an answer when it comes. **Pairing**. A link offered by SSH and
  confirmed on a page, with the sweep of expired rows and reused row ids.
  **Credentials**. Who a caller is at each door, and what keys are used for.
* **Requests**. A handler of each surface is the *plan* it decides on from one
  reading of the row, carried out call by call; `revoked` is which requests have
  lost their share since, and the filter is rebuilt by two processes. **FirewallPolicy** is the rules as first-match chains against the
  policy as a predicate. A rule that the code writes once per user or instance is
  one rule with a pattern for each: they share a verdict, so their order among
  themselves does not matter. `Loads` says which tables nft takes (no empty set).

Images: **Images** has the processes that fetch, build, commit and collect under
two locks, creates that put overlays over versions, and the runner's copies.
**ImageCatalogue** is what all that should amount to: versions become complete,
are pointed at, get disks over them, and go only when nothing needs them.
`Images` implements it under `Complete` (a row *and* its file) and `Backing`.

Frontends and machine: **SshSession** (one session, both near sides, pumps and
pipes), **Proxy** (listeners and one request's three reads), **Certificates**
(order, records, two files), **RouteApply** (`apply_network` command by
command), **HypervisorRpc** (tasks over one socket, restarts of the daemon,
dropped calls), **Wire** (XDR and packets, byte by byte), **Startup** (three
processes over one database, with every migration that rewrites rows),
**Settings** (configuration, host checks, command line, subnet plan as functions
of their input), **Metrics**, **Monitor**.

**...Proofs** hold the theorems; **MC...** the instances for TLC. Three of those
take components that share no state one at a time: `MCControlPlane` the
lifecycle, sign-in and key links, `MCOperations` the network sweep, the firewall's
rules, the routes and what runs the deployment, `MCPlatform` the rest. `which` says which component a behaviour
exercises while the others rest in an initial state, so that the state space is
the sum of theirs; where they share model values, one permutation is a symmetry
of all. A component with theorems is extended, not instantiated, so that a run
and a theorem speak of the same definition.

Definitions whose comment begins "Mutant of" are faulty variants of the
definition below them. They are used to show that each property can fail.

## 3. Runs

| run | result | what it asks |
|---|---|---|
| `dispatch` | holds | one live controller; a generation names one order; a fence never lets an outranked or a finished request through; a replaced controller is shut out by a runner whose clock is not behind, unless it released its lease itself; orders are numbered above what was accepted |
| `dispatch_outranked` | violated | is work carried out after a later order was accepted? |
| `dispatch_restore` | violated | are orders still numbered above after a restore? |
| `slots` | holds | rows whose create no change of prefix overlapped are in slots their host owns, live addresses and owned addresses keep their owner |
| `slots_overlap` | violated | the same for a create that a change of prefix overlaps |
| `operations` | holds | the digest cache tells the truth; for a database that does not return to an earlier description (`Reverts = FALSE`), ARP follows routes and the machine converges; `PolicyIsolates` and `OperationsSound`, below |
| `netsync_revert` | violated | convergence when the database returns to an earlier description |
| `control_plane` | holds | the ceilings hold after every insert and resize; a name never goes to another user in its cooldown nor to two rows; the file of a built instance is never smaller than its row says; an instance its user stopped is not started again by a poll or a boot; one account per subject however many first logins run at once; a browser told that it is signed out gets a session only from a login that was asked for or a page sent before it was told; a confirmation links the key it showed |
| `lifecycle_remove` | violated | does a removal take away only its own instance? |
| `platform` | holds | the surfaces, the frontends, the images and the libvirt connection: the properties below |
| `accounts_filter` | violated | is the nftables table current once both of its writers rest? |
| `rpc_out_of_step` | violated | is a libvirt socket given up once its replies are out of step? |

What `platform` checks, besides types:

* `SurfacesAgree`: a call under way is the owner's, or a sharee's whose share is
  still there or was taken back after the handler had let the request through;
  at rest the three surfaces offer and list the same.
* `SharesOfLiveInstances`; `OwnTableCurrent`, that a process's own finished reload
  leaves the table of the newest rows; `KeepsCatalogue`, that `Images` implements
  `ImageCatalogue`.
* `FrontendsSound`, by component. A session is told its end at most once, nothing
  of its output comes later, and with a status all of it has come. A request
  that the proxy carries was for an instance that had the name and was public or
  open to the caller at some time since it arrived, and reaches that one or one of
  the same owner that took over its address. No challenge record is forgotten and what
  is served is a pair. The API and the proxy agree on who a caller is, and a key
  is removed for its own user only.
* `CallsAnsweredOnce`: a call is carried out at most once and answered by its own
  reply, and a network that was reported ensured is active and starts by itself.
* `RulesAgree`: what an accepted configuration promises the processes
  (`ConfigServes`, which is not that it can be served: see section 6), which hosts
  pass the checks, and that what is written on the wire is what RFC 4506 says and
  is read back.

In `operations`:

* `PolicyIsolates`: a table that loads keeps users apart for every packet and
  every state of slots and hosts, and accepts exactly what the policy names when
  every slot that is not this machine's has a route (`Settled`).
* `OperationsSound`, by component. An acknowledged order leaves every address
  going where it belongs. Migrations are done once whatever runs at once, and the
  processes agree on one row and one key; `serve` gives its lease up after the
  last of its tasks has ended (it does not keep it so long, see section 6).
  `choose_host` finds the best machine by its own figures, and the monitor gives a
  reason only for a machine it passes over. Charts claim no more than was
  consumed, and are in order while the clock is not set back. "Install everything"
  does. A restore loses no database, and what the Restore key offers is the copy
  completed last.

Bounds. `dispatch`: two controller runs, so that one replaces the other; a
follower; two orders with two digests for one object, two handlers, so that two
orders, or one order twice, are in service together; the clock runs one lease
past its start (TTL 2 half seconds, `MaxClock` 2), which is a takeover at the
expiry. Runners do not influence each other, so one is enough; clock skew is
left to the proof. `EpochStride` is 3 in place of 1,000,000: more than the
orders of one epoch. The clock, the requests and the runs are used up in the
end, hence no deadlock check here. `slots`: two hosts, two creates, two
operators, prefixes 25, 26 and one out of range, cells of two addresses. A slot
then has 13 usable addresses at /24, five or six at /25, one or two at /26;
slots run full, a prefix is split twice, and a command that meant to split
merges, because another operator's came first. TLC was asked for each of these
and found it. `operations`: three edits over three versions of either half,
one reboot, two faults; a reboot at every point of an order, and a fault before
and after it, occur within them. Symmetry is used over interchangeable
requests, handlers, digests, instances, operators and controller runs, in runs
without liveness. `control_plane`: one settled instance, on the controller's machine
or on the runner, and one that may be created or copied; two names, two users,
two requests at once (from two processes), one fault (a lost or late answer, a
failed call, a crash, the end of a cooldown), ceilings that hold one large and
one small instance. The interesting cases, a rename that unwinds into a taken
name, a resize over a create, a stop across a start, take two requests.
`lifecycle_remove` has three requests and no fault. Everywhere else two of
whatever races (tabs, pages, connections, requests, workers, tasks, creates), one
or two faults, and limits of one or two where the code has larger ones (queue,
pipes, ring of points); a byte has five values, which keeps carries and padding.
Sign-in has two flows and, beside them, two events (`MaxEvents`) out of pages,
sign-outs, cookies that end, key rotations and restarts: a page and a sign-out
that cross are two. Five calls (`MaxCalls`) are an `ensure_network` that finds
its network inactive, which takes four, and one more. The bounds of extended
components are in the configurations, those of instantiated ones at the top of
`MCPlatform` and `MCOperations`. `control_plane` has 1.0 million states,
`platform` 1.6, `operations` 0.8.

Fairness (`operations`, `netsync_revert`). The sweep is a ticker loop that only ends with the
process, so its steps are weakly fair together; a machine carries out what it
admitted; an order without a connection ends. There is no fairness on edits,
faults, reboots or restarts, which are bounded: convergence is a promise about
the time after the last of them. `lifecycle_remove` is run under the
specification with fairness of each operation's own steps and of the polls (a
request that began goes on, as its task does; the polls are ticker loops); the
property is about single steps and does not depend on it.

### What the violated runs show

1. *dispatch_outranked.* `admit` is asked once, before the work. Two orders
   served at once are both let through, and the older is carried out last,
   against MULTI-NODE rule 16 and the comment at `fence.rs:195`. What does hold,
   and is proved, is that a request *arriving after* the later one was let
   through is never carried out.
2. *dispatch_restore.* The epoch that floors generations is in the database
   that is restored, so it goes back too (`runners.rs:161`).
3. *slots_overlap.* A create reads the prefix, the slots and the used addresses
   apart from the insert. The trigger checks the owner of the slot *number*, so a
   row may be stored with a number that does not hold its address. `claim_slot`
   judges by address and is not misled (`NobodyLosesTheirAddress`).
4. *netsync_revert.* After an order that failed half way the cache still has
   the digest acknowledged before. If the database returns to that description,
   nothing is sent until something else changes.
5. *lifecycle_remove.* `remove` reads the row and removes the domain by the name
   it read. A rename and a create in between put another instance under that
   name, whose domain, and on a runner whose disk, is then removed
   (`actions.rs:119`, against SPEC "A name is not an identifier").
6. *accounts_filter.* `serve` and `sshd` write one table and each skips an apply
   that would repeat what *it* applied last. When sshd's older text lands after
   serve's newer one, serve's later ticks all skip (`firewall.rs:49`). Within one
   process the table is current (`OwnTableCurrent`).
7. *rpc_out_of_step.* A call dropped between request and reply leaves the reply
   in the socket. The next call reads it and fails, but only an I/O error gives
   the socket up (`rpc.rs:259`), so every later call is one reply behind. What
   does hold is that no call takes another's reply for its own
   (`CallsAnsweredOnce`).

## 4. Proofs

All follow the same plan: an inductive invariant, which holds initially, is kept
by each action in turn, and implies the properties. The table names the theorem
of each proved property; the paragraphs below say what the invariants add and
why they must.

| module | property: theorem |
|---|---|
| `DispatchProofs` | `TypeOK`: `TypesHold`; `OneLiveController`: `OneController`; `GenerationNamesOneOrder`: `OneOrderPerGeneration`; `AdmissionRespectsHistory`: `HistoryIsRespected`; `FinishedIsNotRepeated`: `NoRepeat`; `DispatchesAboveAccepted`: `DispatchIsAbove`; `ReplacedControllerIsFenced`: `FencedAfterReplacement` |
| `LifecycleProofs`, `LifecycleSafetyProofs`, `LifecycleDiskProofs` | `TypeOK`: `LifecycleTypeOK`; `NameNeverStolen`: `NamesAreOwned`; `HaltIsPersistent`: `HaltsPersist`; `CapacityRespected`: `CapacityHolds`; `DiskCoversRow`: `DiskIsThere` |
| `AccountsProofs` | `OneAccountPerSubject`: `OneAccount`; `NoProbeAfterLogout`: `NoProbe`; `LinkAttachesConfirmed`: `LinksWhatWasShown`; `LoginTypeOK`: `LoginTyped`; `PairingTypeOK`: `PairingTyped` |
| `RequestsProofs` | `SurfacesAgree`: `OnePolicyOnEverySurface`; `SharesOfLiveInstances`: `SharesFollowInstances`; `OwnTableCurrent`: `TableOfItsOwn`; `PolicyIsolates`: `PolicyHolds` |
| `HostProofs` | `CallsAnsweredOnce`: `AnsweredOnce`; `TypeOK` of `NetworkSync`: `TypesHold`; `CacheIsTrue`: `CacheTellsTheTruth`; `ArpFollowsRoutes`: `ArpStaysBehind` |
| `ResourceProofs` | `KeepsCatalogue`: `StoreImplementsCatalogue`; `TypeOK` of `RunnerSlots`: `TypesHold`; `RowsAreInOwnedSlots`: `RowsInOwnedSlots`; `NobodyLosesTheirAddress`: `AddressesStay`; `RenumberingKeepsOwners`: `OwnersStay` |

* **DispatchProofs** (any numbers of runs, followers, runners, handlers,
  requests; any skew, TTL, stride). `OneLiveController` is inductive
  with `RowFacts`: the row's expiry is at most one lease time away and no
  channel is ahead of its epoch. `LeaseInOrder` says the same of the lease an
  order carries, which stays the row's until it runs out or is given up;
  `FencedAfterReplacement` follows from it. The other fence properties need that the counter of an
  object bounds every generation numbered and every generation accepted, and,
  for each handler, that what the fence holds never shrinks, so that a request
  outranked when it arrives still is when it reaches `CheckObject`.
* **LifecycleProofs**, **LifecycleSafetyProofs**, **LifecycleDiskProofs** (any
  users, machines, instances, names, sizes, ceilings, requests and faults).
  `Types` says what every request, order, poll and restore under way holds;
  `MintOK` that a UUID minted by a create is in nobody's hands (row, domain, file,
  order, poll, restore, request) before its insertion. On top of them:
  `NamesAreOwned` is inductive by itself, since `claim_name` is in the transaction
  that writes. `HaltsPersist` needs `HaltOK`: a stop on its way to the guest has
  a row that wishes `stopped`, unless a start crossed it, and a row inserted later
  is not for that UUID (`MintOK`). `CapacityHolds` is about sums over the rows of
  a machine. `SumFunction` is a recursion over a finite set; that it has a
  solution, and that any element may be split off, is proved by taking a minimal
  counterexample (`MinimalSet`, from the well-foundedness of strict inclusion), so
  no induction theorem with an operator parameter is needed. `DiskIsThere` needs
  `MakersOK`, that whoever makes an instance is alone in doing so and no late
  order is for an instance in the making, and `SizesOK`, the size each step of
  `new`, `cp` and `resize` has left for the next. Trying to prove it showed that
  an earlier form held in TLC's instance only because that has two instances:
  see Abstractions, `DiskCoversRow`.

* **AccountsProofs**, sign-in (any browsers, subjects, tabs; any number of name
  variants, subnets, rotations, restarts). One account per subject comes from the
  transaction of the registration. That every *session* has an account needs more:
  a callback past the lookup runs on a row it read earlier, over several awaits,
  so `LoginInv` says of each stage what has been established (`FlowOK`: the
  subject the provider named and, from the settling on, that its row exists), that
  a session cookie names a finished flow of that browser (`SessionsOK`, `JarOK`),
  and that no step takes a row away. `NoProbe` is a property of steps. The probed
  cookie that keeps `dashboard_gate` from probing again is set in the answer of a
  sign-out or of a failed probe, and a page carries the cookies of the moment it
  was sent. So `JarOK` says that the cookie is in the jar as long as the visitor
  counts as told, across the answers other tabs still get; `RequestsOK` that every
  page sent since carries it, and is therefore not answered by a probe; and the
  type of a flow (`FlowRec`) that no such page has begun one.
  `LoginTyped` needs an invariant of its own for the signing keys (`KeysInv`): what
  the cache and a callback hold is a key the provider has had.
* **AccountsProofs**, key links (any connections, pages, keys, accounts). A row id
  is used again after the sweep deletes the largest, so "the row the page showed"
  cannot be told by its id alone. `PairInv` says that a page's row is still there
  under its id, with the key it displayed, or was swept (`PageOK`), that the ids of
  the rows differ and that a fingerprint has one account (`PairsOK`, `KeysOK`).
  That the largest id exists is `Smallest`, from the well-foundedness of `<`.
* **RequestsProofs** (any users, instances, ports, requests in flight). A handler
  decides on a plan from one reading of the rows and carries it out call by call
  while others change them. `ReqInv` bridges the two: a uuid that a request has
  drawn is in nobody else's hands (`DrawnOK`), so a row never changes its owner
  while it lives, and whoever a plan was decided for stays entitled to what is
  left of it, or is marked by the step that took the share away (`Allowed`,
  `Held`). The other half of `SurfacesAgree`, that the surfaces
  list and offer the same, is about what the three sets of handlers compute from
  one state; `PortsDiffer` (there are two ports) is needed because a settings form
  that names the port the row has plans nothing. `FwInv` says what the text a
  process remembers is of: while it applies, of the rows it read; at rest and with
  no change since, of the rows as they are; and, as long as it was the last to
  write the table, that the table is that text.
* **RequestsProofs**, `FirewallPolicy` (any users, slots, machines and rows).
  `FirstDecides` says that the first matching rule gives the verdict, so a chain is
  settled by what each rule matches. `ForwardIs` reduces the nine rules of the
  forward chain to four conditions on a packet, `LocalIs` and `MachinesAre` say
  which addresses are a user's here, a far slot's, or a machine's, and
  `LeavesAsAllowed` and `EntersAsAllowed` compare the two with the policy. The
  argument needs that the route chosen for a packet and the prefixes of the rules
  come from one set of remote slots, which is that of the slots this machine does
  not own when the state is `Settled`, and that no user is called like a kind of
  address (`FirewallAssumption`).
* **HostProofs**, the libvirt connection (any tasks, calls, sockets, faults).
  `RpcInv` follows each call: not yet written, among the requests of one socket, or
  among its replies, and in one place only (`Calls`); the serials of one socket
  tell its calls apart, those of dropped tasks included, so that a reply with the
  right serial is the reply to this call. `ensure_network` is a chain of calls;
  what each answer has established is kept, as the daemon never undefines a
  network. `Opens` says that one task at a time opens a socket, while there is
  none: a failure therefore gives up its own socket and no newer one.
* **HostProofs**, `NetworkSync` (any numbers of edits, reboots, faults, versions).
  `OrderFacts` says that the finished steps of an order are in place unless a
  reboot the controller has not noted undid them; `GrowthFacts`, for a database
  that does not go back, that nothing installed is later than what is sent.
  `ArpStaysBehind` assumes `~Reverts`.
* **ResourceProofs**, images (any images, contents, processes, instances, faults).
  `ImagesInv` says what each process answers for at its stage: the lock it holds,
  that the version between a commit and its end has its file, that a collected one
  is not needed. A collector looks and deletes under the lock that a commit and an
  overlay also take, so `KeptOK` survives each of the three. `NeededVersionsKept`
  is the invariant; `StoreImplementsCatalogue` is the refinement: each action makes
  one version complete, moves a pointer, puts a disk over a complete version,
  retires an unneeded one, or stutters.
* **ResourceProofs**, `RunnerSlots` (any hosts, instances, operators, cell size).
  `IInv` adds what a create knows at each stage: the prefix it read is the
  current one unless it was overlapped, and the address it chose is in the slot it
  chose. The arithmetic is in `AssignableIsInSlot` and `RenumberedKeepsOwner`.

The assumptions are the ASSUMEs of the modules: the markers (`NoHolder`,
`NoRequest`, `NoHost`, `Nothing`...) are not among the things they mark, numbers
are numbers (`LoginSizes`, `PairingSizes`), configured and OCI images are images
and a built disk differs from a published file (`ImagesAssumption`), there are two
ports (`PortsDiffer`). TLC evaluates them in the runs that extend the module.

Only model-checked:

* `Converges`: liveness under fairness is out of TLAPS's reach.
* `RulesAgree`: `Wire` reads and writes packets by folds over bytes, `Settings`
  walks an argument list by a recursive function; what they compute for every input
  needs an induction over data that the installed provers cannot instantiate.
* `FrontendsSound` and `OperationsSound`: conjunctions, by component, over nine
  small modules that `MCPlatform` and `MCOperations` instantiate. They could be
  proved; they have no unbounded set of actors whose interleaving the small
  instance could miss (one session, one certificate, one installation at a time).
* `TypeOK` of `platform`, for the same components.
* The properties of the violated runs.

## 5. Abstractions

* A refusal, a failed read or an unreachable runner changes nothing and is no
  step. Health, capabilities, inventory
  and sample requests do not mutate and record nothing in the fence.
* Digests, payloads, routes and rules are opaque values.
* One database, one clock for the processes on its machine; a runner's clock is
  off by a constant.
* `NetworkSync` assumes that an order given up after 5 s is over when the next
  sweep reaches the machine 30 s later. The code does not state this; it rests
  on the HTTP server (axum, external) dropping a handler whose client has gone.
  Overlapping orders are `Dispatch`'s subject.
* `RunnerSlots` has one user's /24. Every slot is `active`: no code writes
  another state.
* `network.check` may refuse a description whose halves are of two times. A
  description read at one time is taken to pass it.
* `Lifecycle` has no failing database writes but by a crash, at most one late
  order, and one guest's power as what `stop` waits for. The poll of this
  machine and those of runners share one variable.
* `DiskCoversRow` is about instances built from a built source (`built`). `cp`
  takes a source without a domain for a stopped one (`copy.rs:56`). With three
  instances it can copy one that is itself still being copied and whose file has
  not been grown, and the second copy may end with a file smaller than its row.
* `Pairing` carves one case out of its property, and says so: a pairing that
  expired and was swept between a page's last check and its claim, where the row
  id may name another pairing (`pairings.rs:108`, no AUTOINCREMENT).
* `Images` takes a built disk and a published file to differ in content. A runner
  deletes no version, so the catalogue's promise is about disks on the
  controller's machine.
* `Startup` excepts a runner registered by `sync-images` before this machine had
  a row (`hosts.rs:40`, where `ensure_host` then takes the wrong row). `Metrics`
  excepts an instance whose name changed hands between the listing and the
  reading, which is by name (`metrics.rs:353`). `Placement` excepts figures of a
  machine whose endpoint moved during its first contact, since the reply that
  carries them carries no identity. `Metrics` promises order only while the wall
  clock is not set back: `push` appends, whatever the time.
* In `Requests` sshd and serve build the same table from the same rows. They do
  when the high ports of the configuration are the default ones: sshd builds with
  none given (`sshd.rs:60`).
* `HypervisorRpc` drops a call before or after its request is written, not within.

## 6. Not modelled

* **Text**: TOML, domain XML, cloud-init documents, the ISO image, HTML, help and
  log lines, the monitor's drawing. They have no state, and no property here
  tells two texts apart.
* **External programs**: libvirt, qemu-img, podman, nft, ip, systemd, the ACME
  server, the DNS provider, the OIDC provider, russh and axum are modelled only
  as far as the code's use of them shows.
* **Panics.** A background task that panics is noticed only when `serve` shuts
  down (`serve.rs:334`), and an image task's host stays in `syncing`
  (`runners.rs:828`).
* **Code without a caller**: `handle_event` (`poller.rs:79`), `Manager::manage`
  (`tlscert/src/lib.rs:389`), so that a certificate is renewed only by a restart;
  `mint_token` and `revoke_token` are used in tests only.
* **Liveness of the lifecycle.** That observed states settle and seeds go needs
  fairness of the polls over the whole of `Lifecycle`, which is past what TLC
  finishes here; `Converges` is the one liveness property that is checked.
* **Contents of disks**: a copy of a disk that is being written
  (`copy.rs:56`) cannot be told from a good one.
* A few behaviours the models have and no property forbids, because no text of
  the repository promises otherwise: a create whose answer was lost leaves a
  domain without a row (`new.rs:168`); a first boot's end redefines from an older
  row (`poller.rs:109`); a crash between the two certificate files makes every
  later start fail (`tlscert/src/lib.rs:451`), as does one inside `ensure_key`
  (`keys.rs:42`); a second process that migrates at the same time fails, without
  harm to the rows (`migrate.rs:114`); `choose_host` weighs free storage where
  the insert weighs reserved storage (`runners.rs:1207`); guest output after the
  exit status is dropped (`session.rs:613`); a start and a stop that cross may
  leave an instance running that is to be stopped (`actions.rs:27`).

### Where the models and the text differ

The properties are stated so that they hold of the code. In these places the
text says more, the model has the behaviour, and the comment of the property
named says what is excepted.

* Firewall (`PolicyIsolates`). A slot without an owner, on the move, or whose owner
  has no underlay address is taken by each machine for its own, and packets with
  its addresses are accepted there, against MULTI-NODE.md:518-520. A machine that
  owns no slot writes an empty set, which nft refuses, so that it loads no table.
  The output chain has no rule for replies, so that the answers to pings and to
  requests on ports 80 and 443, which the input chain lets in, are dropped.
* Leases (`StartsAsOne`). The renewal ends with the cancellation while handlers
  still finish, so a handler may be at work when its lease has run out or another
  `serve` has it. The fence is what keeps that apart (`dispatch`).
* Sign-out (`NoProbeAfterLogout`). A page that was sent before the answer to a
  sign-out may be answered by a probe, which signs the visitor in again without
  the "deliberate click" of `session.rs:130`.
* Shares (`SurfacesAgree`). After an `unshare` was answered, calls of that user that
  were let through before it are still made, a copy of the disk among them.
* Web terminal (`EndsAfterOutput`). A page that types after the session has
  ended makes the write fail, and the session ends without the rest of the output
  and without the close frame (`terminal.rs:127`), which is otherwise sent behind
  them (`terminal.rs:142`).
* Configuration (`ConfigServes`, `HostServes`). The https address is not validated.
  An accepted file may name a text that cannot be bound, a port of the proxy's
  high range (then `build` refuses it) or the control plane's port, and `:443`
  leaves the host to the resolver; the http port may be 0, and the proxy then
  dials port 0. A `ksm/run` of 2 passes as 1 does (`check.rs`).
* Placement (`PlacementSound`). With at most one host placeable `place` returns this
  machine (`new.rs:192`), whether or not it is that one. The monitor's reason
  (`fleet.rs:271`) is none for a machine that `choose_host` passes over for want of
  an active slot, of room or of the architecture.
