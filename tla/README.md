# A TLA+ model of boxcar

This directory holds TLA+ modules that model boxcar, TLC configurations that
check them on small instances, and TLAPS proofs of theorems about them.
`PROJECT.json` maps every definition to the lines it stands for and lists the
runs, the mutants, the hazards, the findings and the theorems.

    tlc -config executor.cfg MCExecutor.tla      # one run
    tlapm ExecutorProofs.tla                     # one proof module

## The system

boxcar-rpc executes RPCs on a server, apart from the connections of the clients
that asked for them. boxcar-cluster groups servers and finds them through etcd.

| component | state | operations | interacts with |
|---|---|---|---|
| **resource manager** `boxcar-rpc/src/rcm.rs` | one lake (a free amount) per resource; claims | `add`, `consume`, `Claim::release`, `Drop` of `Claim` | `message_handler` consumes; the claims travel in the handler's `BusWrapper` |
| **executor** `executor.rs` | slots, handlers, tasks (each behind an RwLock), the broadcast bus | `add_handler`, `execute_task`, `BusWrapper::send`, the spawned closure, the bus reader | connections call it and listen to its bus; handlers report on the bus |
| **server connections** `server.rs` | per connection: subscriptions (s_slot to c_slot), an outbox of size one | read a request, handle it, relay reports, flush the outbox | one task per request, a relay task and an outbox task share subscriptions and outbox |
| **client** `client.rs` | inbox (c_slot to queue), slot_map (s_slot to c_slot), an outbox of size one | `call`, `subscribe`, `refresh`, `recv`, `recv_result`, `try_recv`, `close`, `Drop` of `CSlot` | clones of a client share all of it; two tasks between it and the socket |
| **wire** `lib.rs` | `WireMessage`, `BoxcarMessage` | | websocket, in order both ways |
| **service discovery** `etcdsvc.rs/src/lib.rs` | registrations in etcd under a lease, handles | `register`, `update`, keep-alive, `deregister`, `lookup`, `query` | etcd |
| **cluster** `boxcar-cluster/src/lib.rs` | a service's handle and updater; a client's cached connections | `serve`, the updater, `call`, `recv`, filter and sort of targets | registers its server's free resources with discovery; looks targets up there and calls them with boxcar-rpc clients |
| utils, boxcar-grpc, boxcar-proto | none | encoding; empty crates | |

What is hard in it, and what makes each component correct:

* *resource manager*: claims of concurrent requests on several lakes, refusals
  halfway, permissive claims on resources that are added later. Units are
  neither lost nor created; a request runs only when fully provisioned.
* *executor*: the bus reader takes two locks for each message while handlers
  hold one of them for as long as they run; the bus overruns slow receivers.
  A slot belongs to one RPC, a task ends up with the last report of its own slot,
  and calls and queries are answered.
* *connections*: request tasks, relay and outbox share a map and a channel of
  size one, with a guard held over an await; the executor may keep a request
  waiting, or panic over it. Every other request gets one answer, on
  its own c_slot; reports of a subscribed slot arrive, in order.
* *client*: numbers of three kinds in one `u16` space, queues shared by clones,
  drops that spawn tasks, a close that aborts tasks. A user waiting for an
  answer finds it in its own queue.
* *discovery*: keep-alives that race the lease, a handle that is dropped while
  one is under way, requests to etcd that are lost or refused halfway. What is
  kept alive stays listed, what is over goes in time and does not come back.
* *cluster*: a registration that precedes the listener and outlives it, resources
  published a while ago, addresses that pass from process to process, connections
  cached for ever. A slot is received where its RPC ran, and calls end when the
  server that was reached answers.

## Modules

| module | models | state and actions |
|---|---|---|
| `Rcm` | rcm.rs with the admission loop of `message_handler` | `lake`, each request's `need` and `claims`. One turn of the loop is `Consume` or `Refuse`; a claim goes by `DropClaim` or `Release` |
| `RwLock` (external) | tokio's fair RwLock | operators on a lock: `QueueRead`, `QueueWrite`, `Granted`, `Leave` |
| `Broadcast` (external) | tokio's broadcast channel | operators on a log and a position: `Receivable`, `Lagged`, `Oldest` |
| `Executor` | executor.rs and `handle_rpc_req_result` | an action ends where the code awaits a lock or a message; a wait for a lock is a place in its queue |
| `Tasks` | what the executor promises the rest of the server | `phase`, `sent`, `log`, `recorded` |
| `Wire` | lib.rs and the websocket (external) | `link`, `toServer`, `toClient` |
| `Connection` | server.rs, with what `execute_task` may do to a request | `slots` (how many are assigned), `subscribed`, `work` (the request tasks), `relay`, `outbox` |
| `Client` | client.rs | `inbox`, `slot_map`, `outgoing`, `drops`, `user` |
| `Rpc` | clients and a server: `Client` and `Connection` over `Wire` | |
| `Registry` | what discovery promises those who look up | `published`, `gone`: `Put`, `Leave` |
| `Discovery` | etcdsvc.rs, with etcd's leases (external) and a clock | `handle`, `enabled`, `keeper`; `lease`, `key`. An action ends where the code waits for etcd or sleeps |
| `Service` | serve's registration and `lease_metadata_updater`, and other users of a handle: over `Discovery` | `updater`, `free` (what the server's resource manager has); `ended` and `since` measure times for the properties |
| `Placement` | `filter_targets`, `sort_targets` and the choice in `call` | operators on registrations |
| `Cluster` | servers that register, bind, fail and crash; `call` and `recv`: over `Registry` and `Placement` | `node`, `address`, `rpcs`; `clients` (the cached connections), `caller`, `results` |
| `MCRcm`, `MCExecutor`, `MCRpc`, `MCService`, `MCCluster` | instances for TLC | |
| `RcmProofs`, `RwLockProofs`, `ExecutorProofs`, `ServiceProofs`, `ClusterProofs` | theorems and proofs | |
| `RpcProofs`, `RpcQueueProofs`, `RpcAnswerProofs` | theorems and proofs about `Rpc`, each built on the one before | |

`Executor` implements `Tasks` (property `ImplementsTasks`, with the refinement
mapping `Abstract`); `Connection` is built on `Tasks`, so that `Rpc` does not
carry the executor's locks. `Tasks` promises neither that a report is recorded
nor that an RPC ends, since the code does not; what it leaves out is
the executor's delays, about which the executor's own liveness properties speak.

In the same way `Service` (with `Discovery`) implements `Registry` (property
`ImplementsRegistry`: what is published is the keys, what is gone for good is the
instances whose lease is over), and `Cluster` is built on `Registry`, without
leases and without time: an instance may leave the registry at any moment.

How the code is read:

* Locks that nobody holds over an await are taken and released within one action.
  The ones that are held over an await are modelled: `handlers`, `tasks` and the
  lock of each task in `Executor`, the subscription map in `Connection` (the
  relay holds it while it sends, `MapFree`), `slot_map` in `Client` (close holds
  it, `MapHeld`). In `Executor` the queue of a fair lock is part of the state,
  because a waiting writer stops later readers.
* In `Connection` a request that gets through the executor's locks does so in one step
  (`Execute`, `NoHandler`, `HandleRpcReqResult`), taken when the last guard is there;
  the wait before it may last for ever (see Fairness). Which slot `assign_slot` drew
  shows when the RPC starts; before that the slots are only counted. When the draws
  find no free slot, the panic ends the request's task and nothing else: no lock is held,
  and the connection goes on. Such a task stays in `work` as `"panicked"`, so that the
  properties can tell its request from one that was lost.
* A report is the n-th message of its slot, a result the last one; bodies, method
  arguments and the text of errors are not modelled. `ResourceError` and
  `ServerError` are one `Error`: the client treats them alike.
* Handlers are external: they send any number of updates (up to `MaxUpdates`) and
  then return, panic or run on. They report only until they return; a
  `BusWrapper` that a handler leaves to another task is not modelled.
* In `Rpc` the bytes in the hands of an outbox task count as written, and a
  `Disconnect` loses all that is under way both ways. Requests that
  were read are handled all the same, and the relay lives on, as in the code.
* `Ping` and `Pong` change no state and are left out; so are `Hangup` and
  the messages a client never sends.
* A drop of a `CSlot` spawns a task that removes the CSlot's own number from
  `slot_map`, a map keyed by s_slots. `DropCSlot` does what it does: it can remove
  the entry of an unrelated slot. Numbers that no s_slot can have need no task.
* Connections of `Rpc` are ones that were accepted. A refused connection, and the
  listener that `serve` binds again for every connection, are in `Cluster`
  (`Bind`, `BindFails`, `ConnectFails`).
* In `Discovery` and `Service` time is counted in seconds. A wait counts down to
  the latest moment of a step, and `Tick` does not pass a moment at which a step is
  due (`Urgent`, `Awake`), so the program's own steps are as prompt as tokio's timers
  and no fairness is needed. A request to etcd is one step, taken when etcd does it,
  within `Latency`; the rest of its time is added to the wait that follows its
  answer. A request fails before or after etcd did it (`Unanswered`), also at a crash.
* etcd is external: a key put with a lease goes with the lease, and a put with a
  lease that is over is refused. Ids are fresh UUIDs, so that an instance is
  registered once.
* `Cluster` knows a connection by the process at its other end, which need not be
  the one it was made for. An RPC is the n-th one of its server: which slot
  number it gets, and what becomes of it there, is the subject of `Rpc`. Registrations
  are functions from some resources to amounts; the order of equals (by creation) is
  left open. `sort_targets` multiplies `f64` ratios and cuts the percentage to a `u8`.
  `get_resource_pct` is the set of numbers that this may give when the percentage is
  computed to within 1 / `Precision`: 29 of 100 may be 28 or 29. With n resources the
  relative error of the product is about (4n + 1) / 2^53, and what passes the filter
  has at most 100 percent, so a `Precision` of 1000 allows more than the code rounds.
* A call of `Cluster` that has reached a server is answered at any time or never
  (`Execute`, `Refuse`): the server's executor may stall or panic, as in `Rpc`.

## Runs

| run | shows |
|---|---|
| `rcm` | Units are conserved; requests are admitted in full and decided. |
| `rcm_release` | *Finding.* `Claim::release` returns the amount twice, so a lake exceeds what was added. |
| `executor` | Messages are of known slots, a task holds the latest message that reached the reader and is not written under its handler; results of returned handlers get recorded unless the bus overran the reader; calls and queries are answered once the handlers that have reported end; `Executor` implements `Tasks`. |
| `executor_lag` | *Finding.* A result skipped by the bus reader is never recorded. |
| `executor_stall` | *Finding.* A single handler that reports and runs on stalls all later calls and queries. |
| `rpc` | What arrives in a queue is about one slot, the one that the server subscribed it to; a waiting user has its request or its answer under way, once, or the executor has panicked over it; other callers are answered, with the relay, close and other users in between; a result comes to a subscribed client unless the bus overruns its relay. |
| `rpc_stream` | Relayed reports stay in order. With handlers that report and run on, and so stall the executor, a call waits for ever, and a request such as a refresh stays under way for ever, only while the stall lasts for ever, the executor has panicked over it or the connection is gone; a subscription waits for the relay alone. |
| `rpc_missed` | *Finding.* A subscribed call whose handler ends early never gets the result. |
| `rpc_overtaken` | *Finding.* The result can overtake the reply, and the call fails although it was accepted. |
| `rpc_close` | *Finding.* `close` aborts the task that should send its `UnSub`. |
| `service` | A registration with an active handle stays listed while keep-alives are answered; one whose handle is over is gone after one TTL and one request, though a keep-alive was under way; what the updater published is at most one interval and two requests old, unless its last put failed; leases implement `Registry`. |
| `cluster` | A slot is received from the server that ran its RPC, also when another process took over the address; the target called is the one the request uses least, as published, up to the percent that the sort cuts off and what it rounds; a call ends unless its server or connection does, or the server never answers. |

Each property of a passing run has a mutant in `PROJECT.json`: a definition
changed the way a slip in the code would change it, which TLC finds violating the
property.

### Bounds

* `rcm`: two resources, two requests, amounts 1 and 2, at most 2 added to a
  resource. Two requests can each hold what the other needs, a lake can be short
  for one or both, and a resource can be added after a permissive claim.
* `executor`: two calls on two slots, one method, one query, one update per
  handler, and a bus that keeps 1 message where the code keeps 32. With a capacity
  of one the reader is overrun by two messages; two slots are what it takes for
  one RPC to disturb another. `OutOfSlots` may happen as soon as a slot is taken:
  1026 random draws may all hit it.
* `rpc`, `rpc_stream`: one client, since connections share nothing but
  slots, two operations in all, two c_slots and two s_slots. In `rpc` two users
  (clones) are at work, and the s_slot `n2` is the number of a c_slot too, which is
  what `DropCSlot` needs to go wrong; handlers send a result only and return, so the
  executor is never stalled there. In `rpc_stream` both handlers may send an update
  and run on, for one user, and s_slots and c_slots are different numbers: a second
  call, or a refresh, is what a running handler stalls. In all of them `OutOfSlots`
  may happen as soon as a slot is assigned. The runs with a finding have one user.
* `service`: the times of the code (TTL 10, keep-alive 5, refresh 6), and 2 seconds
  for a request; 4 requests in a TTL are as slow as `TimesAssumption` lets etcd be.
  One instance: instances share nothing but etcd, where each has its own key and
  lease. Of two values of resources one is always what the server does not
  have, and what matters of it is its age. `ended` and `since` stop just
  beyond the bounds they are compared with.
* `cluster`: two instances at two addresses or at one, as after a restart, one
  client with any number of calls, one RPC per server. The registrations lack a
  resource, fit a request exactly, or differ by less than a percent of it; 29 of 100 is
  a whole number of percents that rounding may miss.

Deadlock is checked for the executor, where `Idle` stands for a server that
waits for work, and for `service`, where a step that is due and cannot be taken
would stop time. It is not for `Rcm`, `Rpc` and `Cluster`: requests, operations and
instances are bounded there, so the system may come to rest; their liveness
properties say what must not stop before.

### Fairness

Weak fairness for every step that a task of the program takes by itself:
tokio polls every task that can go on, and its RwLock and mpsc queues are fair.
In `Rpc` the request tasks of a connection share one condition, which is enough
since each of their steps is made a bounded number of times.
Nothing is assumed of users, of `add`, of the network, or of handlers, except in
`EndingSpec`, where handlers that have reported return or panic in the end:
`executor_stall` shows that `Answered` fails without it.

A request task of `Rpc` does most by itself (`OwnStep`). Where it follows a wait for the
executor's locks (`ExecutorStep`) it is fair only while no handler that has reported runs
(`Stalled`), since a stalled executor may let nobody through. `Answered`
under `EndingSpec` justifies this: calls and queries get through once those handlers
have ended. `CallsReturn` and `RequestsHandled` accordingly except
what waits while a stall lasts for ever.

In `Cluster` a call goes on by itself (`CallStep`): its connection is refused or made, and
a reply that comes is taken. Servers that reply (`Execute`, `Refuse`), users, processes and
the network are free, and `CallsEnd` lets a call wait for a server that never answers.
`Service` states no fairness: its bounds on
time are safety properties.

## Proofs

The theorems hold for every value of the constants that satisfies the named
assumptions: `AmountsAssumption`, `MaxAddedAssumption` and `ResourcesAssumption`
in `Rcm`, `CapacityAssumption`, `MaxUpdatesAssumption` and `MethodsAssumption`
in `Executor`, `TimesAssumption` in `Discovery` (a keep-alive interval and two
requests, and four requests, take less than a TTL), `IntervalAssumption` in
`Service`, `MaxRpcsAssumption` and `ResourcesAssumption` in `Cluster` (requests and
registrations are finite maps to unsigned integers), `PrecisionAssumption` in
`Placement`. Those of `Rpc` hold for any number of
clients, users, c_slots and s_slots, the two kinds of slots overlapping or not; they
use none of the bounds `MaxUpdates`, `MaxOps` and `Capacity`.

* `RcmProofs`. `TypeCorrect` needs to know that what a request holds are
  claims. `ConservationHolds` rests on `LakeInv`: claims on a lake are of registered
  resources, a resource without a lake has had nothing added or overpaid, and
  each lake balances. The balance counts *units*, pairs of a claim and a number,
  because a sum over requests would need induction; claiming adds a
  disjoint set of units and dropping removes one, so the library's facts on
  cardinality suffice. `AdmittedInFull` rests on `ClaimsAnswerNeeds`: a request's
  claims are of exactly the amounts it needs, one per resource, so that the
  comparison of lengths in the code covers all resources.
* `RwLockProofs`. In a lock where any two actors know who was first
  (`FirstComeFirstServed`), a granted guard stays granted whoever queues or
  leaves (`GrantedStays`), and a writer that is let in is alone (`WriterAlone`).
* `ExecutorProofs`. `TypeCorrect` rests on `WellTyped`, the type invariant with
  the fact that calls under way have slots. `SlotsAreKnown` and `LastIsRecorded`
  rest on `TableInv`: slots are given once and only tasks in the table
  have a closure (`SlotsOnce`), each slot's messages are numbered in the order of
  the log (`LogSound`), what the reader holds is the message before its position
  (`BusSound`), and `LastRecorded` itself. `ShieldedByHandler` rests in addition on
  `TaskPlaces`: in the lock of a task the handler's read guard has nobody ahead
  who writes, and is ahead of the bus reader, if the reader is there at all, as
  long as the handler runs. `WriterAlone` is the same argument for one lock.
  `ExecutorImplementsTasks` is a step simulation over `TableInv`: an insert is an
  `Accept`, what a closure does is a report, a death or nothing, a record is of a
  later message than the one recorded (`LogSound`, `BusSound`), and the steps on locks
  stutter.

* `ServiceProofs`. All properties of `service`, for any number of instances and any
  times. The invariant `IInv` has four parts beside the types. `Life` says what a handle
  that is somewhere has: a lease, a keeper, a flag. `Kept` says that the lease
  outlasts what its next keep-alive may still take: it is what makes `StaysListed`
  inductive, and the reason for `TimesAssumption`. `Gone` says that the last
  keep-alive of a handle that is over is done within `Latency` of its end; `Fresh`
  follows a value from the peak through the put to the next peak. A step is shown
  to keep each part, then a second is. `LeasesImplementRegistry` maps each put
  that etcd does to a `Put`, and a second to a `Leave` of the leases that run out
  in it; everything else stutters.
* `ClusterProofs`. `TypeCorrect` includes that a call that is made has a
  cached connection. `SlotsFollowCalls` rests on `Followed`: what a call returned
  names the server at the other end of the connection cached for its id, which
  holds because a cached connection is never replaced. `SparsestCalls` is about products
  over the resources of a request. `Amount` is a fold, that is the choice of a function
  that satisfies an equation, so there must be one (`FoldExists`), and what it
  computes is found from smaller sets to larger ones; both inductions are for a least
  counterexample (`Least`), since the library's induction theorems are out of the
  provers' reach. `AmountPositive` then shows that the filter leaves nothing to divide by
  zero, and `PctOrder` that percentages in order, each cut off and rounded either way
  (`PctBounds`), put the products in order, up to one percent and two roundings.
* `RpcProofs`. `TypeCorrect` is inductive as it stands, with one lemma for each action:
  the type invariant says which messages may be where (`Addressed`, `WorkState`,
  `RelayState`) and that everything is for a c_slot with a queue, so that delivering
  never fails and a queue is never taken away under a user.
* `RpcQueueProofs`. The proofs look at a connection as one line, from the channel of
  the client by way of wire, tasks, hand, outbox and wire to a queue. `Total(S, k, c)`
  counts the messages of a set on that line; each action is shown once to take one
  message away and to add one, or none (`Flows`), and what invariants say of totals
  follows for all sets at once. `QueuesForOneSlot` is not inductive: a reply to a call
  brings a new name to its queue, so before it there must be no name (`CallAlone`:
  while a call is under way nothing else is, and there is only one); a subscription
  that returns maps the slot its user remembers, so the names in its queue must be
  that slot (`NameSubscribed`); and both need that two users never wait at one queue
  (`OwnQueues`). Together with `OneName`, which is the property, they are `QueuesInv`.
* `RpcAnswerProofs`. `WaitersAnsweredOnce` rests on `Answered`, for each queue where
  somebody waits: the exchange counts one on that line, where a task that has panicked
  counts as the request it keeps (so there is no answer then, `AnswersCounted`); and nobody else can take or
  disturb the answer, that is no slot is mapped to the queue (else `try_recv` and `recv`
  pop it), no user receives from it, and no refresh is under way for it (else its
  `Error` is a second answer). A refresh needs a mapped slot, and a slot is mapped
  when the waiting ends, which closes the circle. `ReportsInOrder` rests on `ReportsInv`:
  the bus has the reports of an RPC in order (`LogInOrder`); only the relay brings
  unasked reports to a client, no task does; on the way from hand to queue each
  place is in order and ahead of the places behind it (`Lined`); and the relay is past
  all reports on the way (`Relayed`), which is why the next is later than they are.
  `QueuesForOneSlot` then says that the reports in one queue are of one RPC.

Only model-checked: liveness (`Decided`, `FinalRecorded`, `Answered`,
`CallsReturn`, `RequestsHandled`, `ReportsArrive`, `CallsEnd`), which the prover does
not reach under fairness. All safety properties of the passing runs are theorems.

## Divergences without a run

* `boxcar-rpc/README.md` says that `Sub` is answered by `RpcRslt` or
  `ServerError`; the code answers `SubOpFin`.
* `boxcar-rpc/README.md:9-11` says that `RpcReq` is answered by `RpcReqSlot` or
  `ServerError`. When `assign_slot` panics (`executor.rs:114`) nobody answers, and the
  caller waits for ever with the connection up: `OneAnswer` and `CallsReturn` except it.
* The comment at `lib.rs:199` of boxcar-cluster says that forward order is "sparsely
  packed" and reverse order "Densely Packed"; `call` takes the forward order when
  `dense_pack` is set (141-145), which it always is. `SparsestCalled` is about that.
* `client.rs:75` says that a `CSlot` removes itself from the slot_map; the drop
  removes the key `c_slot` from a map keyed by s_slots (line 89).
* `client.rs:338-339` says that all updates come with the subscribing c_slot; of two
  concurrent subscribes the server keeps the first and the client the last.
* `TODO` marks un-subscribing on connection close as done; a lost connection
  keeps its relay and its subscriptions.
* `RegistrationHandle::active` ("Return if the lease is active or not") reads the
  flag, which stays true when the lease is over or the keep-alive task has ended.
* "On drop, the instance is unregistered": nothing revokes the lease or
  deletes the key, which goes when the TTL has passed (`GoneInTime`).
* `update` stores the registration before the put. When that fails, the same
  update is skipped from then on as identical, and etcd keeps the old value.
* `lookup` of a service also returns the instances of services whose names begin
  with that service's, since the prefix it asks for ends without a slash.
* `recv` of the cluster client passes `connect` an address without `ws://`: a client that did not
  make the call itself cannot receive its slot.
* `examples/client_reconnect.rs` subscribes and waits; a result that went over the bus
  before it subscribed is not sent to it.

## Not modelled

`watch`, `unsubscribe` and `ResourceManager::remove`, which are `todo!()`;
`query`, both `peak`s and `get_subscribed`, which change nothing; names of
services, key prefixes and ids; failures of etcd other than requests that are late,
refused or lost; bincode and JSON encodings (utils); the contents of bodies; tracing;
the random number generators (any free number may be drawn). boxcar-grpc and
boxcar-proto are empty crates.

## Plan

Built: all of the modules above. What is left, in this order:

1. `Rpc` with two clients that share a slot: an RPC whose client went away and
   whose result another client receives. With liveness it is beyond a few minutes
   of TLC; its safety needs a smaller client, and the theorems cover it already.
2. Handlers that leave their `BusWrapper` to a task that outlives them, and handlers
   that call their own server.
