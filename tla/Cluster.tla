------------------------------ MODULE Cluster -------------------------------
(***************************************************************************)
(* A cluster (boxcar-cluster/src/lib.rs): servers that register and then   *)
(* listen, and clients that look instances up, connect to them and call.   *)
(* Service discovery is what Registry says it is; a server executes an RPC *)
(* or refuses it, or its executor never gets to it.                        *)
(*                                                                         *)
(* A connection is known by the instance at its other end.  That need not  *)
(* be the instance it was made for, since an address can pass from one     *)
(* process to the next.                                                    *)
(***************************************************************************)
EXTENDS Registry, Placement, FiniteSets

CONSTANTS
  Addresses,   \* what servers may be bound to
  Callers,     \* clients of the cluster
  Requests,    \* what requests may ask for
  MaxRpcs      \* bound on the RPCs of a server

ASSUME MaxRpcsAssumption == MaxRpcs \in Nat

\* Both are maps from names of resources to unsigned integers.
ASSUME ResourcesAssumption ==
  \A f \in Requests \cup Resources : IsFiniteSet(DOMAIN f) /\ f \in [DOMAIN f -> Nat]

VARIABLES
  address,     \* instance -> the address its server is to be bound to
  node,        \* instance -> its process, and its listener
  rpcs,        \* instance -> number of RPCs it has executed, the last slot given
  clients,     \* caller -> id of an instance -> the connection made for it
  lost,        \* connections the network has lost
  caller,      \* caller -> where its call is
  results      \* caller -> what its calls returned, and the instance that ran the RPC

clusterVars == <<address, node, rpcs, clients, lost, caller, results>>
vars == <<registryVars, clusterVars>>

NodeStates == {"new", "binding", "listening", "failed", "crashed"}
CallerPcs  == {"idle", "connecting", "calling", "replied"}
Resting    == [pc |-> "idle", id |-> "none", slot |-> 0]

Init ==
  /\ RegistryInit
  /\ address \in [Instances -> Addresses]
  /\ node    = [i \in Instances |-> "new"]
  /\ rpcs    = [i \in Instances |-> 0]
  /\ clients = [c \in Callers |-> [i \in {} |-> 0]]
  /\ lost    = {}
  /\ caller  = [c \in Callers |-> Resting]
  /\ results = [c \in Callers |-> {}]

NodeAt(i, state) == node' = [node EXCEPT ![i] = state]
At(c, pc)        == caller' = [caller EXCEPT ![c].pc = pc]
Rest(c)          == caller' = [caller EXCEPT ![c] = Resting]

----------------------------------------------------------------------------
(* Servers.                                                                *)

Alive(i) == node[i] \in {"binding", "listening", "failed"}

\* serve registers the instance before the server binds.
Serve(i) ==
  /\ node[i] = "new"
  /\ \E r \in Resources : Put(i, r)
  /\ NodeAt(i, "binding")
  /\ UNCHANGED <<address, rpcs, clients, lost, caller, results>>

\* Server::serve binds a listener, for every connection anew.
Bind(i) ==
  /\ node[i] = "binding"
  /\ \A j \in Instances : address[j] = address[i] => node[j] # "listening"
  /\ NodeAt(i, "listening")
  /\ UNCHANGED <<registryVars, address, rpcs, clients, lost, caller, results>>

\* Another process has the address: serve returns, and the updater keeps the
\* registration.  Connections that were accepted are served on.
BindFails(i) ==
  /\ node[i] = "binding"
  /\ \E j \in Instances : address[j] = address[i] /\ node[j] = "listening"
  /\ NodeAt(i, "failed")
  /\ UNCHANGED <<registryVars, address, rpcs, clients, lost, caller, results>>

\* lease_metadata_updater.
Republish(i) ==
  /\ Alive(i) /\ i \in Listed
  /\ \E r \in Resources : Put(i, r)
  /\ UNCHANGED clusterVars

Crash(i) ==
  /\ Alive(i)
  /\ NodeAt(i, "crashed")
  /\ UNCHANGED <<registryVars, address, rpcs, clients, lost, caller, results>>

Lapse(i) ==
  /\ i \in Listed
  /\ Leave({i})
  /\ UNCHANGED clusterVars

----------------------------------------------------------------------------
(* call.                                                                   *)

\* Mutated: a cached connection that was lost is made again.
LookupReconnects(c) ==
  /\ caller[c].pc = "idle"
  /\ \E req \in Requests : \E i \in Targets(req, published) :
       caller' = [caller EXCEPT ![c] =
         [pc |-> IF i \in DOMAIN clients[c] /\ <<c, i>> \notin lost THEN "calling" ELSE "connecting",
          id |-> i, slot |-> 0]]
  /\ UNCHANGED <<registryVars, address, node, rpcs, clients, lost, results>>

\* The instances in the registry are filtered and sorted.  A connection for the one
\* in front may be cached.  When nothing matches, call fails at once.
Lookup(c) ==
  /\ caller[c].pc = "idle"
  /\ \E req \in Requests : \E i \in Targets(req, published) :
       caller' = [caller EXCEPT ![c] =
         [pc |-> IF i \in DOMAIN clients[c] THEN "calling" ELSE "connecting",
          id |-> i, slot |-> 0]]
  /\ UNCHANGED <<registryVars, address, node, rpcs, clients, lost, results>>

Reaches(c, i) == address[i] = address[caller[c].id] /\ node[i] = "listening"

\* Mutated: the connection is not cached.
ConnectUncached(c) ==
  /\ caller[c].pc = "connecting"
  /\ \E i \in Instances : Reaches(c, i) /\ NodeAt(i, "binding")
  /\ At(c, "calling")
  /\ UNCHANGED <<registryVars, address, rpcs, clients, lost, results>>

\* The connection is made, with whoever listens at the address, and cached.
Connect(c) ==
  /\ caller[c].pc = "connecting"
  /\ \E i \in Instances :
       /\ Reaches(c, i)
       /\ clients' = [clients EXCEPT ![c] =
            [d \in DOMAIN @ \cup {caller[c].id} |-> IF d = caller[c].id THEN i ELSE @[d]]]
       /\ NodeAt(i, "binding")
  /\ At(c, "calling")
  /\ UNCHANGED <<registryVars, address, rpcs, lost, results>>

\* Mutated: connect is tried again until somebody listens.
ConnectWaits(c) ==
  /\ caller[c].pc = "connecting"
  /\ \A i \in Instances : ~Reaches(c, i)
  /\ UNCHANGED vars

\* Nobody listens: call fails.  "TODO move onto the next target if this fails."
ConnectFails(c) ==
  /\ caller[c].pc = "connecting"
  /\ \A i \in Instances : ~Reaches(c, i)
  /\ Rest(c)
  /\ UNCHANGED <<registryVars, address, node, rpcs, clients, lost, results>>

\* The instance at the other end of the connection that the call uses.
Server(c) == clients[c][caller[c].id]

Connected(c) == Alive(Server(c)) /\ <<c, caller[c].id>> \notin lost

\* The server executes the RPC.  The executor may make it wait, or panic over it: the
\* reply may take any time.
Execute(c) ==
  /\ caller[c].pc = "calling"
  /\ Connected(c)
  /\ rpcs[Server(c)] < MaxRpcs
  /\ rpcs' = [rpcs EXCEPT ![Server(c)] = @ + 1]
  /\ caller' = [caller EXCEPT ![c] = [@ EXCEPT !.pc = "replied", !.slot = rpcs[Server(c)] + 1]]
  /\ UNCHANGED <<registryVars, address, node, clients, lost, results>>

\* It refuses, for want of resources or of a handler: call fails.
Refuse(c) ==
  /\ caller[c].pc = "calling"
  /\ Connected(c)
  /\ Rest(c)
  /\ UNCHANGED <<registryVars, address, node, rpcs, clients, lost, results>>

\* The reply comes, and call returns the id and the slot; or a result overtakes the
\* reply, and it fails.
Return(c) ==
  /\ caller[c].pc = "replied"
  /\ <<c, caller[c].id>> \notin lost
  /\ \/ results' = [results EXCEPT ![c] =
            @ \cup {[id |-> caller[c].id, slot |-> caller[c].slot, server |-> Server(c)]}]
     \/ UNCHANGED results
  /\ Rest(c)
  /\ UNCHANGED <<registryVars, address, node, rpcs, clients, lost>>

\* A request that nobody will see the reply to may be executed all the same.
Unseen(c) ==
  \/ UNCHANGED rpcs
  \/ /\ caller[c].pc = "calling" /\ Connected(c) /\ rpcs[Server(c)] < MaxRpcs
     /\ rpcs' = [rpcs EXCEPT ![Server(c)] = @ + 1]

\* The user stops waiting: call has no timeout of its own.
Abandon(c) ==
  /\ caller[c].pc # "idle"
  /\ Unseen(c)
  /\ Rest(c)
  /\ UNCHANGED <<registryVars, address, node, clients, lost, results>>

\* The network loses a connection, which stays in the cache.
Lose(c, i) ==
  /\ i \in DOMAIN clients[c]
  /\ <<c, i>> \notin lost
  /\ lost' = lost \cup {<<c, i>>}
  /\ IF caller[c].id = i THEN Unseen(c) ELSE UNCHANGED rpcs
  /\ UNCHANGED <<registryVars, address, node, clients, caller, results>>

\* Where recv of a slot of instance i looks: without a cached connection it gives
\* connect an address that lacks "ws://", and fails.
recv(c, i) == {clients[c][j] : j \in {i} \cap DOMAIN clients[c]}

----------------------------------------------------------------------------
\* What the client does for a call; servers answer when they do.
CallStep(c) == Connect(c) \/ ConnectFails(c) \/ Return(c)

Next ==
  \/ \E i \in Instances :
       Serve(i) \/ Bind(i) \/ BindFails(i) \/ Republish(i) \/ Crash(i) \/ Lapse(i)
  \/ \E c \in Callers :
       \/ Lookup(c) \/ CallStep(c) \/ Execute(c) \/ Refuse(c) \/ Abandon(c)
       \/ \E i \in Instances : Lose(c, i)

Spec == Init /\ [][Next]_vars /\ \A c \in Callers : WF_vars(CallStep(c))

----------------------------------------------------------------------------
TypeOK ==
  /\ published \in [Listed -> Resources] /\ Listed \subseteq Instances /\ gone \subseteq Instances
  /\ address \in [Instances -> Addresses] /\ node \in [Instances -> NodeStates]
  /\ rpcs \in [Instances -> 0 .. MaxRpcs]
  /\ clients \in [Callers -> UNION {[set -> Instances] : set \in SUBSET Instances}]
  /\ lost \subseteq {x \in Callers \X Instances : x[2] \in DOMAIN clients[x[1]]}
  /\ caller \in [Callers -> [pc : CallerPcs, id : Instances \cup {"none"}, slot : 0 .. MaxRpcs]]
  /\ results \in [Callers -> SUBSET [id : Instances, slot : 0 .. MaxRpcs, server : Instances]]
  /\ \A c \in Callers :
       /\ caller[c].pc \in {"calling", "replied"} => caller[c].id \in DOMAIN clients[c]
       /\ caller[c].pc = "connecting" => caller[c].id \in Instances \ DOMAIN clients[c]

\* SlotFollowsCall: a slot is received from the server that ran its RPC, also when
\* the instance it was called on was replaced at its address in the meantime.
SlotFollowsCall ==
  \A c \in Callers : \A r \in results[c] : recv(c, r.id) = {r.server}

\* SparsestCalled: the instance called is the one that the request uses least, as
\* published, up to the percent that sort_targets cuts off and what it rounds.  That
\* is the "sparsely packed" end of the order, although dense_pack is always set.
SparsestCalled ==
  \A req \in Requests : \A i \in Targets(req, published) : Sparsest(req, published, i)

\* CallsEnd: a call ends, unless the server that it has reached never answers it, or
\* ends, or the connection does; though servers come, go and take over each other's
\* address.
CallsEnd ==
  \A c \in Callers :
    caller[c].pc # "idle" ~>
      \/ caller[c].pc = "idle"
      \/ caller[c].pc \in {"calling", "replied"} /\ ~Connected(c)
      \/ [](caller[c].pc = "calling")
=============================================================================
