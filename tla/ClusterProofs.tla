---------------------------- MODULE ClusterProofs ---------------------------
(***************************************************************************)
(* A slot that a call returns is received from the server that ran the     *)
(* RPC, with any number of instances, addresses and clients; and a call    *)
(* goes to the target it uses least, whatever is asked and registered.     *)
(***************************************************************************)
EXTENDS Cluster, FiniteSetTheorems, WellFoundedInduction, TLAPS

\* What a client may have cached.
Caches == UNION {[set -> Instances] : set \in SUBSET Instances}

\* A function into the instances is a cache.
LEMMA CacheType ==
  ASSUME NEW set \in SUBSET Instances, NEW f \in [set -> Instances]
  PROVE  f \in Caches
  BY DEF Caches

\* A cache is a function from some of the instances.
LEMMA CacheDomain ==
  ASSUME NEW f \in Caches
  PROVE  DOMAIN f \in SUBSET Instances /\ f \in [DOMAIN f -> Instances]
  BY DEF Caches

\* Targets are instances in the registry.
LEMMA TargetsListed ==
  ASSUME NEW req, NEW i \in Targets(req, published)
  PROVE  i \in Listed
  BY DEF Targets, Matching, Listed

----------------------------------------------------------------------------
\* A registration is written, or one leaves.
LEMMA PutType ==
  ASSUME TypeOK, NEW i \in Instances, NEW r \in Resources, Put(i, r)
  PROVE  /\ published' \in [Listed' -> Resources] /\ Listed' \subseteq Instances
         /\ gone' \subseteq Instances
  BY DEF TypeOK, Put, Write, Listed

LEMMA LeaveType ==
  ASSUME TypeOK, NEW i \in Instances, Leave({i})
  PROVE  /\ published' \in [Listed' -> Resources] /\ Listed' \subseteq Instances
         /\ gone' \subseteq Instances
  BY DEF TypeOK, Leave, Restrict, Listed

\* What servers and the registry do leaves the clients' part alone.
LEMMA ServersTyped ==
  ASSUME TypeOK, NEW i \in Instances,
         Serve(i) \/ Bind(i) \/ BindFails(i) \/ Republish(i) \/ Crash(i) \/ Lapse(i)
  PROVE  TypeOK' /\ UNCHANGED <<clients, results>>
<1>1. CASE Serve(i)
  <2>1. PICK r \in Resources : Put(i, r)
    BY <1>1 DEF Serve
  <2>2. QED
    BY <1>1, <2>1, PutType DEF TypeOK, Serve, NodeAt, NodeStates
<1>2. CASE Republish(i)
  <2>1. PICK r \in Resources : Put(i, r)
    BY <1>2 DEF Republish
  <2>2. QED
    BY <1>2, <2>1, PutType DEF TypeOK, Republish, clusterVars
<1>3. CASE Lapse(i)
  BY <1>3, LeaveType DEF TypeOK, Lapse, clusterVars
<1>4. CASE Bind(i) \/ BindFails(i) \/ Crash(i)
  BY <1>4 DEF TypeOK, Bind, BindFails, Crash, NodeAt, NodeStates, registryVars, Listed
<1>5. QED
  BY <1>1, <1>2, <1>3, <1>4

----------------------------------------------------------------------------
\* call starts with an instance from the registry.
LEMMA LookupTyped ==
  ASSUME TypeOK, NEW c \in Callers, Lookup(c)
  PROVE  TypeOK' /\ UNCHANGED <<clients, results>>
<1>0. PICK req \in Requests : \E i \in Targets(req, published) :
        caller' = [caller EXCEPT ![c] =
          [pc |-> IF i \in DOMAIN clients[c] THEN "calling" ELSE "connecting",
           id |-> i, slot |-> 0]]
  BY DEF Lookup
<1>1. PICK i \in Targets(req, published) :
        caller' = [caller EXCEPT ![c] =
          [pc |-> IF i \in DOMAIN clients[c] THEN "calling" ELSE "connecting",
           id |-> i, slot |-> 0]]
  BY <1>0
<1>2. i \in Instances
  BY TargetsListed DEF TypeOK
<1>3. caller'[c] = [pc |-> IF i \in DOMAIN clients[c] THEN "calling" ELSE "connecting",
                    id |-> i, slot |-> 0]
  BY <1>1 DEF TypeOK
<1>4. caller' \in [Callers -> [pc : CallerPcs, id : Instances \cup {"none"}, slot : 0 .. MaxRpcs]]
  BY <1>1, <1>2, <1>3, MaxRpcsAssumption DEF TypeOK, CallerPcs
<1>5. \A d \in Callers :
        /\ caller'[d].pc \in {"calling", "replied"} => caller'[d].id \in DOMAIN clients[d]
        /\ caller'[d].pc = "connecting" => caller'[d].id \in Instances \ DOMAIN clients[d]
  BY <1>1, <1>2, <1>3 DEF TypeOK
<1>6. QED
  BY <1>4, <1>5 DEF Lookup, TypeOK, registryVars, Listed

\* A connection is cached for an instance that had none.
LEMMA ConnectTyped ==
  ASSUME TypeOK, NEW c \in Callers, Connect(c)
  PROVE  /\ TypeOK' /\ UNCHANGED results
         /\ \A d \in Callers : \A i \in DOMAIN clients[d] :
              i \in DOMAIN clients'[d] /\ clients'[d][i] = clients[d][i]
<1>1. PICK i \in Instances :
        /\ clients' = [clients EXCEPT ![c] =
             [d \in DOMAIN @ \cup {caller[c].id} |-> IF d = caller[c].id THEN i ELSE @[d]]]
        /\ NodeAt(i, "binding")
  BY DEF Connect
<1> DEFINE id    == caller[c].id
           cache == [d \in DOMAIN clients[c] \cup {id} |-> IF d = id THEN i ELSE clients[c][d]]
<1>2. id \in Instances \ DOMAIN clients[c]
  BY DEF Connect, TypeOK
<1>3. /\ clients \in [Callers -> Caches]
      /\ clients' = [clients EXCEPT ![c] = cache]
  BY <1>1 DEF TypeOK, Caches
<1>4. DOMAIN clients[c] \in SUBSET Instances /\ clients[c] \in [DOMAIN clients[c] -> Instances]
  BY <1>3, CacheDomain
<1>5. cache \in Caches
  <2>1. cache \in [DOMAIN clients[c] \cup {id} -> Instances]
    BY <1>2, <1>4
  <2>2. QED
    BY <1>2, <1>4, <2>1, CacheType
<1>6. clients' \in [Callers -> Caches]
  BY <1>3, <1>5
<1>7. /\ \A d \in Callers \ {c} : clients'[d] = clients[d]
      /\ clients'[c] = cache
  BY <1>3
<1>8. \A d \in Callers : \A j \in DOMAIN clients[d] :
        j \in DOMAIN clients'[d] /\ clients'[d][j] = clients[d][j]
  BY <1>2, <1>7
<1>9. lost' \subseteq {x \in Callers \X Instances : x[2] \in DOMAIN clients'[x[1]]}
  BY <1>8 DEF Connect, TypeOK
<1>10. caller' \in [Callers -> [pc : CallerPcs, id : Instances \cup {"none"}, slot : 0 .. MaxRpcs]]
  BY DEF Connect, At, TypeOK, CallerPcs
<1>11. \A d \in Callers :
        /\ caller'[d].pc \in {"calling", "replied"} => caller'[d].id \in DOMAIN clients'[d]
        /\ caller'[d].pc = "connecting" => caller'[d].id \in Instances \ DOMAIN clients'[d]
  BY <1>7, <1>8 DEF Connect, At, TypeOK
<1>12. node' \in [Instances -> NodeStates]
  BY <1>1 DEF NodeAt, NodeStates, TypeOK
<1>13. QED
  BY <1>6, <1>8, <1>9, <1>10, <1>11, <1>12 DEF Connect, TypeOK, Caches, registryVars, Listed

\* The other steps of a call, and the network, leave the cache alone.
LEMMA RestTyped ==
  ASSUME TypeOK, NEW c \in Callers, Rest(c),
         UNCHANGED <<published, gone, address, node, clients>>,
         rpcs' \in [Instances -> 0 .. MaxRpcs],
         lost' \subseteq {x \in Callers \X Instances : x[2] \in DOMAIN clients[x[1]]},
         results' \in [Callers -> SUBSET [id : Instances, slot : 0 .. MaxRpcs, server : Instances]]
  PROVE  TypeOK'
<1>1. Resting \in [pc : CallerPcs, id : Instances \cup {"none"}, slot : 0 .. MaxRpcs]
  BY MaxRpcsAssumption DEF Resting, CallerPcs
<1>2. caller' \in [Callers -> [pc : CallerPcs, id : Instances \cup {"none"}, slot : 0 .. MaxRpcs]]
  BY <1>1 DEF Rest, TypeOK
<1>3. /\ \A d \in Callers \ {c} : caller'[d] = caller[d]
      /\ caller'[c].pc = "idle"
  BY DEF Rest, Resting, TypeOK
<1>4. QED
  BY <1>2, <1>3 DEF TypeOK, Listed

\* The server at the other end of a connection is an instance.
LEMMA ServerType ==
  ASSUME TypeOK, NEW c \in Callers, caller[c].pc \in {"calling", "replied"}
  PROVE  caller[c].id \in Instances /\ Server(c) \in Instances
<1>1. clients[c] \in Caches /\ caller[c].id \in DOMAIN clients[c]
  BY DEF TypeOK, Caches
<1>2. QED
  BY <1>1, CacheDomain DEF Server

LEMMA UnseenTyped ==
  ASSUME TypeOK, NEW c \in Callers, Unseen(c)
  PROVE  rpcs' \in [Instances -> 0 .. MaxRpcs]
  BY ServerType, MaxRpcsAssumption DEF Unseen, TypeOK

LEMMA OthersTyped ==
  ASSUME TypeOK, NEW c \in Callers,
         \/ ConnectFails(c) \/ Execute(c) \/ Refuse(c) \/ Return(c) \/ Abandon(c)
         \/ \E i \in Instances : Lose(c, i)
  PROVE  TypeOK' /\ UNCHANGED clients
<1>1. CASE ConnectFails(c) \/ Refuse(c)
  BY <1>1, RestTyped DEF TypeOK, ConnectFails, Refuse, registryVars
<1>2. CASE Execute(c)
  <2>1. Server(c) \in Instances
    BY <1>2, ServerType DEF Execute
  <2>2. /\ rpcs' \in [Instances -> 0 .. MaxRpcs]
        /\ rpcs[Server(c)] + 1 \in 0 .. MaxRpcs
    BY <1>2, <2>1, MaxRpcsAssumption DEF Execute, TypeOK
  <2>3. caller' \in [Callers -> [pc : CallerPcs, id : Instances \cup {"none"}, slot : 0 .. MaxRpcs]]
    <3>1. [caller[c] EXCEPT !.pc = "replied", !.slot = rpcs[Server(c)] + 1]
            \in [pc : CallerPcs, id : Instances \cup {"none"}, slot : 0 .. MaxRpcs]
      <4>1. /\ caller[c] \in [pc : CallerPcs, id : Instances \cup {"none"}, slot : 0 .. MaxRpcs]
            /\ "replied" \in CallerPcs
        BY DEF TypeOK, CallerPcs
      <4>2. QED
        BY <2>2, <4>1
    <3>2. QED
      BY <1>2, <3>1 DEF Execute, TypeOK
  <2>4. /\ \A d \in Callers \ {c} : caller'[d] = caller[d]
        /\ caller'[c].pc = "replied" /\ caller'[c].id = caller[c].id
    BY <1>2 DEF Execute, TypeOK
  <2>5. QED
    BY <1>2, <2>2, <2>3, <2>4 DEF Execute, TypeOK, registryVars, Listed
<1>3. CASE Return(c)
  <2>1. /\ caller[c].id \in Instances /\ Server(c) \in Instances
        /\ caller[c].slot \in 0 .. MaxRpcs
    BY <1>3, ServerType DEF Return, TypeOK
  <2>2. results' \in [Callers -> SUBSET [id : Instances, slot : 0 .. MaxRpcs, server : Instances]]
    <3> DEFINE R == [id : Instances, slot : 0 .. MaxRpcs, server : Instances]
               r == [id |-> caller[c].id, slot |-> caller[c].slot, server |-> Server(c)]
    <3>1. r \in R
      BY <2>1
    <3>2. results \in [Callers -> SUBSET R]
      BY DEF TypeOK
    <3>3. results' = [results EXCEPT ![c] = @ \cup {r}] \/ results' = results
      BY <1>3 DEF Return
    <3>4. QED
      BY <3>1, <3>2, <3>3
  <2>3. QED
    BY <1>3, <2>2, RestTyped DEF TypeOK, Return, registryVars
<1>4. CASE Abandon(c)
  BY <1>4, UnseenTyped, RestTyped DEF TypeOK, Abandon, registryVars
<1>5. CASE \E i \in Instances : Lose(c, i)
  <2>1. PICK i \in Instances : Lose(c, i)
    BY <1>5
  <2>2. rpcs' \in [Instances -> 0 .. MaxRpcs]
    BY <2>1, UnseenTyped DEF Lose, TypeOK
  <2>3. QED
    BY <2>1, <2>2 DEF Lose, TypeOK, registryVars, Listed
<1>6. QED
  BY <1>1, <1>2, <1>3, <1>4, <1>5

----------------------------------------------------------------------------
LEMMA InitTyped == Init => TypeOK
<1> SUFFICES ASSUME Init
             PROVE  TypeOK
  OBVIOUS
<1>1. clients \in [Callers -> Caches]
  <2>1. [i \in {} |-> 0] \in [{} -> Instances]
    OBVIOUS
  <2>2. [i \in {} |-> 0] \in Caches
    BY <2>1, CacheType
  <2>3. QED
    BY <2>2 DEF Init
<1>2. caller \in [Callers -> [pc : CallerPcs, id : Instances \cup {"none"}, slot : 0 .. MaxRpcs]]
  BY MaxRpcsAssumption DEF Init, Resting, CallerPcs
<1>3. published \in [Listed -> Resources] /\ Listed \subseteq Instances
  BY DEF Init, RegistryInit, Listed
<1>4. \A c \in Callers : caller[c].pc = "idle"
  BY DEF Init, Resting
<1>5. rpcs \in [Instances -> 0 .. MaxRpcs]
  BY MaxRpcsAssumption DEF Init
<1>6. /\ lost = {} /\ gone = {}
      /\ address \in [Instances -> Addresses] /\ node \in [Instances -> NodeStates]
  BY DEF Init, RegistryInit, NodeStates
<1>7. results \in [Callers -> SUBSET [id : Instances, slot : 0 .. MaxRpcs, server : Instances]]
  BY DEF Init
<1>8. QED
  BY <1>1, <1>2, <1>3, <1>4, <1>5, <1>6, <1>7 DEF TypeOK, Caches

LEMMA NextTyped == TypeOK /\ [Next]_vars => TypeOK'
<1> SUFFICES ASSUME TypeOK, [Next]_vars
             PROVE  TypeOK'
  OBVIOUS
<1>1. CASE \E i \in Instances :
        Serve(i) \/ Bind(i) \/ BindFails(i) \/ Republish(i) \/ Crash(i) \/ Lapse(i)
  BY <1>1, ServersTyped
<1>2. CASE \E c \in Callers : Lookup(c) \/ Connect(c)
  BY <1>2, LookupTyped, ConnectTyped
<1>3. CASE \E c \in Callers :
        \/ ConnectFails(c) \/ Execute(c) \/ Refuse(c) \/ Return(c) \/ Abandon(c)
        \/ \E i \in Instances : Lose(c, i)
  BY <1>3, OthersTyped
<1>4. CASE UNCHANGED vars
  BY <1>4 DEF TypeOK, vars, registryVars, clusterVars, Listed
<1>5. QED
  BY <1>1, <1>2, <1>3, <1>4 DEF Next, CallStep

\* TypeCorrect: the state of a cluster is well typed, and a call that is made has a
\* connection.
THEOREM TypeCorrect == Spec => []TypeOK
<1>1. QED
  BY InitTyped, NextTyped, PTL DEF Spec

----------------------------------------------------------------------------
\* What a call returned names the server that the cached connection leads to.
Followed ==
  \A c \in Callers : \A r \in results[c] :
    r.id \in DOMAIN clients[c] /\ clients[c][r.id] = r.server

LEMMA FollowedStep == TypeOK /\ Followed /\ [Next]_vars => Followed'
<1> SUFFICES ASSUME TypeOK, Followed, [Next]_vars
             PROVE  Followed'
  OBVIOUS
<1>1. CASE UNCHANGED <<clients, results>>
  BY <1>1 DEF Followed
<1>2. CASE \E c \in Callers : Connect(c)
  BY <1>2, ConnectTyped DEF Followed
<1>3. CASE \E c \in Callers : Return(c)
  <2>1. PICK c \in Callers : Return(c)
    BY <1>3
  <2>2. clients' = clients /\ caller[c].id \in DOMAIN clients[c]
    BY <2>1 DEF Return, TypeOK
  <2>3. \A d \in Callers : \A r \in results'[d] :
          \/ r \in results[d]
          \/ d = c /\ r.id = caller[c].id /\ r.server = clients[c][caller[c].id]
    BY <2>1 DEF Return, Server, TypeOK
  <2>4. QED
    BY <2>2, <2>3 DEF Followed
<1>4. CASE \E c \in Callers :
        \/ Lookup(c) \/ ConnectFails(c) \/ Execute(c) \/ Refuse(c) \/ Abandon(c)
        \/ \E i \in Instances : Lose(c, i)
  BY <1>1, <1>4 DEF Lookup, ConnectFails, Execute, Refuse, Abandon, Lose
<1>5. CASE \E i \in Instances :
        Serve(i) \/ Bind(i) \/ BindFails(i) \/ Republish(i) \/ Crash(i) \/ Lapse(i)
  BY <1>1, <1>5, ServersTyped
<1>6. CASE UNCHANGED vars
  BY <1>1, <1>6 DEF vars, clusterVars
<1>7. QED
  BY <1>2, <1>3, <1>4, <1>5, <1>6 DEF Next, CallStep

\* SlotsFollowCalls: whatever becomes of an instance, and whoever takes over its
\* address, its slots are received where their RPCs ran.
THEOREM SlotsFollowCalls == Spec => []SlotFollowsCall
<1>1. Init => Followed
  BY DEF Init, Followed
<1>2. Followed => SlotFollowsCall
  BY DEF Followed, SlotFollowsCall, recv
<1>3. QED
  BY <1>1, <1>2, InitTyped, NextTyped, FollowedStep, PTL DEF Spec

----------------------------------------------------------------------------
(* The target of a call.                                                   *)

\* A set of numbers has a least one: induction in terms of sets.
LEMMA Least ==
  ASSUME NEW S \in SUBSET Nat, S # {}
  PROVE  \E m \in S : \A n \in S : m <= n
<1> DEFINE R == OpToRel(<, Nat)
<1>1. \A n, m \in Nat : n < m => <<n, m>> \in R
  BY DEF OpToRel
<1>2. IsWellFoundedOn(R, Nat)
  BY NatLessThanWellFounded
<1> HIDE DEF R
<1>3. PICK m \in S : \A n \in S : ~(<<n, m>> \in R)
  BY <1>2, WFMin
<1>4. ASSUME NEW n \in S PROVE m <= n
  <2>1. n \in Nat /\ m \in Nat /\ ~(n < m)
    BY <1>1, <1>3
  <2>2. QED
    BY <2>1
<1>5. QED
  BY <1>4

----------------------------------------------------------------------------
(* Amount folds a product over the resources.  The folds of the subsets    *)
(* are one function, which exists because a set of factors is finite.      *)

\* The factor that the fold takes out of a set, and the fold of the set by the folds of its subsets.
Taken(s)      == CHOOSE r \in s : TRUE
Step(f, g, s) == IF s = {} THEN 1 ELSE f[Taken(s)] * g[s \ {Taken(s)}]
IsFold(f, g)  == g = [s \in SUBSET DOMAIN f |-> Step(f, g, s)]

\* If any function folds f, the one that Amount chooses does.
LEMMA AmountUnfolds ==
  ASSUME NEW f, NEW g, IsFold(f, g)
  PROVE  \E h : IsFold(f, h) /\ Amount(f) = h[DOMAIN f]
<1> DEFINE h == CHOOSE iter : iter = [s \in SUBSET DOMAIN f |->
                   IF s = {} THEN 1 ELSE f[CHOOSE r \in s : TRUE] * iter[s \ {CHOOSE r \in s : TRUE}]]
<1>1. Amount(f) = h[DOMAIN f]
  BY DEF Amount, FoldFunction, FoldFunctionOnSet, MapThenFoldSet
<1>2. h = [s \in SUBSET DOMAIN f |->
             IF s = {} THEN 1 ELSE f[CHOOSE r \in s : TRUE] * h[s \ {CHOOSE r \in s : TRUE}]]
  BY Zenon DEF IsFold, Step, Taken
<1> HIDE DEF h
<1>3. IsFold(f, h)
  BY <1>2 DEF IsFold, Step, Taken
<1>4. QED
  BY <1>1, <1>3

\* Finitely many amounts.
Amounts(f) == IsFiniteSet(DOMAIN f) /\ f \in [DOMAIN f -> Nat]

\* Without the factor taken there is one less.
LEMMA Removed ==
  ASSUME NEW f, Amounts(f), NEW s \in SUBSET DOMAIN f
  PROVE  /\ IsFiniteSet(s) /\ Cardinality(s) \in Nat
         /\ Cardinality(s) <= Cardinality(DOMAIN f) /\ Cardinality(DOMAIN f) \in Nat
         /\ s # {} => /\ Taken(s) \in s /\ f[Taken(s)] \in Nat
                      /\ s \ {Taken(s)} \in SUBSET DOMAIN f
                      /\ Cardinality(s \ {Taken(s)}) = Cardinality(s) - 1
                      /\ Cardinality(s) > 0
<1>1. IsFiniteSet(s) /\ Cardinality(s) <= Cardinality(DOMAIN f)
  BY FS_Subset DEF Amounts
<1>2. Cardinality(s) \in Nat /\ Cardinality(DOMAIN f) \in Nat
  BY <1>1, FS_CardinalityType DEF Amounts
<1>3. ASSUME s # {}
      PROVE  /\ Taken(s) \in s /\ f[Taken(s)] \in Nat
             /\ s \ {Taken(s)} \in SUBSET DOMAIN f
             /\ Cardinality(s \ {Taken(s)}) = Cardinality(s) - 1
             /\ Cardinality(s) > 0
  <2>1. Taken(s) \in s
    BY <1>3 DEF Taken
  <2>2. f[Taken(s)] \in Nat /\ s \ {Taken(s)} \in SUBSET DOMAIN f
    BY <2>1 DEF Amounts
  <2>3. Cardinality(s \ {Taken(s)}) = Cardinality(s) - 1
    BY <1>1, <2>1, FS_RemoveElement
  <2>4. Cardinality(s \ {Taken(s)}) \in Nat
    BY <1>1, FS_RemoveElement, FS_CardinalityType, FS_Subset
  <2>5. QED
    BY <1>2, <2>1, <2>2, <2>3, <2>4
<1>4. QED
  BY <1>1, <1>2, <1>3

\* A function folds f up to n when it does so for the sets of at most n factors.
FoldsUpTo(f, g, n) ==
  /\ DOMAIN g = SUBSET DOMAIN f
  /\ \A s \in SUBSET DOMAIN f : Cardinality(s) <= n => g[s] = Step(f, g, s)

\* From folds up to n - 1, one step folds up to n.
LEMMA FoldExists ==
  ASSUME NEW f, Amounts(f)
  PROVE  \E g : IsFold(f, g)
<1> DEFINE Bad == {n \in Nat : ~ \E g : FoldsUpTo(f, g, n)}
<1>1. Bad = {}
  <2> SUFFICES ASSUME Bad # {} PROVE FALSE
    OBVIOUS
  <2>1. PICK m \in Bad : \A n \in Bad : m <= n
    <3>1. Bad \in SUBSET Nat
      OBVIOUS
    <3> HIDE DEF Bad
    <3>2. QED
      BY <3>1, Least
  <2>2. m \in Nat /\ ~ \E g : FoldsUpTo(f, g, m)
    OBVIOUS
  <2>3. CASE m = 0
    <3> DEFINE g == [s \in SUBSET DOMAIN f |-> 1]
    <3>1. ASSUME NEW s \in SUBSET DOMAIN f, Cardinality(s) <= 0 PROVE s = {}
      <4>1. Cardinality(s) \in Nat /\ (s # {} => Cardinality(s) > 0)
        BY Removed
      <4>2. QED
        BY <3>1, <4>1
    <3>2. FoldsUpTo(f, g, 0)
      BY <3>1 DEF FoldsUpTo, Step
    <3>3. QED
      BY <2>2, <2>3, <3>2
  <2>4. CASE m # 0
    <3>1. m - 1 \in Nat /\ ~(m <= m - 1)
      BY <2>2, <2>4
    <3>2. \E g : FoldsUpTo(f, g, m - 1)
      BY <2>1, <3>1
    <3>3. PICK g : FoldsUpTo(f, g, m - 1)
      BY <3>2
    <3> DEFINE h == [s \in SUBSET DOMAIN f |-> Step(f, g, s)]
    <3>4. ASSUME NEW s \in SUBSET DOMAIN f, Cardinality(s) <= m PROVE h[s] = Step(f, h, s)
      <4>1. CASE s = {}
        BY <4>1 DEF Step
      <4>2. CASE s # {}
        <5> DEFINE r == s \ {Taken(s)}
        <5>1. r \in SUBSET DOMAIN f /\ Cardinality(r) <= m - 1
          BY <2>2, <3>4, <4>2, Removed
        <5> HIDE DEF r
        <5>2. g[r] = Step(f, g, r)
          BY <3>3, <5>1 DEF FoldsUpTo
        <5>3. h[r] = g[r]
          BY <5>1, <5>2
        <5>4. h[s] = Step(f, g, s)
          OBVIOUS
        <5> HIDE DEF h
        <5>5. Step(f, g, s) = f[Taken(s)] * g[r] /\ Step(f, h, s) = f[Taken(s)] * h[r]
          BY <4>2 DEF Step, r
        <5>6. QED
          BY <5>3, <5>4, <5>5
      <4>3. QED
        BY <4>1, <4>2
    <3>5. FoldsUpTo(f, h, m)
      <4>1. DOMAIN h = SUBSET DOMAIN f
        OBVIOUS
      <4> HIDE DEF h
      <4>2. QED
        BY <3>4, <4>1 DEF FoldsUpTo
    <3>6. QED
      BY <2>2, <3>5
  <2>5. QED
    BY <2>3, <2>4
<1>2. Cardinality(DOMAIN f) \in Nat
  BY Removed
<1>3. PICK g : FoldsUpTo(f, g, Cardinality(DOMAIN f))
  BY <1>1, <1>2
<1> DEFINE h == [s \in SUBSET DOMAIN f |-> Step(f, g, s)]
<1>4. \A s \in SUBSET DOMAIN f : g[s] = Step(f, g, s)
  BY <1>3, Removed DEF FoldsUpTo
<1>5. ASSUME NEW s \in SUBSET DOMAIN f PROVE Step(f, h, s) = Step(f, g, s)
  <2>1. CASE s = {}
    BY <2>1 DEF Step
  <2>2. CASE s # {}
    <3>1. s \ {Taken(s)} \in SUBSET DOMAIN f
      OBVIOUS
    <3>2. h[s \ {Taken(s)}] = g[s \ {Taken(s)}]
      BY <1>4, <3>1
    <3> HIDE DEF h
    <3>3. QED
      BY <2>2, <3>2 DEF Step
  <2>3. QED
    BY <2>1, <2>2
<1>6. h = [s \in SUBSET DOMAIN f |-> Step(f, h, s)]
  <2>1. h = [s \in SUBSET DOMAIN f |-> Step(f, g, s)]
    OBVIOUS
  <2> HIDE DEF h
  <2>2. QED
    BY <1>5, <2>1
<1>7. QED
  BY <1>6 DEF IsFold

\* The product of amounts is an amount, and it is zero only if one of them is.
LEMMA AmountPositive ==
  ASSUME NEW f, Amounts(f)
  PROVE  /\ Amount(f) \in Nat
         /\ Amount(f) > 0 <=> \A r \in DOMAIN f : f[r] > 0
<1>1. PICK h : IsFold(f, h) /\ Amount(f) = h[DOMAIN f]
  BY FoldExists, AmountUnfolds
<1> DEFINE Good(s) == h[s] \in Nat /\ (h[s] > 0 <=> \A r \in s : f[r] > 0)
           Bad     == {Cardinality(s) : s \in {t \in SUBSET DOMAIN f : ~Good(t)}}
<1>2. Bad = {}
  <2> SUFFICES ASSUME Bad # {} PROVE FALSE
    OBVIOUS
  <2>1. PICK m \in Bad : \A n \in Bad : m <= n
    <3>1. Bad \in SUBSET Nat
      BY Removed
    <3> HIDE DEF Bad
    <3>2. QED
      BY <3>1, Least
  <2>2. PICK s \in SUBSET DOMAIN f : ~Good(s) /\ m = Cardinality(s)
    OBVIOUS
  <2>3. h[s] = Step(f, h, s)
    BY <1>1 DEF IsFold
  <2>4. CASE s = {}
    BY <2>2, <2>3, <2>4 DEF Step
  <2>5. CASE s # {}
    <3> DEFINE x == Taken(s)
               r == s \ {x}
    <3>1. /\ x \in s /\ f[x] \in Nat /\ r \in SUBSET DOMAIN f
          /\ Cardinality(r) = Cardinality(s) - 1 /\ Cardinality(s) \in Nat
      BY <2>5, Removed
    <3>2. Cardinality(r) \notin Bad
      BY <2>1, <2>2, <3>1
    <3>3. Good(r)
      BY <3>1, <3>2
    <3>4. h[s] = f[x] * h[r]
      BY <2>3, <2>5 DEF Step
    <3>5. s = r \cup {x}
      BY <3>1
    <3> HIDE DEF x, r
    <3>6. h[s] \in Nat /\ (h[s] > 0 <=> f[x] > 0 /\ h[r] > 0)
      <4>1. \A a, b \in Nat : a * b \in Nat /\ (a * b > 0 <=> a > 0 /\ b > 0)
        OBVIOUS
      <4>2. QED
        BY <3>1, <3>3, <3>4, <4>1
    <3>7. Good(s)
      BY <3>3, <3>5, <3>6
    <3>8. QED
      BY <2>2, <3>7
  <2>6. QED
    BY <2>4, <2>5
<1>3. Good(DOMAIN f)
  BY <1>2
<1>4. QED
  BY <1>1, <1>3

\* What a target has of what is asked.
LEMMA WholeOf ==
  ASSUME NEW req, NEW v, Amounts(req), Amounts(v), filter_targets(v, req)
  PROVE  /\ Amount(req) \in Nat /\ Amount(Restrict(v, DOMAIN req)) \in Nat
         /\ Amount(req) > 0 => Amount(Restrict(v, DOMAIN req)) > 0
<1> DEFINE w == Restrict(v, DOMAIN req)
<1>1. DOMAIN w = DOMAIN req /\ \A r \in DOMAIN req : w[r] = v[r]
  BY DEF Restrict, filter_targets
<1>2. w = [r \in DOMAIN req |-> v[r]]
  BY DEF Restrict, filter_targets
<1>3. \A r \in DOMAIN req : v[r] \in Nat /\ req[r] \in Nat /\ v[r] >= req[r]
  BY DEF Amounts, filter_targets
<1> HIDE DEF w
<1>4. Amounts(w)
  BY <1>1, <1>2, <1>3 DEF Amounts
<1>5. Amount(w) \in Nat /\ (Amount(w) > 0 <=> \A r \in DOMAIN w : w[r] > 0)
  BY <1>4, AmountPositive
<1>6. Amount(req) \in Nat /\ (Amount(req) > 0 <=> \A r \in DOMAIN req : req[r] > 0)
  BY AmountPositive
<1>7. (\A r \in DOMAIN req : req[r] > 0) => (\A r \in DOMAIN w : w[r] > 0)
  BY <1>1, <1>3
<1>8. QED
  BY <1>5, <1>6, <1>7 DEF w

\* What division cuts off.
LEMMA Quotient ==
  ASSUME NEW n \in Nat, NEW d \in Nat, d > 0
  PROVE  /\ n \div d \in Nat
         /\ (n \div d) * d <= n /\ n < (n \div d + 1) * d
  OBVIOUS

\* A percentage is less than one off, and what is rounded; parts are 1 / Precision of
\* a percent of what is asked, w is what there is.
PctOf(parts, w) ==
  (IF parts < w THEN 0 ELSE (parts - w) \div (Precision * w))
    .. ((parts + w - 1) \div (Precision * w))

LEMMA PctBounds ==
  ASSUME NEW parts \in Nat, NEW w \in Nat, w > 0, NEW n \in PctOf(parts, w)
  PROVE  /\ n \in Nat
         /\ n * (Precision * w) < parts + w
         /\ parts < n * (Precision * w) + Precision * w + w
<1> DEFINE d == Precision * w
           a == parts + w - 1
           b == parts - w
<1>1. d \in Nat /\ d > 0 /\ a \in Nat
  BY PrecisionAssumption
<1>2. /\ n <= a \div d /\ n \in Int
      /\ parts < w => 0 <= n
      /\ ~(parts < w) => b \div d <= n
  BY DEF PctOf
<1> HIDE DEF d
<1>3. a \div d \in Nat /\ (a \div d) * d <= a
  BY <1>1, Quotient
<1>4. ~(parts < w) => b \in Nat
  OBVIOUS
<1>5. ~(parts < w) => b \div d \in Nat /\ b < (b \div d + 1) * d
  BY <1>1, <1>4, Quotient
<1> HIDE DEF a, b
<1>6. n \in Nat
  BY <1>2, <1>5
<1>7. n * d < parts + w
  <2>1. n * d <= (a \div d) * d
    BY <1>1, <1>2, <1>3, <1>6
  <2>2. n * d \in Nat /\ (a \div d) * d \in Nat
    BY <1>1, <1>3, <1>6
  <2>3. n * d <= a
    BY <1>1, <1>3, <2>1, <2>2
  <2>4. QED
    BY <2>2, <2>3 DEF a
<1>8. parts < n * d + d + w
  <2>1. n * d \in Nat
    BY <1>1, <1>6
  <2>2. CASE parts < w
    BY <1>1, <2>1, <2>2
  <2>3. CASE ~(parts < w)
    <3>1. (b \div d + 1) * d <= (n + 1) * d
      BY <1>1, <1>2, <1>5, <1>6, <2>3
    <3>2. (n + 1) * d = n * d + d
      BY <1>1, <1>6
    <3>3. (b \div d + 1) * d \in Nat
      BY <1>1, <1>5, <2>3
    <3>4. b < n * d + d
      BY <1>1, <1>4, <1>5, <2>1, <2>3, <3>1, <3>2, <3>3
    <3>5. QED
      BY <1>1, <2>1, <3>4 DEF b
  <2>4. QED
    BY <2>2, <2>3
<1>9. QED
  BY <1>6, <1>7, <1>8 DEF d

\* Percentages in order leave little more than a percent between the products.
LEMMA PctOrder ==
  ASSUME NEW parts \in Nat, NEW v \in Nat, NEW w \in Nat, v > 0, w > 0,
         NEW n \in PctOf(parts, v), NEW m \in PctOf(parts, w), n <= m
  PROVE  parts * w < (parts + (Precision + 2) * w) * v
<1> DEFINE P == Precision
<1>1. P \in Nat /\ n \in Nat /\ m \in Nat
      /\ m * (P * w) < parts + w
      /\ parts < n * (P * v) + P * v + v
  BY PctBounds, PrecisionAssumption
<1> HIDE DEF P
<1>2. n * (P * v) + P * v + v = (n * P + P + 1) * v
  BY <1>1
<1>3. (n * P + P + 1) * v <= (m * P + P + 1) * v
  <2>1. n * P <= m * P /\ n * P \in Nat /\ m * P \in Nat
    BY <1>1
  <2>2. QED
    BY <1>1, <2>1
<1> DEFINE k == m * P + P + 1
<1>4. k \in Nat
  BY <1>1
<1>5. k * w = m * (P * w) + P * w + w
  BY <1>1
<1> HIDE DEF k
<1>6. parts < k * v /\ k * v \in Nat
  <2>1. (n * P + P + 1) * v \in Nat /\ k * v \in Nat
    BY <1>1, <1>4
  <2>2. QED
    BY <1>1, <1>2, <1>3, <2>1 DEF k
<1>7. parts * w < (k * v) * w
  BY <1>6
<1>8. (k * v) * w = (k * w) * v
  BY <1>4
<1>9. k * w <= parts + (P + 2) * w
  <2>1. (P + 2) * w = P * w + w + w
    BY <1>1
  <2>2. m * (P * w) \in Nat /\ P * w \in Nat
    BY <1>1
  <2>3. QED
    BY <1>1, <1>5, <2>1, <2>2
<1>10. (k * w) * v <= (parts + (P + 2) * w) * v
  <2>1. k * w \in Nat /\ parts + (P + 2) * w \in Nat
    BY <1>1, <1>4
  <2>2. QED
    BY <1>9, <2>1
<1>11. parts * w \in Nat /\ (k * w) * v \in Nat /\ (parts + (P + 2) * w) * v \in Nat
  BY <1>1, <1>4
<1>12. QED
  BY <1>7, <1>8, <1>10, <1>11 DEF P

\* The filter lets pass what has all that is asked, so nothing is divided by zero, and
\* the first of the order is sparsest.
LEMMA TargetsSparsest ==
  ASSUME NEW registered, NEW req, Amounts(req), \A i \in DOMAIN registered : Amounts(registered[i]),
         NEW i \in Targets(req, registered)
  PROVE  Sparsest(req, registered, i)
<1> DEFINE pct(k)   == get_resource_pct(req, registered[k])
           whole(k) == Amount(Restrict(registered[k], DOMAIN req))
           parts    == 100 * Precision * Amount(req)
<1>1. i \in Matching(req, registered)
      /\ \E n \in pct(i) : \A j \in Matching(req, registered) : \E m \in pct(j) : n <= m
  BY DEF Targets
<1> SUFFICES ASSUME NEW j \in Matching(req, registered), Amount(req) > 0
             PROVE  parts * whole(j) < (parts + (Precision + 2) * whole(j)) * whole(i)
  BY DEF Sparsest, UsesLess
<1>2. \A k \in Matching(req, registered) :
        /\ parts \in Nat /\ whole(k) \in Nat /\ whole(k) > 0
        /\ pct(k) = PctOf(parts, whole(k))
  <2> SUFFICES ASSUME NEW k \in Matching(req, registered)
               PROVE  /\ parts \in Nat /\ whole(k) \in Nat /\ whole(k) > 0
                      /\ pct(k) = PctOf(parts, whole(k))
    OBVIOUS
  <2>1. Amounts(registered[k]) /\ filter_targets(registered[k], req)
    BY DEF Matching
  <2>2. Amount(req) \in Nat /\ whole(k) \in Nat /\ whole(k) > 0
    BY <2>1, WholeOf
  <2>3. parts \in Nat
    BY <2>2, PrecisionAssumption
  <2>4. pct(k) = PctOf(parts, whole(k))
    BY <2>2 DEF get_resource_pct, PctOf
  <2>5. QED
    BY <2>2, <2>3, <2>4
<1> HIDE DEF parts, whole, pct
<1>3. PICK n \in pct(i) : \E m \in pct(j) : n <= m
  BY <1>1
<1>4. PICK m \in pct(j) : n <= m
  BY <1>3
<1>5. QED
  BY <1>1, <1>2, <1>3, <1>4, PctOrder

\* SparsestCalls: with any requests and resources, the instance called is the one that
\* the request uses least, up to the percent that is cut off and what is rounded, at
\* every moment of a registry that changes.
THEOREM SparsestCalls == Spec => []SparsestCalled
<1>1. TypeOK => SparsestCalled
  <2> SUFFICES ASSUME TypeOK, NEW req \in Requests, NEW i \in Targets(req, published)
               PROVE  Sparsest(req, published, i)
    BY DEF SparsestCalled
  <2>1. DOMAIN published = Listed /\ \A j \in DOMAIN published : published[j] \in Resources
    BY DEF TypeOK
  <2>2. Amounts(req) /\ \A j \in DOMAIN published : Amounts(published[j])
    BY <2>1, ResourcesAssumption DEF Amounts
  <2>3. QED
    BY <2>2, TargetsSparsest
<1>2. QED
  BY <1>1, TypeCorrect, PTL
=============================================================================
