------------------------------ MODULE Service -------------------------------
(***************************************************************************)
(* The instances of a cluster (Service in boxcar-cluster/src/lib.rs) and   *)
(* their registrations: serve registers an instance with the resources of  *)
(* its server and leaves the handle to lease_metadata_updater.  Other      *)
(* users of etcdsvc keep their handles, and update and drop them.          *)
(***************************************************************************)
EXTENDS Discovery

CONSTANT METADATA_REFRESH_INTERVAL
ASSUME IntervalAssumption == METADATA_REFRESH_INTERVAL \in Nat

VARIABLES
  free,        \* instance -> what its resource manager has free
  updater,     \* instance -> lease_metadata_updater, and the rest of its sleep
  ended,       \* instance -> for how long its handle has been of no use
  since        \* instance -> resources -> for how long they have not been what is free

serviceVars == <<free, updater>>
vars == <<discoveryVars, serviceVars, ended, since>>

\* How long a registration may outlive its handle, and lag behind the server.
GoneAfter  == ETCD_LEASE_TTL_SEC + Latency
StaleAfter == METADATA_REFRESH_INTERVAL + 2 * Latency

Init ==
  /\ DiscoveryInit
  /\ free \in [Instances -> Resources]
  /\ updater = [i \in Instances |-> [on |-> FALSE, wait |-> 0]]
  /\ ended = [i \in Instances |-> 0]
  /\ since = [i \in Instances |-> [r \in Resources |-> IF r = free[i] THEN 0 ELSE StaleAfter + 1]]

Running(i) == handle[i].pc \in {"held", "updating"}
Over(i)    == handle[i].pc \in {"dropped", "failed", "crashed"} \/ (Running(i) /\ ~enabled[i])

\* The updater of i waits, and its last put was not lost.
Published(i) ==
  /\ updater[i].on /\ handle[i].pc = "held"
  /\ i \in DOMAIN key /\ key[i] = handle[i].stored

----------------------------------------------------------------------------
\* serve.
Serve(i) ==
  /\ Register(i, free[i])
  /\ updater' = [updater EXCEPT ![i].on = TRUE]
  /\ UNCHANGED free

\* The updater is awake, with a handle that is active: nobody else can disable it.
Awake(i) == updater[i].on /\ updater[i].wait = 0 /\ handle[i].pc = "held"

\* It sleeps once the answer has come.
Sleep(i, answer) ==
  /\ updater' = [updater EXCEPT ![i].wait = answer + METADATA_REFRESH_INTERVAL]
  /\ UNCHANGED free

\* Mutated: it updates with what it has peaked at.
UpdaterRepeats(i) == Awake(i) /\ UpdateIdentical(i, handle[i].stored) /\ Sleep(i, 0)

\* lease_metadata_updater: update(peak().resources(resource_manager.peak())).
UpdaterStep(i) ==
  \/ Awake(i) /\ UpdateIdentical(i, free[i]) /\ Sleep(i, 0)
  \/ Awake(i) /\ Update(i, free[i]) /\ UNCHANGED serviceVars

Answered(i) ==
  IF updater[i].on THEN \E answer \in 0 .. Answer(handle[i].wait) : Sleep(i, answer)
                   ELSE UNCHANGED serviceVars

\* Another user of etcdsvc.
UserStep(i) ==
  /\ ~updater[i].on
  /\ \/ (\E r \in Resources : Register(i, r) \/ Update(i, r) \/ UpdateIdentical(i, r))
     \/ Deregister(i) \/ Drop(i)
  /\ UNCHANGED serviceVars

\* Requests of the server's clients take resources and return them.
Claim(i) ==
  /\ \E r \in Resources : free' = [free EXCEPT ![i] = r]
  /\ UNCHANGED <<discoveryVars, updater>>

Step(i) ==
  \/ Serve(i)
  \/ PutRegistration(i) /\ Answered(i)
  \/ UpdaterStep(i)
  \/ (PutUpdate(i) \/ UpdateFails(i)) /\ Answered(i)
  \/ UserStep(i)
  \/ Claim(i)
  \/ (Grant(i) \/ RegisterFails(i) \/ KeeperStep(i) \/ Crash(i)) /\ UNCHANGED serviceVars

Tick ==
  /\ \A i \in Instances : ~Awake(i)
  /\ Pass
  /\ updater' = [i \in Instances |-> [updater[i] EXCEPT !.wait = Down(@)]]
  /\ ended' = [i \in Instances |->
       IF Over(i) /\ ended[i] < GoneAfter THEN ended[i] + 1 ELSE ended[i]]
  /\ since' = [i \in Instances |-> [r \in Resources |->
       IF r # free[i] /\ since[i][r] <= StaleAfter THEN since[i][r] + 1 ELSE since[i][r]]]
  /\ UNCHANGED free

Next ==
  \/ /\ \E i \in Instances : Step(i)
     /\ since' = [i \in Instances |-> [since[i] EXCEPT ![free'[i]] = 0]]
     /\ UNCHANGED ended
  \/ Tick

Spec == Init /\ [][Next]_vars

----------------------------------------------------------------------------
TypeOK ==
  /\ handle \in [Instances -> HandleState] /\ keeper \in [Instances -> KeeperState]
  /\ enabled \in [Instances -> BOOLEAN] /\ missed \in [Instances -> BOOLEAN]
  /\ lease \in [DOMAIN lease -> 0 .. ETCD_LEASE_TTL_SEC] /\ DOMAIN lease \subseteq Instances
  /\ key \in [DOMAIN key -> Resources] /\ DOMAIN key \subseteq {i \in DOMAIN lease : lease[i] > 0}
  /\ free \in [Instances -> Resources]
  /\ updater \in [Instances -> [on : BOOLEAN, wait : 0 .. METADATA_REFRESH_INTERVAL + Latency]]
  /\ ended \in [Instances -> 0 .. GoneAfter]
  /\ since \in [Instances -> [Resources -> 0 .. StaleAfter + 1]]

\* GoneInTime: an instance that was dropped, deregistered, crashed or failed to
\* register is gone once a lease has passed, though a keep-alive may be under way.
GoneInTime == \A i \in Instances : ended[i] >= GoneAfter => i \notin DOMAIN key

\* KeptListed: an instance with an active handle stays in the registry, as long
\* as etcd answers its keep-alives within Latency.
KeptListed ==
  \A i \in Instances : Running(i) /\ enabled[i] /\ ~missed[i] => i \in DOMAIN key

\* PublishedInTime: between its puts, the registry says of an instance what it had
\* free at most so long ago, unless its last put failed.
PublishedInTime ==
  \A i \in Instances : Published(i) => since[i][key[i]] <= StaleAfter

\* ImplementsRegistry: instances whose lease is over are gone for good.
Abstract == INSTANCE Registry
  WITH published <- key, gone <- {i \in DOMAIN lease : lease[i] = 0}
ImplementsRegistry == Abstract!RegistrySpec
=============================================================================
