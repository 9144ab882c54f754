----------------------------- MODULE Discovery ------------------------------
(***************************************************************************)
(* Service discovery (etcdsvc.rs): the handles of registered instances,    *)
(* with the tasks that keep their leases alive, and etcd, as far as it is  *)
(* used: a key put with a lease is there as long as the lease.             *)
(*                                                                         *)
(* Time passes in seconds.  A wait counts down to the latest moment of a   *)
(* step; time does not pass it.  A request to etcd is one step, when it    *)
(* takes effect; what its answer takes is added to the next wait.          *)
(***************************************************************************)
EXTENDS Naturals, Functions

CONSTANTS
  Instances,   \* the instances of services, each registered once: ids are fresh UUIDs
  Resources,   \* what the resources of a registration may be
  ETCD_LEASE_TTL_SEC,
  Latency      \* the longest that a request to etcd and its answer take

\* Keep-alives come often enough for the lease.
TimesAssumption ==
  /\ ETCD_LEASE_TTL_SEC \in Nat /\ Latency \in Nat
  /\ ETCD_LEASE_TTL_SEC \div 2 + 2 * Latency < ETCD_LEASE_TTL_SEC
  /\ 4 * Latency < ETCD_LEASE_TTL_SEC
ASSUME TimesAssumption

VARIABLES
  handle,      \* instance -> where register or its handle is, and what it stores
  enabled,     \* instance -> lease_enabled
  keeper,      \* instance -> the keep-alive task
  lease,       \* instance that was granted a lease -> what is left of it
  key,         \* instance with a key in etcd -> the resources in its value
  missed       \* instance -> whether one of its keep-alives failed

discoveryVars == <<handle, enabled, keeper, lease, key, missed>>

\* What the answer may still take, when the wait for its request was this long.
Answer(wait) == IF wait < Latency THEN wait ELSE Latency

\* Mutated: a keep-alive per lease.
LateKeepalive == ETCD_LEASE_TTL_SEC

keepalive_time == ETCD_LEASE_TTL_SEC \div 2

HandlePcs == {"none", "granting", "putting", "held", "updating", "dropped", "failed", "crashed"}
KeeperPcs == {"off", "opening", "asking", "sleeping", "ended"}

HandleState == [pc : HandlePcs, wait : 0 .. 2 * Latency, stored : Resources \cup {{}}]
KeeperState == [pc : KeeperPcs, wait : 0 .. keepalive_time + Latency]

DiscoveryInit ==
  /\ handle  = [i \in Instances |-> [pc |-> "none", wait |-> 0, stored |-> {}]]
  /\ enabled = [i \in Instances |-> FALSE]
  /\ keeper  = [i \in Instances |-> [pc |-> "off", wait |-> 0]]
  /\ lease   = [i \in {} |-> 0]
  /\ key     = [i \in {} |-> {}]
  /\ missed  = [i \in Instances |-> FALSE]

HandleAt(i, pc, wait) == handle' = [handle EXCEPT ![i] = [@ EXCEPT !.pc = pc, !.wait = wait]]
KeeperAt(i, pc, wait) == keeper' = [keeper EXCEPT ![i] = [pc |-> pc, wait |-> wait]]

\* A put writes what the handle stores.
Write(i) == key' = [j \in DOMAIN key \cup {i} |-> IF j = i THEN handle[i].stored ELSE key[j]]

\* Mutated: it is put without the lease.
PutAlone(i) == Write(i)

\* It is put with the lease; etcd refuses it when that is over.
LeasePut(i) == lease[i] > 0 /\ Write(i)

\* A put that was sent may be done, also when its answer does not come.
Unanswered(i) ==
  \/ handle[i].pc \in {"putting", "updating"} /\ LeasePut(i)
  \/ UNCHANGED key

----------------------------------------------------------------------------
(* register, as seen by etcd.                                              *)

Register(i, r) ==
  /\ handle[i].pc = "none"
  /\ handle' = [handle EXCEPT ![i] = [pc |-> "granting", wait |-> Latency, stored |-> r]]
  /\ UNCHANGED <<enabled, keeper, lease, key, missed>>

\* lease_grant.
Grant(i) ==
  /\ handle[i].pc = "granting"
  /\ HandleAt(i, "putting", handle[i].wait + Latency)
  /\ lease' = [j \in DOMAIN lease \cup {i} |-> IF j = i THEN ETCD_LEASE_TTL_SEC ELSE lease[j]]
  /\ UNCHANGED <<enabled, keeper, key, missed>>

\* The key is put with the lease, and RegistrationHandle::new spawns the keeper.
PutRegistration(i) ==
  /\ handle[i].pc = "putting"
  /\ LeasePut(i)
  /\ HandleAt(i, "held", 0)
  /\ enabled' = [enabled EXCEPT ![i] = TRUE]
  /\ KeeperAt(i, "opening", Answer(handle[i].wait) + Latency)
  /\ UNCHANGED <<lease, missed>>

\* etcd refuses, or cannot be reached, or its answer is lost: register fails.
RegisterFails(i) ==
  /\ handle[i].pc \in {"granting", "putting"}
  /\ HandleAt(i, "failed", 0)
  /\ Unanswered(i)
  /\ UNCHANGED <<enabled, keeper, lease, missed>>

----------------------------------------------------------------------------
(* The keep-alive task.                                                    *)

\* Mutated: the flag is not read.
Untold(i) == FALSE

Told(i) == ~enabled[i]

\* lease_keep_alive has opened a stream, or the last sleep is over: the flag is
\* read, and a keep-alive sent or the loop left.
Check(i) ==
  /\ \/ keeper[i].pc = "opening"
     \/ keeper[i].pc = "sleeping" /\ keeper[i].wait = 0
  /\ IF Told(i) THEN KeeperAt(i, "ended", 0) ELSE KeeperAt(i, "asking", Latency)
  /\ UNCHANGED <<handle, enabled, lease, key, missed>>

\* The keep-alive renews the lease; for one that is over the answer is a TTL of 0,
\* which nobody looks at.  The task sleeps once the answer has come.
Renew(i) ==
  /\ keeper[i].pc = "asking"
  /\ lease' = [lease EXCEPT ![i] = IF @ = 0 THEN 0 ELSE ETCD_LEASE_TTL_SEC]
  /\ \E answer \in 0 .. keeper[i].wait : KeeperAt(i, "sleeping", answer + keepalive_time)
  /\ UNCHANGED <<handle, enabled, key, missed>>

\* The keep-alive cannot be sent, or the stream has ended.  "TODO after too many
\* consecutive failures, kill the server."
KeepAliveFails(i) ==
  /\ keeper[i].pc = "asking"
  /\ KeeperAt(i, "sleeping", keepalive_time)
  /\ missed' = [missed EXCEPT ![i] = TRUE]
  /\ UNCHANGED <<handle, enabled, lease, key>>

\* The stream cannot be opened, or it breaks: unwrap() ends the task.
KeeperPanics(i) ==
  /\ keeper[i].pc \in {"opening", "asking"}
  /\ KeeperAt(i, "ended", 0)
  /\ missed' = [missed EXCEPT ![i] = TRUE]
  /\ UNCHANGED <<handle, enabled, lease, key>>

KeeperStep(i) == Check(i) \/ Renew(i) \/ KeepAliveFails(i) \/ KeeperPanics(i)

----------------------------------------------------------------------------
(* The handle: update, deregister and drop.                                *)

\* update with what the handle stores already does nothing.
UpdateIdentical(i, r) ==
  /\ handle[i].pc = "held"
  /\ handle[i].stored = r
  /\ UNCHANGED discoveryVars

\* Otherwise it stores the registration, and then asks etcd.
Update(i, r) ==
  /\ handle[i].pc = "held"
  /\ handle[i].stored # r
  /\ handle' = [handle EXCEPT ![i] = [pc |-> "updating", wait |-> Latency, stored |-> r]]
  /\ UNCHANGED <<enabled, keeper, lease, key, missed>>

\* The put succeeds.
PutUpdate(i) ==
  /\ handle[i].pc = "updating"
  /\ LeasePut(i)
  /\ HandleAt(i, "held", 0)
  /\ UNCHANGED <<enabled, keeper, lease, missed>>

\* It fails, with the lease gone or etcd out of reach.
UpdateFails(i) ==
  /\ handle[i].pc = "updating"
  /\ HandleAt(i, "held", 0)
  /\ Unanswered(i)
  /\ UNCHANGED <<enabled, keeper, lease, missed>>

\* deregister, and Drop: the keeper is told, etcd is not.
Disable(i, pc) ==
  /\ handle[i].pc = "held"
  /\ HandleAt(i, pc, 0)
  /\ enabled' = [enabled EXCEPT ![i] = FALSE]
  /\ UNCHANGED <<keeper, lease, key, missed>>

Deregister(i) == Disable(i, "held")
Drop(i)       == Disable(i, "dropped")

\* The process ends, and its tasks with it; what it has sent may still arrive.
Crash(i) ==
  /\ handle[i].pc \in {"granting", "putting", "held", "updating", "dropped"}
  /\ HandleAt(i, "crashed", 0)
  /\ enabled' = [enabled EXCEPT ![i] = FALSE]
  /\ IF keeper[i].pc = "asking" THEN UNCHANGED keeper ELSE KeeperAt(i, "ended", 0)
  /\ Unanswered(i)
  /\ UNCHANGED <<lease, missed>>

----------------------------------------------------------------------------
\* Instances with a step that may not be put off any longer.
Urgent ==
  {i \in Instances :
     \/ handle[i].pc \in {"granting", "putting", "updating"} /\ handle[i].wait = 0
     \/ keeper[i].pc \in {"opening", "asking", "sleeping"} /\ keeper[i].wait = 0}

Down(n) == IF n = 0 THEN 0 ELSE n - 1

\* A second passes.  Leases run out, and the keys go with them.
Pass ==
  /\ Urgent = {}
  /\ handle' = [i \in Instances |-> [handle[i] EXCEPT !.wait = Down(@)]]
  /\ keeper' = [i \in Instances |-> [keeper[i] EXCEPT !.wait = Down(@)]]
  /\ lease' = [i \in DOMAIN lease |-> Down(lease[i])]
  /\ key' = Restrict(key, {i \in DOMAIN key : lease[i] > 1})
  /\ UNCHANGED <<enabled, missed>>
=============================================================================
