------------------------------ MODULE Registry ------------------------------
(***************************************************************************)
(* What service discovery promises those who look instances up: an         *)
(* instance enters the registry once, its registration may be replaced     *)
(* while it is there, and once it has left it never comes back.            *)
(*                                                                         *)
(* Discovery, with its leases, implements this specification; the clients  *)
(* of Cluster are built on it.                                             *)
(***************************************************************************)
EXTENDS Naturals, Functions

CONSTANTS
  Instances,   \* instances of services, each registered once: ids are fresh UUIDs
  Resources    \* what the resources of a registration may be

VARIABLES
  published,   \* instance in the registry -> its resources, as last written
  gone         \* instances that can no longer be written

registryVars == <<published, gone>>

Listed == DOMAIN published

RegistryInit ==
  /\ published = [i \in {} |-> {}]
  /\ gone      = {}

\* The registration of i is written: its key is created, or its value replaced.
Write(i, r) == published' = [j \in Listed \cup {i} |-> IF j = i THEN r ELSE published[j]]

Put(i, r) ==
  /\ i \notin gone
  /\ Write(i, r)
  /\ UNCHANGED gone

\* Instances leave, with their leases.
Leave(set) ==
  /\ gone' = gone \cup set
  /\ published' = Restrict(published, Listed \ set)

RegistryNext ==
  \/ \E i \in Instances, r \in Resources : Put(i, r)
  \/ \E set \in SUBSET Instances : Leave(set)

RegistrySpec == RegistryInit /\ [][RegistryNext]_registryVars
=============================================================================
