-------------------------------- MODULE Rcm --------------------------------
(***************************************************************************)
(* The resource manager of boxcar-rpc (rcm.rs) together with the only code *)
(* that draws on it: the admission loop of message_handler (server.rs) and *)
(* the BusWrapper that carries the claims of an admitted request until its *)
(* handler ends (executor.rs).                                             *)
(*                                                                         *)
(* A "lake" is the amount of a resource that is free.  ResourceManager::   *)
(* consume takes an amount out of a lake and returns a Claim; dropping the *)
(* Claim puts the amount back.  Every request runs in a task of its own,   *)
(* so the steps of several requests interleave at each lock acquisition.   *)
(***************************************************************************)
EXTENDS Naturals, FiniteSets

CONSTANTS
  Resources,   \* resource names
  Requests,    \* RpcReq messages, one message_handler task each
  Amounts,     \* amounts a request may ask for
  MaxAdded     \* bound on what is ever added to one resource

ASSUME AmountsAssumption  == Amounts \subseteq Nat
ASSUME MaxAddedAssumption == MaxAdded \in Nat
\* A HashMap holds finitely many names.
ASSUME ResourcesAssumption == IsFiniteSet(Resources)

VARIABLES
  permissive,  \* ResourceManager.permissive, fixed when the manager is built
  lake,        \* registered resource -> free amount (resource_lake)
  phase,       \* request -> where its task is
  need,        \* request -> RpcRequest.resources
  claims,      \* request -> the Claims its task, then its handler, owns
  added,       \* history: resource -> total amount given to `add`
  overpaid     \* history: resource -> total amount given to `release`

vars == <<permissive, lake, phase, need, claims, added, overpaid>>

(***************************************************************************)
(* A Claim holds an amount and a pointer to a lake.  The pointer is either *)
(* to the lake of a registered resource (pooled) or, in permissive mode,   *)
(* to a fresh lake nobody else can reach.                                  *)
(***************************************************************************)
Claim == [resource : Resources, amount : Nat, pooled : BOOLEAN]

\* RpcRequest.resources: a map from some resource names to amounts.
Needs == UNION {[S -> Amounts] : S \in SUBSET Resources}

Phases == {"idle", "claiming", "running", "dropping", "over"}

Registered(r) == r \in DOMAIN lake

----------------------------------------------------------------------------
(* Mutated forms of the definitions below, as a slip in the code would     *)
(* have them.                                                              *)

ConsumableOffByOne(r, a) == IF Registered(r) THEN a <= lake[r] + 1 ELSE permissive

DetachedClaimPooled(r, a) == [resource |-> r, amount |-> a, pooled |-> TRUE]

AdmittedOneShort(q) ==
  Cardinality(claims[q]) + 1 >= Cardinality(DOMAIN need[q])

RefuseOrWait(q, r) ==
  /\ phase[q] = "claiming"
  /\ r \in DOMAIN need[q]
  /\ ~Registered(r) /\ ~permissive
  /\ phase' = [phase EXCEPT ![q] = "dropping"]
  /\ UNCHANGED <<permissive, lake, need, claims, added, overpaid>>

----------------------------------------------------------------------------
Init ==
  /\ permissive \in BOOLEAN
  /\ lake     = [r \in {} |-> 0]
  /\ phase    = [q \in Requests |-> "idle"]
  /\ need     = [q \in Requests |-> [r \in {} |-> 0]]
  /\ claims   = [q \in Requests |-> {}]
  /\ added    = [r \in Resources |-> 0]
  /\ overpaid = [r \in Resources |-> 0]

\* ResourceManager::add: top a lake up, or create it.
Add(r, a) ==
  /\ added[r] + a <= MaxAdded
  /\ lake' = [s \in DOMAIN lake \cup {r} |->
                IF s # r THEN lake[s]
                ELSE IF Registered(r) THEN lake[r] + a ELSE a]
  /\ added' = [added EXCEPT ![r] = @ + a]
  /\ UNCHANGED <<permissive, phase, need, claims, overpaid>>

\* An RpcReq asking for the resources n reaches message_handler.
Arrive(q, n) ==
  /\ phase[q] = "idle"
  /\ phase' = [phase EXCEPT ![q] = "claiming"]
  /\ need'  = [need EXCEPT ![q] = n]
  /\ UNCHANGED <<permissive, lake, claims, added, overpaid>>

\* ResourceManager::consume returns Ok.
Consumable(r, a) == IF Registered(r) THEN a <= lake[r] ELSE permissive

\* The Claim of a registered resource, and the permissive one.
PooledClaim(r, a)   == [resource |-> r, amount |-> a, pooled |-> TRUE]
DetachedClaim(r, a) == [resource |-> r, amount |-> a, pooled |-> FALSE]

\* The resources the admission loop has not visited; a HashMap has no order.
Unvisited(q) == DOMAIN need[q] \ {c.resource : c \in claims[q]}

\* One successful turn of the admission loop.
Consume(q, r) ==
  /\ phase[q] = "claiming"
  /\ r \in Unvisited(q)
  /\ Consumable(r, need[q][r])
  /\ IF Registered(r)
     THEN /\ claims' = [claims EXCEPT ![q] = @ \cup {PooledClaim(r, need[q][r])}]
          /\ lake'   = [lake EXCEPT ![r] = @ - need[q][r]]
     ELSE /\ claims' = [claims EXCEPT ![q] = @ \cup {DetachedClaim(r, need[q][r])}]
          /\ UNCHANGED lake
  /\ UNCHANGED <<permissive, phase, need, added, overpaid>>

\* consume fails: the loop breaks, ResourceError is the answer, and the
\* claims taken so far go out of scope.
Refuse(q, r) ==
  /\ phase[q] = "claiming"
  /\ r \in Unvisited(q)
  /\ ~Consumable(r, need[q][r])
  /\ phase' = [phase EXCEPT ![q] = "dropping"]
  /\ UNCHANGED <<permissive, lake, need, claims, added, overpaid>>

\* claims.len() == req.resources.len()
AllClaimed(q) == Cardinality(claims[q]) = Cardinality(DOMAIN need[q])

\* The claims move into execute_task and on into the handler's BusWrapper.
Admit(q) ==
  /\ phase[q] = "claiming"
  /\ AllClaimed(q)
  /\ phase' = [phase EXCEPT ![q] = "running"]
  /\ UNCHANGED <<permissive, lake, need, claims, added, overpaid>>

\* The owner of the claims goes away: execute_task found no handler, or the
\* handler returned or panicked.
Finish(q) ==
  /\ phase[q] = "running"
  /\ phase' = [phase EXCEPT ![q] = "dropping"]
  /\ UNCHANGED <<permissive, lake, need, claims, added, overpaid>>

\* Claim::int_release, run so many times.
IntRelease(c, times) ==
  IF c.pooled THEN [lake EXCEPT ![c.resource] = @ + times * c.amount] ELSE lake

\* Drop for Claim: the Vec drops its claims one by one.
DropClaim(q, c) ==
  /\ phase[q] = "dropping"
  /\ c \in claims[q]
  /\ lake'   = IntRelease(c, 1)
  /\ claims' = [claims EXCEPT ![q] = @ \ {c}]
  /\ UNCHANGED <<permissive, phase, need, added, overpaid>>

\* The last claim is gone, so is the task.
Dropped(q) ==
  /\ phase[q] = "dropping"
  /\ claims[q] = {}
  /\ phase' = [phase EXCEPT ![q] = "over"]
  /\ UNCHANGED <<permissive, lake, need, claims, added, overpaid>>

\* Claim::release, called by a handler on a claim of its BusWrapper:
\* int_release runs in the body, and again from Drop when `self` ends.
Release(q, c) ==
  /\ phase[q] = "running"
  /\ c \in claims[q]
  /\ lake'     = IntRelease(c, 2)
  /\ claims'   = [claims EXCEPT ![q] = @ \ {c}]
  /\ overpaid' = IF c.pooled
                 THEN [overpaid EXCEPT ![c.resource] = @ + c.amount]
                 ELSE overpaid
  /\ UNCHANGED <<permissive, phase, need, added>>

Next ==
  \/ \E r \in Resources, a \in Amounts : Add(r, a)
  \/ \E q \in Requests, n \in Needs : Arrive(q, n)
  \/ \E q \in Requests, r \in Resources : Consume(q, r) \/ Refuse(q, r)
  \/ \E q \in Requests : Admit(q) \/ Finish(q) \/ Dropped(q)
  \/ \E q \in Requests : \E c \in claims[q] : DropClaim(q, c) \/ Release(q, c)

(***************************************************************************)
(* The tokio runtime polls every ready task: the admission loop and the    *)
(* drops go on.  Nothing is assumed of handlers, clients or `add`.         *)
(***************************************************************************)
Fairness ==
  \A q \in Requests :
    /\ WF_vars(\E r \in Resources : Consume(q, r) \/ Refuse(q, r))
    /\ WF_vars(Admit(q))
    /\ WF_vars(\E c \in claims[q] : DropClaim(q, c))
    /\ WF_vars(Dropped(q))

Spec == Init /\ [][Next]_vars /\ Fairness
----------------------------------------------------------------------------
TypeOK ==
  /\ permissive \in BOOLEAN
  /\ DOMAIN lake \subseteq Resources
  /\ lake \in [DOMAIN lake -> Nat]
  /\ phase \in [Requests -> Phases]
  /\ need \in [Requests -> Needs]
  /\ claims \in [Requests -> SUBSET Claim]
  /\ added \in [Resources -> Nat]
  /\ overpaid \in [Resources -> Nat]

\* The units a claim of q holds, each named by the claim and a number.
Units(q, c) == {<<q, c>>} \X (1 .. c.amount)

\* q holds the claim c on the lake of r.
HoldsClaim(q, c, r) == c \in claims[q] /\ c.resource = r /\ c.pooled

\* All the units of r's lake that are claimed.
HeldUnits(r) ==
  UNION {UNION {Units(q, c) : c \in {d \in claims[q] : HoldsClaim(q, d, r)}} :
         q \in Requests}

\* Conservation: whatever the interleaving of admissions, refusals halfway
\* through a request, drops, permissive claims and late `add`s, a lake and the
\* claims on it always add up to what `add` put in, plus what Claim::release
\* returned a second time.
Conservation ==
  \A r \in DOMAIN lake :
    lake[r] + Cardinality(HeldUnits(r)) = added[r] + overpaid[r]

\* FullyProvisioned: a request is handed to the executor only with one claim per
\* resource it asked for, each of the exact amount, and a claim on no lake only
\* when the manager is permissive (the length test of message_handler).
FullyProvisioned ==
  [][\A q \in Requests :
       phase[q] = "claiming" /\ phase'[q] = "running" =>
         \A r \in DOMAIN need[q] :
           \E c \in claims'[q] :
             c.resource = r /\ c.amount = need[q][r] /\ (c.pooled \/ permissive)]_vars

\* Decided: no request waits for another one's claims while it holds its own;
\* each is admitted or refused (consume fails at once, it never blocks).
Decided ==
  \A q \in Requests : phase[q] = "claiming" ~> phase[q] # "claiming"

\* NeverOverfull: a lake never holds more than was added to it, which is what
\* "returning the resources to the pool at large" promises of Claim::release.
NeverOverfull == \A r \in DOMAIN lake : lake[r] <= added[r]
============================================================================
