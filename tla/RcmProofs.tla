------------------------------ MODULE RcmProofs -----------------------------
(***************************************************************************)
(* What holds of the resource manager for every set of resources, requests *)
(* and amounts: no interleaving of admissions, refusals, drops, releases   *)
(* and late `add`s loses a unit, and a request is never admitted short.    *)
(***************************************************************************)
EXTENDS Rcm, FiniteSetTheorems, TLAPS

----------------------------------------------------------------------------
(* The inductive invariant.                                                *)

\* A pooled claim is on a lake that exists: lakes are never removed.
ClaimsOnLakes ==
  \A q \in Requests : \A c \in claims[q] : c.pooled => c.resource \in DOMAIN lake

\* Nothing was ever added to a resource without a lake, or paid back to it.
NoLakeNoUnits ==
  \A r \in Resources \ DOMAIN lake : added[r] = 0 /\ overpaid[r] = 0

\* What Conservation says, and that there are finitely many held units.
Balanced ==
  \A r \in Resources :
    /\ IsFiniteSet(HeldUnits(r))
    /\ r \in DOMAIN lake =>
         lake[r] + Cardinality(HeldUnits(r)) = added[r] + overpaid[r]

\* Each claim answers one of the request's needs, and no need has two claims.
ClaimsAnswerNeeds ==
  \A q \in Requests :
    /\ \A c \in claims[q] :
         /\ c.resource \in DOMAIN need[q]
         /\ c.amount = need[q][c.resource]
         /\ c.pooled \/ permissive
    /\ \A c, d \in claims[q] : c.resource = d.resource => c = d
    /\ phase[q] = "idle" => claims[q] = {}

LakeInv == ClaimsOnLakes /\ NoLakeNoUnits /\ Balanced

----------------------------------------------------------------------------
(* Lemmas.                                                                 *)

LEMMA NeedType ==
  ASSUME TypeOK, NEW q \in Requests, NEW r \in DOMAIN need[q]
  PROVE  need[q][r] \in Nat /\ r \in Resources
  BY AmountsAssumption DEF TypeOK, Needs

LEMMA ClaimType ==
  ASSUME TypeOK, NEW q \in Requests, NEW c \in claims[q]
  PROVE  c \in Claim /\ c.amount \in Nat /\ c.resource \in Resources /\ c.pooled \in BOOLEAN
  BY DEF TypeOK, Claim

LEMMA ToppedUpType ==
  ASSUME NEW S, NEW f \in [S -> Nat], NEW x, NEW n \in Nat
  PROVE  [f EXCEPT ![x] = @ + n] \in [S -> Nat]
<1>1. CASE x \in S
  BY <1>1
<1>2. CASE x \notin S
  BY <1>2
<1>3. QED
  BY <1>1, <1>2

\* Releasing a claim leaves the lakes what they are, with natural amounts.
LEMMA ReleaseType ==
  ASSUME TypeOK, NEW c, c.amount \in Nat, NEW times \in Nat
  PROVE  /\ DOMAIN IntRelease(c, times) = DOMAIN lake
         /\ IntRelease(c, times) \in [DOMAIN lake -> Nat]
<1> DEFINE n == times * c.amount
<1>1. n \in Nat
  OBVIOUS
<1> HIDE DEF n
<1>2. [lake EXCEPT ![c.resource] = @ + n] \in [DOMAIN lake -> Nat]
  BY <1>1, ToppedUpType DEF TypeOK
<1>3. IntRelease(c, times) = IF c.pooled THEN [lake EXCEPT ![c.resource] = @ + n] ELSE lake
  BY DEF IntRelease, n
<1>4. QED
  BY <1>2, <1>3 DEF TypeOK

\* A claim holds as many units as its amount.
LEMMA UnitsCount ==
  ASSUME NEW q, NEW c, c.amount \in Nat
  PROVE  /\ IsFiniteSet(Units(q, c))
         /\ Cardinality(Units(q, c)) = c.amount
<1>1. IsFiniteSet({<<q, c>>}) /\ Cardinality({<<q, c>>}) = 1
  BY FS_Singleton
<1>2. IsFiniteSet(1 .. c.amount) /\ Cardinality(1 .. c.amount) = c.amount
  BY FS_Interval
<1>3. Cardinality(Units(q, c)) = 1 * c.amount
  BY <1>1, <1>2, FS_Product DEF Units
<1>4. QED
  BY <1>1, <1>2, <1>3, FS_Product DEF Units

\* Units of different claims are different.
LEMMA UnitsDisjoint ==
  ASSUME NEW p, NEW q, NEW c, NEW d, NEW u, u \in Units(p, c), u \in Units(q, d)
  PROVE  p = q /\ c = d
  BY DEF Units

LEMMA HeldUnitsMember ==
  ASSUME NEW r, NEW u
  PROVE  u \in HeldUnits(r) <=>
           \E q \in Requests : \E c \in claims[q] :
             c.resource = r /\ c.pooled /\ u \in Units(q, c)
  BY DEF HeldUnits, HoldsClaim

----------------------------------------------------------------------------
(* The manager's state always has its type: a lake never goes below zero,  *)
(* and a claim never has another amount than a natural number.             *)
THEOREM TypeCorrect == Spec => []TypeOK
<1>1. Init => TypeOK
  <2> SUFFICES ASSUME Init PROVE TypeOK
    OBVIOUS
  <2>1. [r \in {} |-> 0] \in Needs
    <3>1. [r \in {} |-> 0] \in [{} -> Amounts]
      OBVIOUS
    <3>2. {} \in SUBSET Resources
      OBVIOUS
    <3>3. QED
      BY <3>1, <3>2, Zenon DEF Needs
  <2>2. need \in [Requests -> Needs]
    BY <2>1 DEF Init
  <2>3. QED
    BY <2>2 DEF Init, TypeOK, Phases
<1>2. TypeOK /\ [Next]_vars => TypeOK'
  <2> SUFFICES ASSUME TypeOK, [Next]_vars PROVE TypeOK'
    OBVIOUS
  <2>1. ASSUME NEW r \in Resources, NEW a \in Amounts, Add(r, a) PROVE TypeOK'
    BY <2>1, AmountsAssumption DEF TypeOK, Add, Registered
  <2>2. ASSUME NEW q \in Requests, NEW n \in Needs, Arrive(q, n) PROVE TypeOK'
    BY <2>2 DEF TypeOK, Arrive, Phases
  <2>3. ASSUME NEW q \in Requests, NEW r \in Resources, Consume(q, r) PROVE TypeOK'
    <3>1. r \in DOMAIN need[q] /\ need[q][r] \in Nat
      BY <2>3, NeedType DEF Consume, Unvisited
    <3>2. PooledClaim(r, need[q][r]) \in Claim /\ DetachedClaim(r, need[q][r]) \in Claim
      BY <3>1 DEF PooledClaim, DetachedClaim, Claim
    <3>3. claims' \in [Requests -> SUBSET Claim]
      BY <2>3, <3>2 DEF TypeOK, Consume
    <3>4. DOMAIN lake' = DOMAIN lake /\ lake' \in [DOMAIN lake -> Nat]
      BY <2>3, <3>1 DEF TypeOK, Consume, Consumable, Registered
    <3>5. QED
      BY <2>3, <3>3, <3>4 DEF TypeOK, Consume
  <2>4. ASSUME NEW q \in Requests, NEW r \in Resources, Refuse(q, r) PROVE TypeOK'
    BY <2>4 DEF TypeOK, Refuse, Phases
  <2>5. ASSUME NEW q \in Requests, Admit(q) \/ Finish(q) \/ Dropped(q) PROVE TypeOK'
    BY <2>5 DEF TypeOK, Admit, Finish, Dropped, Phases
  <2>6. ASSUME NEW q \in Requests, NEW c \in claims[q], DropClaim(q, c) PROVE TypeOK'
    <3>1. c \in Claim /\ c.amount \in Nat
      BY ClaimType
    <3>2. DOMAIN lake' = DOMAIN lake /\ lake' \in [DOMAIN lake -> Nat]
      BY <2>6, <3>1, ReleaseType DEF DropClaim
    <3>3. QED
      BY <2>6, <3>2 DEF TypeOK, DropClaim
  <2>7. ASSUME NEW q \in Requests, NEW c \in claims[q], Release(q, c) PROVE TypeOK'
    <3>1. c \in Claim /\ c.amount \in Nat /\ c.resource \in Resources
      BY ClaimType
    <3>2. DOMAIN lake' = DOMAIN lake /\ lake' \in [DOMAIN lake -> Nat]
      BY <2>7, <3>1, ReleaseType DEF Release
    <3>3. overpaid' \in [Resources -> Nat]
      BY <2>7, <3>1 DEF TypeOK, Release
    <3>4. QED
      BY <2>7, <3>2, <3>3 DEF TypeOK, Release
  <2>8. CASE UNCHANGED vars
    BY <2>8 DEF TypeOK, vars
  <2>9. QED
    BY <2>1, <2>2, <2>3, <2>4, <2>5, <2>6, <2>7, <2>8 DEF Next
<1>3. QED
  BY <1>1, <1>2, PTL DEF Spec

----------------------------------------------------------------------------
(* How a step changes the held units.                                      *)

LEMMA SameUnits ==
  ASSUME claims' = claims, NEW r
  PROVE  HeldUnits(r)' = HeldUnits(r)
  BY DEF HeldUnits, HoldsClaim

\* A new claim adds its own units, which nobody held.
LEMMA TakenUnits ==
  ASSUME TypeOK, NEW q \in Requests, NEW c, c \notin claims[q], NEW r,
         claims' = [claims EXCEPT ![q] = @ \cup {c}]
  PROVE  /\ HeldUnits(r) \cap Units(q, c) = {}
         /\ HeldUnits(r)' = IF c.pooled /\ c.resource = r
                            THEN HeldUnits(r) \cup Units(q, c) ELSE HeldUnits(r)
<1>1. HeldUnits(r) \cap Units(q, c) = {}
  BY HeldUnitsMember, UnitsDisjoint
<1>2. \A p \in Requests : claims'[p] = IF p = q THEN claims[q] \cup {c} ELSE claims[p]
  BY DEF TypeOK
<1>3. ASSUME NEW u
      PROVE  u \in HeldUnits(r)' <=>
               \E p \in Requests : \E d \in claims'[p] :
                 d.resource = r /\ d.pooled /\ u \in Units(p, d)
  BY DEF HeldUnits, HoldsClaim, Units
<1>4. ASSUME NEW u
      PROVE  u \in HeldUnits(r)' <=>
               u \in HeldUnits(r) \/ (c.pooled /\ c.resource = r /\ u \in Units(q, c))
  BY <1>2, <1>3, HeldUnitsMember
<1>5. QED
  BY <1>1, <1>4

\* A claim that goes away takes its own units with it, which were held.
LEMMA ReturnedUnits ==
  ASSUME TypeOK, NEW q \in Requests, NEW c \in claims[q], NEW r,
         claims' = [claims EXCEPT ![q] = @ \ {c}]
  PROVE  /\ c.pooled /\ c.resource = r => Units(q, c) \subseteq HeldUnits(r)
         /\ HeldUnits(r)' = IF c.pooled /\ c.resource = r
                            THEN HeldUnits(r) \ Units(q, c) ELSE HeldUnits(r)
<1>1. c.pooled /\ c.resource = r => Units(q, c) \subseteq HeldUnits(r)
  BY HeldUnitsMember
<1>2. \A p \in Requests : claims'[p] = IF p = q THEN claims[q] \ {c} ELSE claims[p]
  BY DEF TypeOK
<1>3. ASSUME NEW u
      PROVE  u \in HeldUnits(r)' <=>
               \E p \in Requests : \E d \in claims'[p] :
                 d.resource = r /\ d.pooled /\ u \in Units(p, d)
  BY DEF HeldUnits, HoldsClaim, Units
<1>4. ASSUME NEW u
      PROVE  u \in HeldUnits(r)' <=>
               u \in HeldUnits(r) /\ ~(c.pooled /\ c.resource = r /\ u \in Units(q, c))
  <2>1. CASE u \in Units(q, c)
    BY <1>2, <1>3, <2>1, HeldUnitsMember, UnitsDisjoint
  <2>2. CASE u \notin Units(q, c)
    BY <1>2, <1>3, <2>2, HeldUnitsMember
  <2>3. QED
    BY <2>1, <2>2
<1>5. QED
  BY <1>1, <1>4

----------------------------------------------------------------------------
(* What a lake holds and what its claims hold change together.             *)

\* A step that leaves lakes, claims and the two histories alone.
LEMMA LakeStutter ==
  ASSUME LakeInv, UNCHANGED <<lake, claims, added, overpaid>>
  PROVE  LakeInv'
<1>1. \A r : HeldUnits(r)' = HeldUnits(r)
  BY SameUnits
<1>2. QED
  BY <1>1 DEF LakeInv, ClaimsOnLakes, NoLakeNoUnits, Balanced

LEMMA LakeAdd ==
  ASSUME TypeOK, LakeInv, NEW r \in Resources, NEW a \in Amounts, Add(r, a)
  PROVE  LakeInv'
<1>1. \A s : HeldUnits(s)' = HeldUnits(s)
  BY SameUnits DEF Add
<1>2. DOMAIN lake' = DOMAIN lake \cup {r}
  BY DEF Add
<1>3. ClaimsOnLakes'
  BY <1>2 DEF LakeInv, ClaimsOnLakes, Add
<1>4. NoLakeNoUnits'
  BY <1>2 DEF LakeInv, NoLakeNoUnits, Add, TypeOK
<1>5. ASSUME NEW s \in Resources
      PROVE  /\ IsFiniteSet(HeldUnits(s))
             /\ s \in DOMAIN lake' =>
                  lake'[s] + Cardinality(HeldUnits(s)) = added'[s] + overpaid'[s]
  <2>1. IsFiniteSet(HeldUnits(s)) /\ Cardinality(HeldUnits(s)) \in Nat
    BY FS_CardinalityType DEF LakeInv, Balanced
  <2>2. CASE s # r
    BY <1>2, <2>1, <2>2 DEF LakeInv, Balanced, Add, TypeOK
  <2>3. CASE s = r /\ Registered(r)
    <3>1. lake'[s] = lake[s] + a /\ added'[s] = added[s] + a /\ overpaid' = overpaid
      BY <2>3 DEF Add, TypeOK
    <3>2. lake[s] \in Nat /\ added[s] \in Nat /\ overpaid[s] \in Nat /\ a \in Nat
      BY <2>3, AmountsAssumption DEF TypeOK, Registered
    <3>3. lake[s] + Cardinality(HeldUnits(s)) = added[s] + overpaid[s]
      BY <2>3 DEF LakeInv, Balanced, Registered
    <3>4. QED
      BY <2>1, <3>1, <3>2, <3>3
  <2>4. CASE s = r /\ ~Registered(r)
    <3>1. HeldUnits(s) = {}
      BY <2>4, HeldUnitsMember DEF LakeInv, ClaimsOnLakes, Registered
    <3>2. Cardinality(HeldUnits(s)) = 0
      BY <3>1, FS_EmptySet
    <3>3. added[s] = 0 /\ overpaid[s] = 0
      BY <2>4 DEF LakeInv, NoLakeNoUnits, Registered
    <3>4. lake'[s] = a /\ added'[s] = added[s] + a /\ overpaid' = overpaid
      BY <2>4 DEF Add, TypeOK
    <3>5. a \in Nat
      BY AmountsAssumption
    <3>6. QED
      BY <2>1, <3>2, <3>3, <3>4, <3>5
  <2>5. QED
    BY <2>2, <2>3, <2>4
<1>6. Balanced'
  BY <1>1, <1>5 DEF Balanced
<1>7. QED
  BY <1>3, <1>4, <1>6 DEF LakeInv

LEMMA LakeConsume ==
  ASSUME TypeOK, LakeInv, NEW q \in Requests, NEW r \in Resources, Consume(q, r)
  PROVE  LakeInv'
<1> DEFINE a == need[q][r]
           c == IF Registered(r) THEN PooledClaim(r, a) ELSE DetachedClaim(r, a)
<1>1. r \in DOMAIN need[q] /\ a \in Nat /\ (Registered(r) => a <= lake[r])
  BY NeedType DEF Consume, Unvisited, Consumable
<1>2. c.resource = r /\ c.amount = a /\ (c.pooled <=> Registered(r))
  BY DEF PooledClaim, DetachedClaim
<1>3. c \notin claims[q]
  BY <1>2 DEF Consume, Unvisited
<1>4. claims' = [claims EXCEPT ![q] = @ \cup {c}] /\ added' = added /\ overpaid' = overpaid
  BY DEF Consume
<1>5. lake' = IF Registered(r) THEN [lake EXCEPT ![r] = @ - a] ELSE lake
  BY DEF Consume
<1>6. DOMAIN lake' = DOMAIN lake
  BY <1>5
<1> HIDE DEF a, c
<1>7. ClaimsOnLakes'
  BY <1>2, <1>4, <1>6 DEF LakeInv, ClaimsOnLakes, TypeOK, Registered
<1>8. NoLakeNoUnits'
  BY <1>4, <1>6 DEF LakeInv, NoLakeNoUnits
<1>9. ASSUME NEW s \in Resources
      PROVE  /\ IsFiniteSet(HeldUnits(s)')
             /\ s \in DOMAIN lake' =>
                  lake'[s] + Cardinality(HeldUnits(s)') = added[s] + overpaid[s]
  <2>1. IsFiniteSet(HeldUnits(s)) /\ Cardinality(HeldUnits(s)) \in Nat
    BY FS_CardinalityType DEF LakeInv, Balanced
  <2>2. s \in DOMAIN lake =>
          lake[s] + Cardinality(HeldUnits(s)) = added[s] + overpaid[s]
    BY DEF LakeInv, Balanced
  <2>3. CASE s # r \/ ~Registered(r)
    <3>1. HeldUnits(s)' = HeldUnits(s)
      BY <1>2, <1>3, <1>4, <2>3, TakenUnits
    <3>2. s \in DOMAIN lake => lake'[s] = lake[s]
      BY <1>5, <2>3 DEF TypeOK
    <3>3. QED
      BY <1>6, <2>1, <2>2, <3>1, <3>2
  <2>4. CASE s = r /\ Registered(r)
    <3>1. /\ HeldUnits(s)' = HeldUnits(s) \cup Units(q, c)
          /\ HeldUnits(s) \cap Units(q, c) = {}
      BY <1>2, <1>3, <1>4, <2>4, TakenUnits
    <3>2. IsFiniteSet(Units(q, c)) /\ Cardinality(Units(q, c)) = a
      BY <1>1, <1>2, UnitsCount
    <3>3. /\ IsFiniteSet(HeldUnits(s)')
          /\ Cardinality(HeldUnits(s)') = Cardinality(HeldUnits(s)) + a - Cardinality({})
      BY <2>1, <3>1, <3>2, FS_Union
    <3>4. Cardinality({}) = 0
      BY FS_EmptySet
    <3>5. s \in DOMAIN lake /\ lake[s] \in Nat /\ lake'[s] = lake[s] - a
      BY <1>5, <2>4 DEF TypeOK, Registered
    <3>6. added[s] \in Nat /\ overpaid[s] \in Nat
      BY DEF TypeOK
    <3>7. QED
      BY <1>1, <2>1, <2>2, <3>3, <3>4, <3>5, <3>6
  <2>5. QED
    BY <2>3, <2>4
<1>10. Balanced'
  BY <1>4, <1>9 DEF Balanced
<1>11. QED
  BY <1>7, <1>8, <1>10 DEF LakeInv

\* A claim goes away and pays its amount back, and m units too many.
LEMMA LakePayBack ==
  ASSUME TypeOK, LakeInv, NEW q \in Requests, NEW c \in claims[q], NEW m \in Nat,
         claims' = [claims EXCEPT ![q] = @ \ {c}],
         lake' = IF c.pooled THEN [lake EXCEPT ![c.resource] = @ + (c.amount + m)] ELSE lake,
         overpaid' = IF c.pooled THEN [overpaid EXCEPT ![c.resource] = @ + m] ELSE overpaid,
         added' = added
  PROVE  LakeInv'
<1>1. c.amount \in Nat /\ c.resource \in Resources /\ c.pooled \in BOOLEAN
  BY ClaimType
<1>2. DOMAIN lake' = DOMAIN lake
  OBVIOUS
<1>3. ClaimsOnLakes'
  BY <1>2 DEF LakeInv, ClaimsOnLakes, TypeOK
<1>4. c.pooled => c.resource \in DOMAIN lake
  BY DEF LakeInv, ClaimsOnLakes
<1>5. NoLakeNoUnits'
  BY <1>2, <1>4 DEF LakeInv, NoLakeNoUnits, TypeOK
<1>6. ASSUME NEW s \in Resources
      PROVE  /\ IsFiniteSet(HeldUnits(s)')
             /\ s \in DOMAIN lake' =>
                  lake'[s] + Cardinality(HeldUnits(s)') = added[s] + overpaid'[s]
  <2>1. IsFiniteSet(HeldUnits(s)) /\ Cardinality(HeldUnits(s)) \in Nat
    BY FS_CardinalityType DEF LakeInv, Balanced
  <2>2. s \in DOMAIN lake =>
          lake[s] + Cardinality(HeldUnits(s)) = added[s] + overpaid[s]
    BY DEF LakeInv, Balanced
  <2>3. CASE ~(c.pooled /\ c.resource = s)
    <3>1. HeldUnits(s)' = HeldUnits(s)
      BY <2>3, ReturnedUnits
    <3>2. (s \in DOMAIN lake => lake'[s] = lake[s]) /\ overpaid'[s] = overpaid[s]
      BY <2>3 DEF TypeOK
    <3>3. QED
      BY <1>2, <2>1, <2>2, <3>1, <3>2
  <2>4. CASE c.pooled /\ c.resource = s
    <3>1. /\ HeldUnits(s)' = HeldUnits(s) \ Units(q, c)
          /\ Units(q, c) \subseteq HeldUnits(s)
      BY <2>4, ReturnedUnits
    <3>2. HeldUnits(s) \cap Units(q, c) = Units(q, c)
      BY <3>1
    <3>3. Cardinality(Units(q, c)) = c.amount
      BY <1>1, UnitsCount
    <3>4. /\ IsFiniteSet(HeldUnits(s)')
          /\ Cardinality(HeldUnits(s)') = Cardinality(HeldUnits(s)) - c.amount
      <4>1. /\ IsFiniteSet(HeldUnits(s) \ Units(q, c))
            /\ Cardinality(HeldUnits(s) \ Units(q, c)) =
                 Cardinality(HeldUnits(s)) - Cardinality(HeldUnits(s) \cap Units(q, c))
        BY <2>1, FS_Difference
      <4>2. QED
        BY <3>1, <3>2, <3>3, <4>1
    <3>5. s \in DOMAIN lake /\ lake[s] \in Nat /\ lake'[s] = lake[s] + (c.amount + m)
      BY <1>4, <2>4 DEF TypeOK
    <3>6. added[s] \in Nat /\ overpaid[s] \in Nat /\ overpaid'[s] = overpaid[s] + m
      BY <2>4 DEF TypeOK
    <3>7. QED
      BY <1>1, <2>1, <2>2, <3>4, <3>5, <3>6
  <2>5. QED
    BY <2>3, <2>4
<1>7. Balanced'
  BY <1>6 DEF Balanced
<1>8. QED
  BY <1>3, <1>5, <1>7 DEF LakeInv

LEMMA LakeNext == TypeOK /\ LakeInv /\ [Next]_vars => LakeInv'
<1> SUFFICES ASSUME TypeOK, LakeInv, [Next]_vars PROVE LakeInv'
  OBVIOUS
<1>1. ASSUME NEW r \in Resources, NEW a \in Amounts, Add(r, a) PROVE LakeInv'
  BY <1>1, LakeAdd
<1>2. ASSUME NEW q \in Requests, NEW n \in Needs, Arrive(q, n) PROVE LakeInv'
  BY <1>2, LakeStutter DEF Arrive
<1>3. ASSUME NEW q \in Requests, NEW r \in Resources, Consume(q, r) PROVE LakeInv'
  BY <1>3, LakeConsume
<1>4. ASSUME NEW q \in Requests, NEW r \in Resources, Refuse(q, r) PROVE LakeInv'
  BY <1>4, LakeStutter DEF Refuse
<1>5. ASSUME NEW q \in Requests, Admit(q) \/ Finish(q) \/ Dropped(q) PROVE LakeInv'
  BY <1>5, LakeStutter DEF Admit, Finish, Dropped
<1>6. ASSUME NEW q \in Requests, NEW c \in claims[q], DropClaim(q, c) PROVE LakeInv'
  <2>1. c.amount \in Nat /\ c.resource \in Resources
    BY ClaimType
  <2>2. lake' = IF c.pooled THEN [lake EXCEPT ![c.resource] = @ + (c.amount + 0)] ELSE lake
    <3>1. 1 * c.amount = c.amount + 0
      BY <2>1
    <3>2. lake' = IntRelease(c, 1)
      BY <1>6 DEF DropClaim
    <3>3. QED
      BY <3>1, <3>2, Zenon DEF IntRelease
  <2>3. overpaid' = IF c.pooled THEN [overpaid EXCEPT ![c.resource] = @ + 0] ELSE overpaid
    BY <1>6, <2>1 DEF DropClaim, TypeOK
  <2>4. QED
    BY <1>6, <2>2, <2>3, LakePayBack DEF DropClaim
<1>7. ASSUME NEW q \in Requests, NEW c \in claims[q], Release(q, c) PROVE LakeInv'
  <2>1. c.amount \in Nat
    BY ClaimType
  <2>2. lake' = IF c.pooled
                THEN [lake EXCEPT ![c.resource] = @ + (c.amount + c.amount)] ELSE lake
    <3>1. 2 * c.amount = c.amount + c.amount
      BY <2>1
    <3>2. lake' = IntRelease(c, 2)
      BY <1>7 DEF Release
    <3>3. QED
      BY <3>1, <3>2, Zenon DEF IntRelease
  <2>3. QED
    BY <1>7, <2>1, <2>2, LakePayBack DEF Release
<1>8. CASE UNCHANGED vars
  BY <1>8, LakeStutter DEF vars
<1>9. QED
  BY <1>1, <1>2, <1>3, <1>4, <1>5, <1>6, <1>7, <1>8 DEF Next

LEMMA LakeInitial == Init => LakeInv
<1> SUFFICES ASSUME Init PROVE LakeInv
  OBVIOUS
<1>1. ASSUME NEW r PROVE HeldUnits(r) = {}
  BY DEF Init, HeldUnits, HoldsClaim
<1>2. Balanced
  BY <1>1, FS_EmptySet DEF Init, Balanced
<1>3. QED
  BY <1>2 DEF Init, LakeInv, ClaimsOnLakes, NoLakeNoUnits

(* Claimed and free units of a lake always add up to what was put in, for  *)
(* any number of requests and resources.                                   *)
THEOREM ConservationHolds == Spec => []Conservation
<1>1. TypeOK /\ LakeInv => Conservation
  BY DEF TypeOK, LakeInv, Balanced, Conservation
<1>2. QED
  BY <1>1, TypeCorrect, LakeInitial, LakeNext, PTL DEF Spec

----------------------------------------------------------------------------
(* Admission is all or nothing.                                            *)

LEMMA AnswersInitial == Init => ClaimsAnswerNeeds
  BY DEF Init, ClaimsAnswerNeeds

LEMMA AnswersNext == TypeOK /\ ClaimsAnswerNeeds /\ [Next]_vars => ClaimsAnswerNeeds'
<1> SUFFICES ASSUME TypeOK, ClaimsAnswerNeeds, [Next]_vars PROVE ClaimsAnswerNeeds'
  OBVIOUS
<1>1. ASSUME NEW r \in Resources, NEW a \in Amounts, Add(r, a) PROVE ClaimsAnswerNeeds'
  BY <1>1 DEF Add, ClaimsAnswerNeeds
<1>2. ASSUME NEW q \in Requests, NEW n \in Needs, Arrive(q, n) PROVE ClaimsAnswerNeeds'
  BY <1>2 DEF Arrive, ClaimsAnswerNeeds, TypeOK
<1>3. ASSUME NEW q \in Requests, NEW r \in Resources, Consume(q, r)
      PROVE  ClaimsAnswerNeeds'
  <2> DEFINE c == IF Registered(r) THEN PooledClaim(r, need[q][r])
                  ELSE DetachedClaim(r, need[q][r])
  <2>1. /\ c.resource = r /\ c.amount = need[q][r]
        /\ c.pooled \/ permissive
    BY <1>3 DEF PooledClaim, DetachedClaim, Consume, Consumable
  <2>2. claims' = [claims EXCEPT ![q] = @ \cup {c}]
    BY <1>3 DEF Consume
  <2>3. /\ r \in DOMAIN need[q] /\ \A d \in claims[q] : d.resource # r
        /\ phase[q] = "claiming" /\ UNCHANGED <<phase, need, permissive>>
    BY <1>3 DEF Consume, Unvisited
  <2> HIDE DEF c
  <2>4. \A p \in Requests : claims'[p] = IF p = q THEN claims[q] \cup {c} ELSE claims[p]
    BY <2>2 DEF TypeOK
  <2>5. QED
    BY <2>1, <2>3, <2>4 DEF ClaimsAnswerNeeds
<1>4. ASSUME NEW q \in Requests, NEW r \in Resources, Refuse(q, r)
      PROVE  ClaimsAnswerNeeds'
  BY <1>4 DEF Refuse, ClaimsAnswerNeeds, TypeOK
<1>5. ASSUME NEW q \in Requests, Admit(q) \/ Finish(q) \/ Dropped(q)
      PROVE  ClaimsAnswerNeeds'
  BY <1>5 DEF Admit, Finish, Dropped, ClaimsAnswerNeeds, TypeOK
<1>6. ASSUME NEW q \in Requests, NEW c \in claims[q], DropClaim(q, c) \/ Release(q, c)
      PROVE  ClaimsAnswerNeeds'
  <2>1. /\ \A p \in Requests : claims'[p] = IF p = q THEN claims[q] \ {c} ELSE claims[p]
        /\ UNCHANGED <<phase, need, permissive>>
    BY <1>6 DEF DropClaim, Release, TypeOK
  <2>2. QED
    BY <2>1 DEF ClaimsAnswerNeeds
<1>7. CASE UNCHANGED vars
  BY <1>7 DEF vars, ClaimsAnswerNeeds
<1>8. QED
  BY <1>1, <1>2, <1>3, <1>4, <1>5, <1>6, <1>7 DEF Next

\* As many claims as needs, one claim for a need: every need has its claim.
LEMMA AllClaimedCovers ==
  ASSUME TypeOK, ClaimsAnswerNeeds, NEW q \in Requests, AllClaimed(q),
         NEW r \in DOMAIN need[q]
  PROVE  \E c \in claims[q] : c.resource = r
<1> DEFINE f == [c \in claims[q] |-> c.resource]
<1>1. IsFiniteSet(DOMAIN need[q])
  <2>1. DOMAIN need[q] \subseteq Resources
    BY DEF TypeOK, Needs
  <2>2. QED
    BY <2>1, ResourcesAssumption, FS_Subset
<1>2. f \in Injection(claims[q], DOMAIN need[q])
  BY DEF Injection, IsInjective, ClaimsAnswerNeeds
<1>3. f \in Surjection(claims[q], DOMAIN need[q])
  BY <1>1, <1>2, FS_Injection DEF AllClaimed
<1>4. QED
  BY <1>3 DEF Surjection

(* No request reaches the executor without a claim for each resource it    *)
(* named, whatever the manager holds and whoever else is asking.           *)
THEOREM AdmittedInFull == Spec => FullyProvisioned
<1>1. TypeOK /\ ClaimsAnswerNeeds /\ [Next]_vars =>
        [\A q \in Requests :
           phase[q] = "claiming" /\ phase'[q] = "running" =>
             \A r \in DOMAIN need[q] :
               \E c \in claims'[q] :
                 c.resource = r /\ c.amount = need[q][r] /\ (c.pooled \/ permissive)]_vars
  <2> SUFFICES ASSUME TypeOK, ClaimsAnswerNeeds, Next, NEW q \in Requests,
                      phase[q] = "claiming", phase'[q] = "running",
                      NEW r \in DOMAIN need[q]
               PROVE  \E c \in claims'[q] :
                        c.resource = r /\ c.amount = need[q][r] /\ (c.pooled \/ permissive)
    BY DEF vars
  <2>1. Admit(q)
    BY DEF Next, TypeOK, Add, Arrive, Consume, Refuse, Admit, Finish, DropClaim,
           Dropped, Release
  <2>2. PICK c \in claims[q] : c.resource = r
    BY <2>1, AllClaimedCovers DEF Admit
  <2>3. QED
    BY <2>1, <2>2 DEF Admit, ClaimsAnswerNeeds
<1>2. QED
  BY <1>1, TypeCorrect, AnswersInitial, AnswersNext, PTL DEF Spec, FullyProvisioned
============================================================================
