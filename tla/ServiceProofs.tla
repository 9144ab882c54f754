---------------------------- MODULE ServiceProofs ---------------------------
(***************************************************************************)
(* The times of registrations: that they are kept, published and gone in   *)
(* time, and that leases implement the registry, for any number of         *)
(* instances and any times that TimesAssumption allows.                    *)
(***************************************************************************)
EXTENDS Service, TLAPS

LEMMA Times ==
  /\ ETCD_LEASE_TTL_SEC \in Nat /\ Latency \in Nat /\ keepalive_time \in Nat
  /\ Latency <= keepalive_time
  /\ keepalive_time + 2 * Latency < ETCD_LEASE_TTL_SEC
  /\ 4 * Latency < ETCD_LEASE_TTL_SEC
  BY TimesAssumption DEF TimesAssumption, keepalive_time

\* The steps of Discovery that change anything.
DiscoveryStep(i) ==
  \/ \E r \in Resources : Register(i, r) \/ Update(i, r)
  \/ Grant(i) \/ PutRegistration(i) \/ RegisterFails(i) \/ KeeperStep(i)
  \/ PutUpdate(i) \/ UpdateFails(i) \/ Deregister(i) \/ Drop(i) \/ Crash(i)

\* The part of TypeOK that is about Discovery.
Typed ==
  /\ handle \in [Instances -> HandleState] /\ keeper \in [Instances -> KeeperState]
  /\ enabled \in [Instances -> BOOLEAN] /\ missed \in [Instances -> BOOLEAN]
  /\ lease \in [DOMAIN lease -> 0 .. ETCD_LEASE_TTL_SEC] /\ DOMAIN lease \subseteq Instances
  /\ key \in [DOMAIN key -> Resources] /\ DOMAIN key \subseteq {i \in DOMAIN lease : lease[i] > 0}

\* Where the handle of i is tells what i has, and which waits are short.
Life(i) ==
  /\ handle[i].pc \in {"none", "granting"} => i \notin DOMAIN lease
  /\ handle[i].pc \in {"putting", "held", "updating", "dropped"} => i \in DOMAIN lease
  /\ handle[i].pc \in {"none", "granting", "putting", "failed"} => keeper[i].pc = "off"
  /\ handle[i].pc \notin {"held", "updating"} => ~enabled[i]
  /\ keeper[i].pc \in {"opening", "asking", "sleeping"} => i \in DOMAIN lease
  /\ handle[i].pc # "none" => handle[i].stored \in Resources
  /\ handle[i].pc \in {"granting", "updating"} => handle[i].wait <= Latency
  /\ keeper[i].pc = "asking" => keeper[i].wait <= Latency

\* The lease outlasts what its next keep-alive may still take.
Kept(i) ==
  /\ handle[i].pc = "putting" => lease[i] + 2 * Latency >= ETCD_LEASE_TTL_SEC + handle[i].wait
  /\ Running(i) /\ enabled[i] /\ ~missed[i] =>
       /\ i \in DOMAIN key
       /\ keeper[i].pc \in {"opening", "asking", "sleeping"}
       /\ lease[i] > keeper[i].wait + (IF keeper[i].pc = "asking" THEN 0 ELSE Latency)

Lives == \A i \in Instances : Life(i) /\ Kept(i)

----------------------------------------------------------------------------
(* The parts that steps are made of.                                       *)

LEMMA HandleMoves ==
  ASSUME Typed, NEW i \in Instances, NEW pc \in HandlePcs, NEW wait \in 0 .. 2 * Latency,
         HandleAt(i, pc, wait)
  PROVE  /\ handle' \in [Instances -> HandleState]
         /\ handle'[i].pc = pc /\ handle'[i].wait = wait /\ handle'[i].stored = handle[i].stored
         /\ \A j \in Instances \ {i} : handle'[j] = handle[j]
<1>1. [handle[i] EXCEPT !.pc = pc, !.wait = wait] \in HandleState
  BY DEF Typed, HandleState
<1>2. QED
  BY <1>1 DEF HandleAt, Typed, HandleState

LEMMA HandleStarts ==
  ASSUME Typed, NEW i \in Instances, NEW pc \in HandlePcs, NEW r \in Resources,
         handle' = [handle EXCEPT ![i] = [pc |-> pc, wait |-> Latency, stored |-> r]]
  PROVE  /\ handle' \in [Instances -> HandleState]
         /\ handle'[i].pc = pc /\ handle'[i].wait = Latency /\ handle'[i].stored = r
         /\ \A j \in Instances \ {i} : handle'[j] = handle[j]
<1>1. [pc |-> pc, wait |-> Latency, stored |-> r] \in HandleState
  BY Times DEF HandleState
<1>2. QED
  BY <1>1 DEF Typed

LEMMA KeeperMoves ==
  ASSUME Typed, NEW i \in Instances, NEW pc \in KeeperPcs,
         NEW wait \in 0 .. keepalive_time + Latency, KeeperAt(i, pc, wait)
  PROVE  /\ keeper' \in [Instances -> KeeperState]
         /\ keeper'[i].pc = pc /\ keeper'[i].wait = wait
         /\ \A j \in Instances \ {i} : keeper'[j] = keeper[j]
  BY DEF KeeperAt, Typed, KeeperState

\* A key is written with its lease, or not at all.
LEMMA KeyWritten ==
  ASSUME Typed, NEW i \in Instances, i \in DOMAIN lease, handle[i].stored \in Resources,
         LeasePut(i), UNCHANGED lease
  PROVE  /\ key' \in [DOMAIN key' -> Resources]
         /\ DOMAIN key' \subseteq {j \in DOMAIN lease' : lease'[j] > 0}
         /\ DOMAIN key' = DOMAIN key \cup {i} /\ key'[i] = handle[i].stored
         /\ \A j \in DOMAIN key \ {i} : key'[j] = key[j]
  BY DEF Typed, LeasePut, Write

----------------------------------------------------------------------------
LEMMA RegisterTyped ==
  ASSUME Typed, Lives, NEW i \in Instances, NEW r \in Resources, Register(i, r) \/ Update(i, r)
  PROVE  Typed' /\ Lives'
<1>1. CASE Register(i, r)
  <2>1. /\ handle' \in [Instances -> HandleState]
        /\ handle'[i].pc = "granting" /\ handle'[i].wait = Latency /\ handle'[i].stored = r
        /\ \A j \in Instances \ {i} : handle'[j] = handle[j]
    BY <1>1, HandleStarts DEF Register, HandlePcs
  <2>2. Typed'
    BY <1>1, <2>1 DEF Register, Typed
  <2>3. Lives'
    BY <1>1, <2>1, Times DEF Register, Lives, Life, Kept, Running
  <2>4. QED
    BY <2>2, <2>3
<1>2. CASE Update(i, r)
  <2>1. /\ handle' \in [Instances -> HandleState]
        /\ handle'[i].pc = "updating" /\ handle'[i].wait = Latency /\ handle'[i].stored = r
        /\ \A j \in Instances \ {i} : handle'[j] = handle[j]
    BY <1>2, HandleStarts DEF Update, HandlePcs
  <2>2. Typed'
    BY <1>2, <2>1 DEF Update, Typed
  <2>3. Lives'
    BY <1>2, <2>1, Times DEF Update, Lives, Life, Kept, Running
  <2>4. QED
    BY <2>2, <2>3
<1>3. QED
  BY <1>1, <1>2

LEMMA GrantTyped ==
  ASSUME Typed, Lives, NEW i \in Instances, Grant(i)
  PROVE  Typed' /\ Lives'
<1>1. handle[i].wait \in 0 .. Latency /\ handle[i].pc = "granting"
  BY Times DEF Grant, Lives, Life, Typed, HandleState
<1>2. /\ handle' \in [Instances -> HandleState]
      /\ handle'[i].pc = "putting" /\ handle'[i].wait = handle[i].wait + Latency
      /\ handle'[i].stored = handle[i].stored
      /\ \A j \in Instances \ {i} : handle'[j] = handle[j]
  <2>1. handle[i].wait + Latency \in 0 .. 2 * Latency
    BY <1>1, Times
  <2>2. QED
    BY <2>1, HandleMoves DEF Grant, HandlePcs
<1>3. /\ DOMAIN lease' = DOMAIN lease \cup {i} /\ lease'[i] = ETCD_LEASE_TTL_SEC
      /\ \A j \in DOMAIN lease : lease'[j] = lease[j]
      /\ lease' \in [DOMAIN lease' -> 0 .. ETCD_LEASE_TTL_SEC]
  BY <1>1, Times DEF Grant, Lives, Life, Typed
<1>4. Typed'
  BY <1>2, <1>3 DEF Grant, Typed
<1>5. \A j \in Instances : Life(j)'
  BY <1>1, <1>2, <1>3 DEF Grant, Lives, Life
<1>6. \A j \in Instances : Kept(j)'
  BY <1>1, <1>2, <1>3, Times DEF Grant, Lives, Life, Kept, Running
<1>7. QED
  BY <1>4, <1>5, <1>6 DEF Lives

LEMMA PutRegistrationTyped ==
  ASSUME Typed, Lives, NEW i \in Instances, PutRegistration(i)
  PROVE  Typed' /\ Lives'
<1>1. /\ handle[i].pc = "putting" /\ handle[i].wait \in 0 .. 2 * Latency
      /\ i \in DOMAIN lease /\ handle[i].stored \in Resources
  BY DEF PutRegistration, Lives, Life, Typed, HandleState
<1>2. /\ handle' \in [Instances -> HandleState]
      /\ handle'[i].pc = "held" /\ handle'[i].stored = handle[i].stored
      /\ \A j \in Instances \ {i} : handle'[j] = handle[j]
  <2>1. 0 \in 0 .. 2 * Latency
    BY Times
  <2>2. QED
    BY <2>1, HandleMoves DEF PutRegistration, HandlePcs
<1> DEFINE wait == Answer(handle[i].wait) + Latency
<1>3. /\ wait \in 0 .. keepalive_time + Latency
      /\ wait <= handle[i].wait + Latency /\ wait <= 2 * Latency
  BY <1>1, Times DEF Answer
<1>4. /\ keeper' \in [Instances -> KeeperState]
      /\ keeper'[i].pc = "opening" /\ keeper'[i].wait = wait
      /\ \A j \in Instances \ {i} : keeper'[j] = keeper[j]
  <2>1. KeeperAt(i, "opening", wait)
    BY DEF PutRegistration
  <2> HIDE DEF wait
  <2>2. QED
    BY <1>3, <2>1, KeeperMoves DEF KeeperPcs
<1>5. /\ key' \in [DOMAIN key' -> Resources]
      /\ DOMAIN key' \subseteq {j \in DOMAIN lease' : lease'[j] > 0}
      /\ DOMAIN key' = DOMAIN key \cup {i}
  BY <1>1, KeyWritten DEF PutRegistration
<1>6. lease[i] \in Nat /\ lease[i] > wait + Latency
  <2>1. lease[i] \in Nat /\ lease[i] + 2 * Latency >= ETCD_LEASE_TTL_SEC + handle[i].wait
    BY <1>1 DEF Lives, Kept, Typed
  <2> HIDE DEF wait
  <2>2. QED
    BY <1>1, <1>3, <2>1, Times
<1> HIDE DEF wait
<1>7. enabled' = [enabled EXCEPT ![i] = TRUE] /\ UNCHANGED <<lease, missed>>
  BY DEF PutRegistration
<1>8. Typed'
  BY <1>2, <1>4, <1>5, <1>7 DEF Typed
<1>9. \A j \in Instances : Life(j)'
  BY <1>1, <1>2, <1>4, <1>7 DEF Lives, Life, Typed
<1>10. \A j \in Instances : Kept(j)'
  BY <1>2, <1>4, <1>5, <1>6, <1>7 DEF Lives, Kept, Running, Typed
<1>11. QED
  BY <1>8, <1>9, <1>10 DEF Lives

\* The put of a registration or an update fails, or that of an update succeeds.
LEMMA PutEndsTyped ==
  ASSUME Typed, Lives, NEW i \in Instances,
         PutUpdate(i) \/ UpdateFails(i) \/ RegisterFails(i)
  PROVE  Typed' /\ Lives'
<1> DEFINE pc == IF RegisterFails(i) THEN "failed" ELSE "held"
<1>1. /\ handle[i].pc \in {"granting", "putting", "updating"}
      /\ pc = "held" => handle[i].pc = "updating"
      /\ pc = "failed" => handle[i].pc # "updating"
      /\ HandleAt(i, pc, 0) /\ UNCHANGED <<enabled, keeper, lease, missed>>
  BY DEF PutUpdate, UpdateFails, RegisterFails
<1>2. pc \in HandlePcs
  BY DEF HandlePcs
<1> HIDE DEF pc
<1>3. /\ handle' \in [Instances -> HandleState]
      /\ handle'[i].pc = pc /\ handle'[i].wait = 0 /\ handle'[i].stored = handle[i].stored
      /\ \A j \in Instances \ {i} : handle'[j] = handle[j]
  <2>1. 0 \in 0 .. 2 * Latency
    BY Times
  <2>2. QED
    BY <1>1, <1>2, <2>1, HandleMoves
<1>4. \/ LeasePut(i) /\ handle[i].pc \in {"putting", "updating"}
      \/ UNCHANGED key
  BY DEF PutUpdate, UpdateFails, RegisterFails, Unanswered
<1>5. /\ key' \in [DOMAIN key' -> Resources]
      /\ DOMAIN key' \subseteq {j \in DOMAIN lease' : lease'[j] > 0}
      /\ DOMAIN key \subseteq DOMAIN key'
  <2>1. CASE LeasePut(i) /\ handle[i].pc \in {"putting", "updating"}
    <3>1. i \in DOMAIN lease /\ handle[i].stored \in Resources
      BY <2>1 DEF Lives, Life
    <3>2. QED
      BY <1>1, <2>1, <3>1, KeyWritten
  <2>2. CASE UNCHANGED key
    BY <1>1, <2>2 DEF Typed
  <2>3. QED
    BY <1>4, <2>1, <2>2
<1>6. pc \in {"held", "failed"}
  BY DEF pc
<1>7. Typed'
  BY <1>1, <1>3, <1>5 DEF Typed
<1>8. \A j \in Instances : Life(j)'
  BY <1>1, <1>3, <1>6, Times DEF Lives, Life
<1>9. \A j \in Instances : Kept(j)'
  BY <1>1, <1>3, <1>5, <1>6 DEF Lives, Kept, Running
<1>10. QED
  BY <1>7, <1>8, <1>9 DEF Lives

LEMMA KeeperTyped ==
  ASSUME Typed, Lives, NEW i \in Instances, KeeperStep(i)
  PROVE  Typed' /\ Lives'
<1>1. CASE Check(i)
  <2> DEFINE pc == IF Told(i) THEN "ended" ELSE "asking"
             wait == IF Told(i) THEN 0 ELSE Latency
  <2>1. KeeperAt(i, pc, wait) /\ UNCHANGED <<handle, enabled, lease, key, missed>>
    BY <1>1 DEF Check
  <2>2. pc \in KeeperPcs /\ wait \in 0 .. keepalive_time + Latency /\ wait <= Latency
    BY Times DEF KeeperPcs
  <2>3. pc \in {"asking", "ended"} /\ (enabled[i] => pc = "asking")
    BY DEF Told
  <2> HIDE DEF pc, wait
  <2>4. /\ keeper' \in [Instances -> KeeperState]
        /\ keeper'[i].pc = pc /\ keeper'[i].wait = wait
        /\ \A j \in Instances \ {i} : keeper'[j] = keeper[j]
    BY <2>1, <2>2, KeeperMoves
  <2>5. /\ keeper[i].pc \in {"opening", "sleeping"} /\ keeper[i].wait \in Nat
        /\ i \in DOMAIN lease /\ lease[i] \in Nat
    BY <1>1 DEF Check, Lives, Life, Typed, KeeperState
  <2>6. Typed'
    BY <2>1, <2>4 DEF Typed
  <2>7. \A j \in Instances : Life(j)'
    BY <2>1, <2>2, <2>3, <2>4, <2>5 DEF Lives, Life
  <2>8. \A j \in Instances : Kept(j)'
    BY <2>1, <2>2, <2>3, <2>4, <2>5, Times DEF Lives, Kept, Running
  <2>9. QED
    BY <2>6, <2>7, <2>8 DEF Lives
<1>2. CASE Renew(i)
  <2>1. PICK answer \in 0 .. keeper[i].wait : KeeperAt(i, "sleeping", answer + keepalive_time)
    BY <1>2 DEF Renew
  <2>2. /\ keeper[i].pc = "asking" /\ i \in DOMAIN lease /\ lease[i] \in Nat
        /\ keeper[i].wait \in Nat /\ keeper[i].wait <= Latency
        /\ UNCHANGED <<handle, enabled, key, missed>>
    BY <1>2 DEF Renew, Lives, Life, Typed, KeeperState
  <2>3. answer + keepalive_time \in 0 .. keepalive_time + Latency
    BY <2>2, Times
  <2>4. /\ keeper' \in [Instances -> KeeperState]
        /\ keeper'[i].pc = "sleeping" /\ keeper'[i].wait = answer + keepalive_time
        /\ \A j \in Instances \ {i} : keeper'[j] = keeper[j]
    BY <2>1, <2>3, KeeperMoves DEF KeeperPcs
  <2>5. /\ lease' \in [DOMAIN lease -> 0 .. ETCD_LEASE_TTL_SEC] /\ DOMAIN lease' = DOMAIN lease
        /\ \A j \in DOMAIN lease \ {i} : lease'[j] = lease[j]
        /\ lease'[i] = IF lease[i] = 0 THEN 0 ELSE ETCD_LEASE_TTL_SEC
    BY <1>2, <2>2, Times DEF Renew, Typed
  <2>6. Typed'
    BY <2>2, <2>4, <2>5, Times DEF Typed
  <2>7. \A j \in Instances : Life(j)'
    BY <2>2, <2>4, <2>5 DEF Lives, Life
  <2>8. handle[i].pc # "putting"
    BY <2>2 DEF Lives, Life
  <2>9. \A j \in Instances : Kept(j)'
    <3>1. \A j \in Instances \ {i} : Kept(j)'
      BY <2>2, <2>4, <2>5 DEF Lives, Life, Kept, Running
    <3>2. Kept(i)'
      <4>1. lease[i] > 0 => lease'[i] > keeper'[i].wait + Latency
        BY <2>2, <2>4, <2>5, Times
      <4>2. Running(i) /\ enabled[i] /\ ~missed[i] => i \in DOMAIN key /\ lease[i] > 0
        BY DEF Lives, Kept, Typed
      <4>3. QED
        BY <2>2, <2>4, <2>8, <4>1, <4>2 DEF Kept, Running
    <3>3. QED
      BY <3>1, <3>2
  <2>10. QED
    BY <2>6, <2>7, <2>9 DEF Lives
<1>3. CASE KeepAliveFails(i) \/ KeeperPanics(i)
  <2> DEFINE pc == IF KeepAliveFails(i) THEN "sleeping" ELSE "ended"
             wait == IF KeepAliveFails(i) THEN keepalive_time ELSE 0
  <2>1. /\ KeeperAt(i, pc, wait) /\ UNCHANGED <<handle, enabled, lease, key>>
        /\ missed' = [missed EXCEPT ![i] = TRUE]
        /\ keeper[i].pc \in {"opening", "asking"}
    BY <1>3 DEF KeepAliveFails, KeeperPanics
  <2>2. pc \in {"sleeping", "ended"} /\ wait \in 0 .. keepalive_time + Latency
    BY Times
  <2> HIDE DEF pc, wait
  <2>3. /\ keeper' \in [Instances -> KeeperState]
        /\ keeper'[i].pc = pc /\ keeper'[i].wait = wait
        /\ \A j \in Instances \ {i} : keeper'[j] = keeper[j]
    BY <2>1, <2>2, KeeperMoves DEF KeeperPcs
  <2>4. Typed'
    BY <2>1, <2>3 DEF Typed
  <2>5. \A j \in Instances : Life(j)'
    BY <2>1, <2>2, <2>3 DEF Lives, Life
  <2>6. \A j \in Instances : Kept(j)'
    BY <2>1, <2>3 DEF Lives, Kept, Running, Typed
  <2>7. QED
    BY <2>4, <2>5, <2>6 DEF Lives
<1>4. QED
  BY <1>1, <1>2, <1>3 DEF KeeperStep

LEMMA DisableTyped ==
  ASSUME Typed, Lives, NEW i \in Instances, Deregister(i) \/ Drop(i)
  PROVE  Typed' /\ Lives'
<1> DEFINE pc == IF Deregister(i) THEN "held" ELSE "dropped"
<1>1. /\ HandleAt(i, pc, 0) /\ enabled' = [enabled EXCEPT ![i] = FALSE]
      /\ handle[i].pc = "held" /\ UNCHANGED <<keeper, lease, key, missed>>
  BY DEF Deregister, Drop, Disable
<1>2. pc \in {"held", "dropped"}
  OBVIOUS
<1> HIDE DEF pc
<1>3. /\ handle' \in [Instances -> HandleState]
      /\ handle'[i].pc = pc /\ handle'[i].wait = 0 /\ handle'[i].stored = handle[i].stored
      /\ \A j \in Instances \ {i} : handle'[j] = handle[j]
  <2>1. 0 \in 0 .. 2 * Latency
    BY Times
  <2>2. QED
    BY <1>1, <1>2, <2>1, HandleMoves DEF HandlePcs
<1>4. Typed'
  BY <1>1, <1>3 DEF Typed
<1>5. \A j \in Instances : Life(j)'
  BY <1>1, <1>2, <1>3 DEF Lives, Life, Typed
<1>6. \A j \in Instances : Kept(j)'
  BY <1>1, <1>2, <1>3 DEF Lives, Kept, Running, Typed
<1>7. QED
  BY <1>4, <1>5, <1>6 DEF Lives

LEMMA CrashTyped ==
  ASSUME Typed, Lives, NEW i \in Instances, Crash(i)
  PROVE  Typed' /\ Lives'
<1>1. /\ HandleAt(i, "crashed", 0) /\ enabled' = [enabled EXCEPT ![i] = FALSE]
      /\ handle[i].pc # "none" /\ UNCHANGED <<lease, missed>>
  BY DEF Crash
<1>2. /\ handle' \in [Instances -> HandleState]
      /\ handle'[i].pc = "crashed" /\ handle'[i].wait = 0 /\ handle'[i].stored = handle[i].stored
      /\ \A j \in Instances \ {i} : handle'[j] = handle[j]
  <2>1. 0 \in 0 .. 2 * Latency
    BY Times
  <2>2. QED
    BY <1>1, <2>1, HandleMoves DEF HandlePcs
<1>3. /\ keeper' \in [Instances -> KeeperState]
      /\ keeper'[i].pc = "ended" \/ keeper'[i] = keeper[i]
      /\ \A j \in Instances \ {i} : keeper'[j] = keeper[j]
      /\ keeper'[i].pc \in {"asking", "ended"}
  <2>1. CASE keeper[i].pc = "asking"
    BY <2>1 DEF Crash, Typed
  <2>2. CASE keeper[i].pc # "asking"
    <3>1. 0 \in 0 .. keepalive_time + Latency
      BY Times
    <3>2. QED
      BY <2>2, <3>1, KeeperMoves DEF Crash, KeeperPcs
  <2>3. QED
    BY <2>1, <2>2
<1>4. /\ key' \in [DOMAIN key' -> Resources]
      /\ DOMAIN key' \subseteq {j \in DOMAIN lease' : lease'[j] > 0}
      /\ DOMAIN key \subseteq DOMAIN key'
  <2>1. CASE LeasePut(i) /\ handle[i].pc \in {"putting", "updating"}
    <3>1. i \in DOMAIN lease /\ handle[i].stored \in Resources
      BY <2>1 DEF Lives, Life
    <3>2. QED
      BY <1>1, <2>1, <3>1, KeyWritten
  <2>2. CASE UNCHANGED key
    BY <1>1, <2>2 DEF Typed
  <2>3. QED
    BY <2>1, <2>2 DEF Crash, Unanswered
<1>5. Typed'
  BY <1>1, <1>2, <1>3, <1>4 DEF Typed
<1>6. \A j \in Instances : Life(j)'
  BY <1>1, <1>2, <1>3 DEF Lives, Life, Typed
<1>7. \A j \in Instances : Kept(j)'
  BY <1>1, <1>2, <1>3, <1>4 DEF Lives, Kept, Running, Typed
<1>8. QED
  BY <1>5, <1>6, <1>7 DEF Lives

LEMMA DownBounds ==
  ASSUME NEW n \in Nat
  PROVE  Down(n) \in Nat /\ Down(n) <= n /\ Down(n) + 1 >= n
  BY DEF Down

LEMMA PassTyped ==
  ASSUME Typed, Lives, Pass
  PROVE  Typed' /\ Lives'
<1>1. /\ handle' \in [Instances -> HandleState]
      /\ \A i \in Instances : /\ handle'[i].pc = handle[i].pc /\ handle'[i].stored = handle[i].stored
                              /\ handle'[i].wait = Down(handle[i].wait)
                              /\ handle[i].wait \in Nat
  <2>1. \A i \in Instances : /\ [handle[i] EXCEPT !.wait = Down(@)] \in HandleState
                             /\ handle[i] \in HandleState
    <3>1. SUFFICES ASSUME NEW i \in Instances
                   PROVE  /\ [handle[i] EXCEPT !.wait = Down(@)] \in HandleState
                          /\ handle[i] \in HandleState
      OBVIOUS
    <3>2. handle[i] \in HandleState /\ handle[i].wait \in 0 .. 2 * Latency
      BY DEF Typed, HandleState
    <3>3. Down(handle[i].wait) \in 0 .. 2 * Latency
      BY <3>2, Times DEF Down
    <3>4. QED
      BY <3>2, <3>3 DEF HandleState
  <2>2. handle' = [i \in Instances |-> [handle[i] EXCEPT !.wait = Down(@)]]
    BY DEF Pass
  <2>3. QED
    BY <2>1, <2>2 DEF HandleState
<1>2. /\ keeper' \in [Instances -> KeeperState]
      /\ \A i \in Instances : /\ keeper'[i].pc = keeper[i].pc
                              /\ keeper'[i].wait = Down(keeper[i].wait)
                              /\ keeper[i].wait \in Nat
  <2>1. \A i \in Instances : /\ [keeper[i] EXCEPT !.wait = Down(@)] \in KeeperState
                             /\ keeper[i] \in KeeperState
    BY DownBounds, Times DEF Typed, KeeperState
  <2>2. keeper' = [i \in Instances |-> [keeper[i] EXCEPT !.wait = Down(@)]]
    BY DEF Pass
  <2>3. QED
    BY <2>1, <2>2 DEF KeeperState
<1>3. /\ lease' \in [DOMAIN lease -> 0 .. ETCD_LEASE_TTL_SEC] /\ DOMAIN lease' = DOMAIN lease
      /\ \A i \in DOMAIN lease : lease'[i] = Down(lease[i]) /\ lease[i] \in Nat
  BY DownBounds, Times DEF Pass, Typed
<1>4. /\ DOMAIN key' = {i \in DOMAIN key : lease[i] > 1}
      /\ \A i \in DOMAIN key' : key'[i] = key[i]
      /\ key' \in [DOMAIN key' -> Resources]
  BY DEF Pass, Restrict, Typed
<1>5. DOMAIN key' \subseteq {i \in DOMAIN lease' : lease'[i] > 0}
  BY <1>3, <1>4 DEF Typed, Down
<1>6. /\ \A i \in Instances : /\ handle[i].pc = "putting" => handle[i].wait > 0
                              /\ keeper[i].pc \in {"opening", "asking", "sleeping"} =>
                                   keeper[i].wait > 0
      /\ UNCHANGED <<enabled, missed>>
  BY <1>1, <1>2 DEF Pass, Urgent
<1>7. Typed'
  BY <1>1, <1>2, <1>3, <1>4, <1>5, <1>6 DEF Typed
<1>8. \A i \in Instances : Life(i)'
  <2>1. SUFFICES ASSUME NEW i \in Instances PROVE Life(i)'
    OBVIOUS
  <2>2. handle'[i].wait <= handle[i].wait /\ keeper'[i].wait <= keeper[i].wait
    BY <1>1, <1>2, DownBounds
  <2>3. handle'[i].wait \in Nat /\ keeper'[i].wait \in Nat /\ Latency \in Nat
    BY <1>1, <1>2, DownBounds, Times
  <2>4. QED
    BY <1>1, <1>2, <1>3, <1>6, <2>2, <2>3 DEF Lives, Life
<1>9. \A i \in Instances : Kept(i)'
  <2>1. SUFFICES ASSUME NEW i \in Instances PROVE Kept(i)'
    OBVIOUS
  <2>2. ASSUME handle'[i].pc = "putting"
        PROVE  lease'[i] + 2 * Latency >= ETCD_LEASE_TTL_SEC + handle'[i].wait
    <3>1. /\ lease[i] \in Nat /\ lease'[i] = Down(lease[i])
          /\ lease[i] + 2 * Latency >= ETCD_LEASE_TTL_SEC + handle[i].wait
          /\ handle[i].wait > 0
      BY <1>1, <1>3, <1>6, <2>2 DEF Lives, Life, Kept
    <3>2. QED
      BY <1>1, <3>1, Times DEF Down
  <2>3. ASSUME Running(i)' /\ enabled'[i] /\ ~missed'[i]
        PROVE  /\ i \in DOMAIN key'
               /\ keeper'[i].pc \in {"opening", "asking", "sleeping"}
               /\ lease'[i] > keeper'[i].wait + (IF keeper'[i].pc = "asking" THEN 0 ELSE Latency)
    <3>1. /\ i \in DOMAIN key /\ keeper[i].pc \in {"opening", "asking", "sleeping"}
          /\ lease[i] > keeper[i].wait + (IF keeper[i].pc = "asking" THEN 0 ELSE Latency)
      BY <1>1, <1>6, <2>3 DEF Lives, Kept, Running
    <3>2. keeper[i].wait > 0 /\ lease[i] \in Nat /\ lease'[i] = Down(lease[i])
      BY <1>3, <1>6, <3>1 DEF Lives, Life
    <3>3. lease[i] > 1
      BY <1>2, <3>1, <3>2, Times
    <3>4. QED
      BY <1>2, <1>4, <3>1, <3>2, <3>3, Times DEF Down
  <2>4. QED
    BY <2>2, <2>3 DEF Kept, Running
<1>10. QED
  BY <1>7, <1>8, <1>9 DEF Lives

LEMMA StepTyped ==
  ASSUME Typed, Lives, NEW i \in Instances, DiscoveryStep(i)
  PROVE  Typed' /\ Lives'
  BY RegisterTyped, GrantTyped, PutRegistrationTyped, PutEndsTyped, KeeperTyped, DisableTyped,
     CrashTyped DEF DiscoveryStep

----------------------------------------------------------------------------
(* What Service adds: the rest of the types, and the times.                *)

\* The rest of TypeOK, and what is free is not stale.
TypedTimes ==
  /\ free \in [Instances -> Resources]
  /\ updater \in [Instances -> [on : BOOLEAN, wait : 0 .. METADATA_REFRESH_INTERVAL + Latency]]
  /\ ended \in [Instances -> 0 .. GoneAfter]
  /\ since \in [Instances -> [Resources -> 0 .. StaleAfter + 1]]
  /\ \A i \in Instances : since[i][free[i]] = 0

\* The last keep-alive of a handle that is over is renewed within Latency, or not at all.
Gone(i) ==
  /\ ~Over(i) => ended[i] = 0
  /\ Over(i) /\ i \in DOMAIN lease =>
       IF keeper[i].pc = "asking" THEN ended[i] + keeper[i].wait <= Latency
       ELSE lease[i] > 0 => ended[i] + lease[i] <= GoneAfter

LEMMA GoneStep ==
  ASSUME Typed, Lives, NEW i \in Instances, Gone(i), ended \in [Instances -> Nat],
         DiscoveryStep(i), UNCHANGED ended
  PROVE  Gone(i)'
<1>0. 0 \in 0 .. 2 * Latency
  BY Times
<1>1. /\ handle[i] \in HandleState /\ keeper[i] \in KeeperState
      /\ ended[i] \in Nat /\ i \in DOMAIN lease => lease[i] \in 0 .. ETCD_LEASE_TTL_SEC
      /\ ~enabled[i] \/ Running(i)
      /\ keeper[i].pc = "asking" => keeper[i].wait \in 0 .. Latency
  BY DEF Typed, Lives, Life, Running, KeeperState
<1>2. CASE \E r \in Resources : Register(i, r) \/ Update(i, r)
  BY <1>1, <1>2 DEF Register, Update, Typed, Gone, Over, Running
<1>3. CASE Grant(i)
  BY <1>1, <1>3 DEF Grant, HandleAt, Typed, Gone, Over, Running, HandleState
<1>4. CASE PutRegistration(i)
  BY <1>1, <1>4 DEF PutRegistration, HandleAt, Typed, Gone, Over, Running, HandleState
<1>5. CASE RegisterFails(i)
  BY <1>1, <1>5, Times DEF RegisterFails, HandleAt, Typed, Gone, Over, Running, HandleState, Lives, Life, GoneAfter
<1>6. CASE KeeperStep(i)
  <2>1. /\ UNCHANGED <<handle, enabled>> /\ DOMAIN lease' = DOMAIN lease
        /\ Over(i) => ~enabled[i]
    BY <1>1, <1>6 DEF KeeperStep, Check, Renew, KeepAliveFails, KeeperPanics, Over, Running
  <2>2. Over(i)' = Over(i)
    BY <2>1 DEF Over, Running
  <2>3. CASE Check(i)
    BY <1>1, <2>1, <2>2, <2>3 DEF Check, KeeperAt, Told, Typed, Gone
  <2>4. CASE Renew(i)
    <3>1. /\ keeper'[i].pc = "sleeping" /\ keeper[i].pc = "asking"
          /\ i \in DOMAIN lease => lease'[i] = 0 \/ lease'[i] = ETCD_LEASE_TTL_SEC
      BY <2>4 DEF Renew, KeeperAt, Typed
    <3>2. Over(i) /\ i \in DOMAIN lease => ended[i] <= Latency
      BY <1>1, <3>1, Times DEF Gone
    <3>3. QED
      BY <1>1, <2>1, <2>2, <3>1, <3>2, Times DEF Gone, GoneAfter
  <2>5. CASE KeepAliveFails(i) \/ KeeperPanics(i)
    <3>1. /\ keeper'[i].pc # "asking" /\ UNCHANGED lease
          /\ keeper[i].pc = "asking" \/ keeper[i].pc = "opening"
      BY <2>5 DEF KeepAliveFails, KeeperPanics, KeeperAt, Typed
    <3>2. Over(i) /\ i \in DOMAIN lease /\ keeper[i].pc = "asking" => ended[i] <= Latency
      BY <1>1, Times DEF Gone
    <3>3. QED
      BY <1>1, <2>1, <2>2, <3>1, <3>2, Times DEF Gone, GoneAfter
  <2>6. QED
    BY <1>6, <2>3, <2>4, <2>5 DEF KeeperStep
<1>7. CASE PutUpdate(i) \/ UpdateFails(i)
  <2>1. /\ handle[i].pc = "updating" /\ HandleAt(i, "held", 0)
        /\ UNCHANGED <<enabled, keeper, lease>>
    BY <1>7 DEF PutUpdate, UpdateFails
  <2>2. handle'[i].pc = "held"
    BY <1>0, <2>1, HandleMoves DEF HandlePcs
  <2>3. QED
    BY <2>1, <2>2 DEF Gone, Over, Running
<1>8. CASE Deregister(i) \/ Drop(i) \/ Crash(i)
  <2>1. /\ UNCHANGED lease /\ (Over(i) \/ keeper'[i] = keeper[i] \/ keeper'[i].pc = "ended")
        /\ keeper[i].pc = "asking" => keeper'[i] = keeper[i]
        /\ keeper[i].pc # "asking" => keeper'[i].pc # "asking"
    BY <1>8 DEF Deregister, Drop, Disable, Crash, KeeperAt, Typed
  <2>2. Over(i)'
    <3>1. PICK pc \in {"held", "dropped", "crashed"} : HandleAt(i, pc, 0) /\ ~enabled'[i]
      BY <1>8 DEF Deregister, Drop, Disable, Crash, Typed
    <3>2. handle'[i].pc = pc
      BY <1>0, <3>1, HandleMoves DEF HandlePcs
    <3>3. QED
      BY <3>1, <3>2 DEF Over, Running
  <2>3. CASE Over(i)
    BY <1>1, <2>1, <2>2, <2>3 DEF Gone
  <2>4. CASE ~Over(i)
    BY <1>1, <2>1, <2>2, <2>4, Times DEF Gone, GoneAfter
  <2>5. QED
    BY <2>3, <2>4
<1>9. QED
  BY <1>2, <1>3, <1>4, <1>5, <1>6, <1>7, <1>8 DEF DiscoveryStep

LEMMA GoneTick ==
  ASSUME Typed, Lives, NEW i \in Instances, Gone(i), ended \in [Instances -> Nat], Tick
  PROVE  Gone(i)'
<1>1. /\ UNCHANGED enabled /\ handle'[i].pc = handle[i].pc /\ keeper'[i].pc = keeper[i].pc
      /\ keeper'[i].wait = Down(keeper[i].wait) /\ keeper[i].wait \in Nat
      /\ keeper[i].pc = "asking" => keeper[i].wait > 0
      /\ DOMAIN lease' = DOMAIN lease
      /\ i \in DOMAIN lease => lease'[i] = Down(lease[i]) /\ lease[i] \in Nat
      /\ ended'[i] = IF Over(i) /\ ended[i] < GoneAfter THEN ended[i] + 1 ELSE ended[i]
      /\ ended[i] \in Nat
  BY DEF Tick, Pass, Urgent, Typed, HandleState, KeeperState
<1>2. Over(i)' = Over(i)
  BY <1>1 DEF Over, Running
<1>3. QED
  BY <1>1, <1>2, Times DEF Gone, Down, GoneAfter

\* What the updater of i wrote, and writes, is not too old.
Fresh(i) ==
  updater[i].on =>
    /\ handle[i].pc \in {"granting", "updating"} =>
         since[i][handle[i].stored] + handle[i].wait <= Latency
    /\ handle[i].pc = "putting" => since[i][handle[i].stored] + handle[i].wait <= 2 * Latency
    /\ handle[i].pc = "held" => since[i][handle[i].stored] + updater[i].wait <= StaleAfter

LEMMA StepSince ==
  ASSUME TypedTimes, free' \in [Instances -> Resources],
         since' = [i \in Instances |-> [since[i] EXCEPT ![free'[i]] = 0]]
  PROVE  /\ since' \in [Instances -> [Resources -> 0 .. StaleAfter + 1]]
         /\ \A i \in Instances : since'[i][free'[i]] = 0
         /\ \A i \in Instances, r \in Resources : since'[i][r] <= since[i][r]
<1>1. StaleAfter \in Nat
  BY Times, IntervalAssumption DEF StaleAfter
<1>2. \A i \in Instances : [since[i] EXCEPT ![free'[i]] = 0] \in [Resources -> 0 .. StaleAfter + 1]
  BY <1>1 DEF TypedTimes
<1>3. QED
  BY <1>1, <1>2 DEF TypedTimes

LEMMA TimesStep ==
  ASSUME Typed, Lives, TypedTimes, NEW i \in Instances, Step(i), UNCHANGED ended,
         since' = [j \in Instances |-> [since[j] EXCEPT ![free'[j]] = 0]]
  PROVE  TypedTimes'
<1>1. free' \in [Instances -> Resources]
  BY DEF Step, Serve, Answered, Sleep, UpdaterStep, UserStep, Claim, serviceVars, TypedTimes
<1>2. \A answer \in 0 .. Latency : Sleep(i, answer) =>
        updater' \in [Instances -> [on : BOOLEAN, wait : 0 .. METADATA_REFRESH_INTERVAL + Latency]]
  BY IntervalAssumption, Times DEF Sleep, TypedTimes
<1>3. 0 .. Answer(handle[i].wait) \subseteq 0 .. Latency /\ 0 \in 0 .. Latency
  BY Times DEF Answer, Typed, HandleState
<1>4. updater' \in [Instances -> [on : BOOLEAN, wait : 0 .. METADATA_REFRESH_INTERVAL + Latency]]
  <2>1. CASE Serve(i)
    BY <2>1 DEF Serve, TypedTimes
  <2>2. CASE UpdaterStep(i)
    BY <1>2, <1>3, <2>2 DEF UpdaterStep, serviceVars, TypedTimes
  <2>3. CASE Answered(i)
    BY <1>2, <1>3, <2>3 DEF Answered, serviceVars, TypedTimes
  <2>4. CASE UNCHANGED updater
    BY <2>4 DEF TypedTimes
  <2>5. QED
    BY <2>1, <2>2, <2>3, <2>4 DEF Step, UserStep, Claim, serviceVars
<1>5. QED
  BY <1>1, <1>4, StepSince DEF TypedTimes

LEMMA TimesTick ==
  ASSUME TypedTimes, Tick
  PROVE  TypedTimes'
<1>1. free' = free
  BY DEF Tick
<1>2. updater' \in [Instances -> [on : BOOLEAN, wait : 0 .. METADATA_REFRESH_INTERVAL + Latency]]
  <2>1. \A i \in Instances :
          [updater[i] EXCEPT !.wait = Down(@)]
            \in [on : BOOLEAN, wait : 0 .. METADATA_REFRESH_INTERVAL + Latency]
    <3>1. SUFFICES ASSUME NEW i \in Instances
                   PROVE  [updater[i] EXCEPT !.wait = Down(@)]
                            \in [on : BOOLEAN, wait : 0 .. METADATA_REFRESH_INTERVAL + Latency]
      OBVIOUS
    <3>2. updater[i] \in [on : BOOLEAN, wait : 0 .. METADATA_REFRESH_INTERVAL + Latency]
      BY DEF TypedTimes
    <3>3. Down(updater[i].wait) \in 0 .. METADATA_REFRESH_INTERVAL + Latency
      BY <3>2, IntervalAssumption, Times DEF Down
    <3>4. QED
      BY <3>2, <3>3
  <2>2. QED
    BY <2>1 DEF Tick
<1>3. ended' \in [Instances -> 0 .. GoneAfter]
  <2>1. GoneAfter \in Nat
    BY Times DEF GoneAfter
  <2>2. QED
    BY <2>1 DEF Tick, TypedTimes
<1>4. /\ since' \in [Instances -> [Resources -> 0 .. StaleAfter + 1]]
      /\ \A i \in Instances : since'[i][free[i]] = 0
  <2>1. StaleAfter \in Nat
    BY Times, IntervalAssumption DEF StaleAfter
  <2>2. since' = [i \in Instances |-> [r \in Resources |->
          IF r # free[i] /\ since[i][r] <= StaleAfter THEN since[i][r] + 1 ELSE since[i][r]]]
    BY DEF Tick
  <2>3. \A i \in Instances, r \in Resources :
          /\ since'[i][r] \in 0 .. StaleAfter + 1
          /\ r = free[i] => since'[i][r] = since[i][r]
    BY <2>1, <2>2 DEF TypedTimes
  <2>4. QED
    BY <2>2, <2>3 DEF TypedTimes
<1>5. QED
  BY <1>1, <1>2, <1>3, <1>4 DEF TypedTimes

\* What a step of i does to the times of its own registration.
LEMMA FreshStep ==
  ASSUME Typed, Lives, TypedTimes, NEW i \in Instances, Fresh(i), Step(i), Typed', TypedTimes',
         \A r \in Resources : since'[i][r] <= since[i][r]
  PROVE  Fresh(i)'
<1>1. /\ handle[i] \in HandleState /\ handle[i].wait \in Nat /\ Latency \in Nat
      /\ handle[i].pc # "none" => handle[i].stored \in Resources
      /\ updater[i].wait \in Nat /\ free[i] \in Resources
      /\ \A r \in Resources : since[i][r] \in Nat /\ since'[i][r] \in Nat
      /\ \A r \in Resources : since'[i][r] <= since[i][r]
      /\ since[i][free[i]] = 0 /\ 0 \in 0 .. 2 * Latency
      /\ StaleAfter \in Nat /\ METADATA_REFRESH_INTERVAL \in Nat
  BY Times, IntervalAssumption DEF Typed, HandleState, Lives, Life, TypedTimes, StaleAfter
<1>2. \A pc \in HandlePcs, wait \in 0 .. 2 * Latency :
        HandleAt(i, pc, wait) =>
          handle'[i].pc = pc /\ handle'[i].wait = wait /\ handle'[i].stored = handle[i].stored
  BY HandleMoves
<1>3. CASE handle'[i] = handle[i] /\ updater'[i] = updater[i]
  BY <1>1, <1>3 DEF Fresh
<1>4. CASE Serve(i)
  <2>1. handle'[i].pc = "granting" /\ handle'[i].wait = Latency /\ handle'[i].stored = free[i]
    <3>1. handle' = [handle EXCEPT ![i] = [pc |-> "granting", wait |-> Latency, stored |-> free[i]]]
      BY <1>4 DEF Serve, Register
    <3>2. QED
      BY <1>1, <3>1, HandleStarts DEF HandlePcs
  <2>2. QED
    BY <1>1, <2>1 DEF Fresh
<1>5. CASE UpdaterStep(i)
  <2>1. CASE Awake(i) /\ UpdateIdentical(i, free[i]) /\ Sleep(i, 0)
    <3>1. /\ handle'[i] = handle[i] /\ handle[i].pc = "held" /\ handle[i].stored = free[i]
          /\ updater'[i].wait = METADATA_REFRESH_INTERVAL
      BY <1>1, <2>1 DEF UpdateIdentical, discoveryVars, Sleep, TypedTimes
    <3>2. QED
      BY <1>1, <3>1 DEF Fresh, StaleAfter
  <2>2. CASE Awake(i) /\ Update(i, free[i]) /\ UNCHANGED serviceVars
    <3>1. handle'[i].pc = "updating" /\ handle'[i].wait = Latency /\ handle'[i].stored = free[i]
      BY <1>1, <2>2, HandleStarts DEF Update, HandlePcs
    <3>2. QED
      BY <1>1, <3>1 DEF Fresh
  <2>3. QED
    BY <1>5, <2>1, <2>2 DEF UpdaterStep
<1>6. CASE (PutRegistration(i) \/ PutUpdate(i) \/ UpdateFails(i)) /\ Answered(i)
  <2>1. /\ handle'[i].pc = "held" /\ handle'[i].stored = handle[i].stored
        /\ handle[i].pc \in {"putting", "updating"}
    BY <1>1, <1>2, <1>6 DEF PutRegistration, PutUpdate, UpdateFails, HandlePcs
  <2>2. CASE ~updater[i].on
    BY <1>6, <2>2 DEF Answered, serviceVars, Fresh
  <2>3. CASE updater[i].on
    <3>1. PICK answer \in 0 .. Answer(handle[i].wait) : Sleep(i, answer)
      BY <1>6, <2>3 DEF Answered
    <3>2. answer \in Nat /\ answer <= handle[i].wait
      BY <1>1 DEF Answer
    <3>3. updater'[i].wait = answer + METADATA_REFRESH_INTERVAL
      BY <3>1 DEF Sleep, TypedTimes
    <3>4. since[i][handle[i].stored] + handle[i].wait <= 2 * Latency
      BY <1>1, <2>1, <2>3 DEF Fresh
    <3>5. QED
      BY <1>1, <2>1, <3>2, <3>3, <3>4 DEF Fresh, StaleAfter
  <2>4. QED
    BY <2>2, <2>3
<1>7. CASE UserStep(i)
  BY <1>7 DEF UserStep, serviceVars, Fresh
<1>8. CASE (Grant(i) \/ RegisterFails(i) \/ KeeperStep(i) \/ Crash(i)) /\ UNCHANGED serviceVars
  <2>1. CASE Grant(i)
    <3>1. handle[i].pc = "granting" /\ handle[i].wait \in 0 .. Latency
      BY <1>1, <2>1 DEF Grant, Lives, Life
    <3>2. handle[i].wait + Latency \in 0 .. 2 * Latency
      BY <1>1, <3>1
    <3>3. /\ handle'[i].pc = "putting" /\ handle'[i].wait = handle[i].wait + Latency
          /\ handle'[i].stored = handle[i].stored
      BY <1>2, <2>1, <3>2 DEF Grant, HandlePcs
    <3>4. updater[i].on => since[i][handle[i].stored] + handle[i].wait <= Latency
      BY <3>1 DEF Fresh
    <3>5. QED
      BY <1>1, <1>8, <3>1, <3>3, <3>4 DEF serviceVars, Fresh
  <2>2. CASE RegisterFails(i) \/ Crash(i)
    <3>1. handle'[i].pc \in {"failed", "crashed"}
      BY <1>1, <1>2, <2>2 DEF RegisterFails, Crash, HandlePcs
    <3>2. QED
      BY <3>1 DEF Fresh
  <2>3. CASE KeeperStep(i)
    BY <1>3, <1>8, <2>3
       DEF KeeperStep, Check, Renew, KeepAliveFails, KeeperPanics, serviceVars
  <2>4. QED
    BY <1>8, <2>1, <2>2, <2>3
<1>9. CASE Claim(i)
  BY <1>3, <1>9 DEF Claim, discoveryVars
<1>10. QED
  BY <1>4, <1>5, <1>6, <1>7, <1>8, <1>9 DEF Step

LEMMA FreshTick ==
  ASSUME Typed, Lives, TypedTimes, NEW i \in Instances, Fresh(i), Tick, Typed', TypedTimes'
  PROVE  Fresh(i)'
<1>1. /\ handle[i].wait \in Nat /\ Latency \in Nat
      /\ handle[i].pc # "none" => handle[i].stored \in Resources
      /\ updater[i].wait \in Nat /\ StaleAfter \in Nat
      /\ \A r \in Resources : since[i][r] \in Nat
  BY Times, IntervalAssumption DEF Typed, HandleState, Lives, Life, TypedTimes, StaleAfter
<1>2. /\ handle'[i].pc = handle[i].pc /\ handle'[i].stored = handle[i].stored
      /\ handle'[i].wait = Down(handle[i].wait)
  BY DEF Tick, Pass, Typed, HandleState
<1>3. /\ handle[i].pc \in {"granting", "putting", "updating"} => handle[i].wait > 0
      /\ updater[i].on /\ handle[i].pc = "held" => updater[i].wait > 0
  BY <1>1 DEF Tick, Awake, Pass, Urgent
<1>4. updater'[i].on = updater[i].on /\ updater'[i].wait = Down(updater[i].wait)
  BY DEF Tick, TypedTimes
<1>5. \A r \in Resources : since'[i][r] \in Nat /\ since'[i][r] <= since[i][r] + 1
  BY <1>1 DEF Tick
<1>6. QED
  BY <1>1, <1>2, <1>3, <1>4, <1>5 DEF Fresh, Down

\* A step of i is not about others.
LEMMA OthersStay ==
  ASSUME Typed, TypedTimes, NEW i \in Instances, Step(i), NEW j \in Instances \ {i}
  PROVE  /\ handle'[j] = handle[j] /\ keeper'[j] = keeper[j] /\ enabled'[j] = enabled[j]
         /\ updater'[j] = updater[j] /\ (j \in DOMAIN lease') = (j \in DOMAIN lease)
         /\ j \in DOMAIN lease => lease'[j] = lease[j]
<1>1. updater'[j] = updater[j]
  BY DEF Step, Serve, UpdaterStep, Answered, UserStep, Claim, Sleep, serviceVars, TypedTimes
<1>2. handle'[j] = handle[j]
  BY DEF Step, Serve, UpdaterStep, UserStep, Claim, Register, Update, UpdateIdentical, Grant,
         PutRegistration, RegisterFails, KeeperStep, Check, Renew, KeepAliveFails, KeeperPanics,
         PutUpdate, UpdateFails, Deregister, Drop, Disable, Crash, HandleAt, discoveryVars, Typed
<1>3. keeper'[j] = keeper[j] /\ enabled'[j] = enabled[j]
  BY DEF Step, Serve, UpdaterStep, UserStep, Claim, Register, Update, UpdateIdentical, Grant,
         PutRegistration, RegisterFails, KeeperStep, Check, Renew, KeepAliveFails, KeeperPanics,
         PutUpdate, UpdateFails, Deregister, Drop, Disable, Crash, KeeperAt, discoveryVars, Typed
<1>4. /\ (j \in DOMAIN lease') = (j \in DOMAIN lease)
      /\ j \in DOMAIN lease => lease'[j] = lease[j]
  BY DEF Step, Serve, UpdaterStep, UserStep, Claim, Register, Update, UpdateIdentical, Grant,
         PutRegistration, RegisterFails, KeeperStep, Check, Renew, KeepAliveFails, KeeperPanics,
         PutUpdate, UpdateFails, Deregister, Drop, Disable, Crash, discoveryVars, Typed
<1>5. QED
  BY <1>1, <1>2, <1>3, <1>4

----------------------------------------------------------------------------
(* The inductive invariant.                                                *)

IInv == Typed /\ Lives /\ TypedTimes /\ \A i \in Instances : Gone(i) /\ Fresh(i)

LEMMA InitInv == Init => IInv
<1> SUFFICES ASSUME Init PROVE IInv
  OBVIOUS
<1> USE Times, IntervalAssumption
<1>1. 0 \in 0 .. 2 * Latency /\ 0 \in 0 .. keepalive_time + Latency /\ GoneAfter \in Nat
      /\ StaleAfter \in Nat
  BY DEF GoneAfter, StaleAfter
<1>2. Typed
  <2>1. /\ handle \in [Instances -> HandleState] /\ keeper \in [Instances -> KeeperState]
        /\ enabled \in [Instances -> BOOLEAN] /\ missed \in [Instances -> BOOLEAN]
    BY <1>1 DEF Init, DiscoveryInit, HandleState, KeeperState, HandlePcs, KeeperPcs
  <2>2. DOMAIN lease = {} /\ DOMAIN key = {} /\ lease = [i \in {} |-> 0] /\ key = [i \in {} |-> {}]
    BY DEF Init, DiscoveryInit
  <2>3. QED
    BY <2>1, <2>2 DEF Typed
<1>3. Lives
  BY DEF Init, DiscoveryInit, Lives, Life, Kept, Running
<1>4. TypedTimes
  <2>1. updater \in [Instances -> [on : BOOLEAN, wait : 0 .. METADATA_REFRESH_INTERVAL + Latency]]
    BY DEF Init
  <2>2. since \in [Instances -> [Resources -> 0 .. StaleAfter + 1]]
    BY <1>1 DEF Init
  <2>3. \A i \in Instances : since[i][free[i]] = 0
    BY DEF Init
  <2>4. QED
    BY <1>1, <2>1, <2>2, <2>3 DEF Init, TypedTimes
<1>5. \A i \in Instances : Gone(i) /\ Fresh(i)
  BY DEF Init, DiscoveryInit, Gone, Fresh, Over, Running
<1>6. QED
  BY <1>2, <1>3, <1>4, <1>5 DEF IInv

LEMMA StepKinds ==
  ASSUME NEW i \in Instances, Step(i), TypedTimes
  PROVE  DiscoveryStep(i) \/ UNCHANGED discoveryVars
  BY DEF Step, Serve, UpdaterStep, UserStep, Claim, DiscoveryStep, UpdateIdentical, TypedTimes

LEMMA NextInv == IInv /\ [Next]_vars => IInv'
<1> SUFFICES ASSUME IInv, [Next]_vars PROVE IInv'
  OBVIOUS
<1>1. Typed /\ Lives /\ TypedTimes /\ \A i \in Instances : Gone(i) /\ Fresh(i)
  BY DEF IInv
<1>2. GoneAfter \in Nat /\ ended \in [Instances -> Nat]
  BY <1>1, Times DEF GoneAfter, TypedTimes
<1>3. ASSUME NEW i \in Instances, Step(i), UNCHANGED ended,
             since' = [j \in Instances |-> [since[j] EXCEPT ![free'[j]] = 0]]
      PROVE  IInv'
  <2>1. Typed' /\ Lives'
    <3>1. CASE DiscoveryStep(i)
      BY <1>1, <3>1, StepTyped
    <3>2. CASE UNCHANGED discoveryVars
      BY <1>1, <3>2 DEF discoveryVars, Typed, Lives, Life, Kept, Running
    <3>3. QED
      BY <1>1, <1>3, <3>1, <3>2, StepKinds
  <2>2. TypedTimes'
    BY <1>1, <1>3, TimesStep
  <2>3. \A j \in Instances, r \in Resources : since'[j][r] <= since[j][r]
    BY <1>1, <1>3, <2>2, StepSince DEF TypedTimes
  <2>4. Gone(i)'
    <3>1. CASE DiscoveryStep(i)
      BY <1>1, <1>2, <1>3, <3>1, GoneStep
    <3>2. CASE UNCHANGED discoveryVars
      BY <1>1, <1>3, <3>2 DEF discoveryVars, Gone, Over, Running
    <3>3. QED
      BY <1>1, <1>3, <3>1, <3>2, StepKinds
  <2>5. Fresh(i)'
    BY <1>1, <1>3, <2>1, <2>2, <2>3, FreshStep
  <2>6. ASSUME NEW j \in Instances \ {i}
        PROVE  Gone(j)' /\ Fresh(j)'
    <3>1. /\ handle'[j] = handle[j] /\ keeper'[j] = keeper[j] /\ enabled'[j] = enabled[j]
          /\ updater'[j] = updater[j] /\ (j \in DOMAIN lease') = (j \in DOMAIN lease)
          /\ j \in DOMAIN lease => lease'[j] = lease[j]
      BY <1>1, <1>3, OthersStay
    <3>2. Gone(j)'
      BY <1>1, <1>3, <3>1 DEF Gone, Over, Running
    <3>3. /\ handle[j].pc # "none" => handle[j].stored \in Resources
          /\ handle[j].wait \in Nat /\ updater[j].wait \in Nat
          /\ \A r \in Resources : since[j][r] \in Nat /\ since'[j][r] \in Nat
      BY <1>1, <2>2, IntervalAssumption, Times
         DEF Typed, HandleState, Lives, Life, TypedTimes, StaleAfter
    <3>4. Fresh(j)'
      BY <1>1, <2>3, <3>1, <3>3, IntervalAssumption, Times DEF Fresh, StaleAfter
    <3>5. QED
      BY <3>2, <3>4
  <2>7. QED
    BY <2>1, <2>2, <2>4, <2>5, <2>6 DEF IInv
<1>4. CASE Tick
  <2>1. Typed' /\ Lives'
    BY <1>1, <1>4, PassTyped DEF Tick
  <2>2. TypedTimes'
    BY <1>1, <1>4, TimesTick
  <2>3. \A i \in Instances : Gone(i)' /\ Fresh(i)'
    BY <1>1, <1>2, <1>4, <2>1, <2>2, GoneTick, FreshTick
  <2>4. QED
    BY <2>1, <2>2, <2>3 DEF IInv
<1>5. CASE UNCHANGED vars
  BY <1>1, <1>5 DEF IInv, vars, discoveryVars, serviceVars, Typed, Lives, Life, Kept, Running,
     TypedTimes, Gone, Over, Fresh
<1>6. QED
  BY <1>3, <1>4, <1>5 DEF Next

LEMMA Invariant == Spec => []IInv
<1>1. QED
  BY InitInv, NextInv, PTL DEF Spec

----------------------------------------------------------------------------
\* TypeCorrect: the state of the instances and of etcd is well typed, and a key has
\* a lease.
THEOREM TypeCorrect == Spec => []TypeOK
<1>1. IInv => TypeOK
  BY DEF IInv, Typed, TypedTimes, TypeOK
<1>2. QED
  BY <1>1, Invariant, PTL

\* StaysListed: whatever becomes of the others, an instance with an active handle stays
\* in the registry, as long as etcd answers its keep-alives within Latency.
THEOREM StaysListed == Spec => []KeptListed
<1>1. IInv => KeptListed
  BY DEF IInv, Lives, Kept, KeptListed
<1>2. QED
  BY <1>1, Invariant, PTL

\* GoesInTime: an instance whose handle is over is gone after ETCD_LEASE_TTL_SEC + Latency.
THEOREM GoesInTime == Spec => []GoneInTime
<1>1. IInv => GoneInTime
  <2>1. SUFFICES ASSUME IInv, NEW i \in Instances, ended[i] >= GoneAfter, i \in DOMAIN key
                 PROVE  FALSE
    BY DEF GoneInTime
  <2>2. /\ i \in DOMAIN lease /\ lease[i] \in Nat /\ lease[i] > 0
        /\ ended[i] \in Nat /\ keeper[i].wait \in Nat
    BY <2>1, Times DEF IInv, Typed, TypedTimes, KeeperState, GoneAfter
  <2>3. Over(i)
    BY <2>1, <2>2, Times DEF IInv, Gone, GoneAfter
  <2>4. QED
    BY <2>1, <2>2, <2>3, Times DEF IInv, Gone, GoneAfter
<1>2. QED
  BY <1>1, Invariant, PTL

\* IsPublishedInTime: what the updater has published was so at most one interval and
\* two requests ago.
THEOREM IsPublishedInTime == Spec => []PublishedInTime
<1>1. IInv => PublishedInTime
  <2>1. SUFFICES ASSUME IInv, NEW i \in Instances, Published(i)
                 PROVE  since[i][key[i]] <= StaleAfter
    BY DEF PublishedInTime
  <2>2. /\ updater[i].on /\ handle[i].pc = "held" /\ key[i] = handle[i].stored
        /\ key[i] \in Resources
    BY <2>1 DEF Published, IInv, Typed
  <2>3. since[i][key[i]] \in Nat /\ updater[i].wait \in Nat /\ StaleAfter \in Nat
    BY <2>1, <2>2, IntervalAssumption, Times DEF IInv, TypedTimes, StaleAfter
  <2>4. QED
    BY <2>1, <2>2, <2>3 DEF IInv, Fresh
<1>2. QED
  BY <1>1, Invariant, PTL

----------------------------------------------------------------------------
(* Leases implement the registry.                                          *)

LeaseGone == {i \in DOMAIN lease : lease[i] = 0}

\* A put that etcd does is a put of the registry.
LEMMA PutImplements ==
  ASSUME Typed, Lives, NEW i \in Instances, i \in DOMAIN lease, handle[i].stored \in Resources,
         LeasePut(i), UNCHANGED lease
  PROVE  Abstract!Put(i, handle[i].stored)
<1>1. Abstract!Write(i, handle[i].stored)
  BY DEF LeasePut, Write, Abstract!Write, Abstract!Listed
<1>2. i \notin LeaseGone /\ LeaseGone' = LeaseGone
  BY DEF LeasePut, LeaseGone
<1>3. QED
  BY <1>1, <1>2 DEF Abstract!Put, LeaseGone

LEMMA StepImplements ==
  ASSUME Typed, Lives, NEW i \in Instances, DiscoveryStep(i)
  PROVE  \/ \E r \in Resources : Abstract!Put(i, r)
         \/ UNCHANGED <<key, LeaseGone>>
<1>1. CASE LeasePut(i) /\ UNCHANGED lease /\ handle[i].pc \in {"putting", "updating"}
  <2>1. i \in DOMAIN lease /\ handle[i].stored \in Resources
    BY <1>1 DEF Lives, Life
  <2>2. QED
    BY <1>1, <2>1, PutImplements
<1>2. CASE Grant(i)
  <2>1. i \notin DOMAIN lease
    BY <1>2 DEF Grant, Lives, Life
  <2>2. LeaseGone' = LeaseGone
    BY <1>2, <2>1, Times DEF Grant, LeaseGone
  <2>3. QED
    BY <1>2, <2>2 DEF Grant
<1>3. CASE Renew(i)
  <2>1. LeaseGone' = LeaseGone
    BY <1>3, Times DEF Renew, LeaseGone, Typed
  <2>2. QED
    BY <1>3, <2>1 DEF Renew
<1>4. CASE UNCHANGED <<key, lease>>
  BY <1>4 DEF LeaseGone
<1>5. QED
  BY <1>1, <1>2, <1>3, <1>4
     DEF DiscoveryStep, Register, Update, PutRegistration, RegisterFails, Unanswered, KeeperStep,
         Check, KeepAliveFails, KeeperPanics, PutUpdate, UpdateFails, Deregister, Drop, Disable, Crash

\* The leases that run out in a second leave together.
LEMMA TickImplements ==
  ASSUME Typed, Pass
  PROVE  \E set \in SUBSET Instances : Abstract!Leave(set)
<1> DEFINE ending == {i \in DOMAIN lease : lease[i] <= 1}
<1>1. ending \in SUBSET Instances
  BY DEF Typed
<1>2. \A i \in DOMAIN lease : lease[i] \in Nat
  BY Times DEF Typed
<1>3. LeaseGone' = LeaseGone \cup ending
  <2>1. DOMAIN lease' = DOMAIN lease /\ \A i \in DOMAIN lease : lease'[i] = Down(lease[i])
    BY DEF Pass
  <2>2. \A i \in DOMAIN lease : lease'[i] = 0 <=> lease[i] <= 1
    BY <1>2, <2>1 DEF Down
  <2>3. QED
    BY <1>2, <2>1, <2>2 DEF LeaseGone
<1>4. {i \in DOMAIN key : lease[i] > 1} = DOMAIN key \ ending
  BY <1>2 DEF Typed
<1>5. key' = Restrict(key, DOMAIN key \ ending)
  BY <1>4 DEF Pass
<1>6. Abstract!Leave(ending)
  BY <1>3, <1>5 DEF Abstract!Leave, Abstract!Listed, LeaseGone, Restrict, Abstract!Restrict
<1> HIDE DEF ending
<1>7. QED
  BY <1>1, <1>6 DEF Abstract!Leave

\* LeasesImplementRegistry: an instance enters the registry once, is rewritten only
\* while it is there, and once it has left it never comes back.
THEOREM LeasesImplementRegistry == Spec => ImplementsRegistry
<1>1. Init => Abstract!RegistryInit
  BY DEF Init, DiscoveryInit, Abstract!RegistryInit
<1>2. IInv /\ [Next]_vars => [Abstract!RegistryNext]_(Abstract!registryVars)
  <2> SUFFICES ASSUME IInv, [Next]_vars
               PROVE  Abstract!RegistryNext \/ UNCHANGED <<key, LeaseGone>>
    BY DEF Abstract!registryVars, LeaseGone
  <2>1. Typed /\ Lives /\ TypedTimes
    BY DEF IInv
  <2>2. ASSUME NEW i \in Instances, Step(i)
        PROVE  Abstract!RegistryNext \/ UNCHANGED <<key, LeaseGone>>
    <3>1. CASE DiscoveryStep(i)
      BY <2>1, <3>1, StepImplements DEF Abstract!RegistryNext
    <3>2. CASE UNCHANGED discoveryVars
      BY <3>2 DEF discoveryVars, LeaseGone
    <3>3. QED
      BY <2>1, <2>2, <3>1, <3>2, StepKinds
  <2>3. CASE Tick
    BY <2>1, <2>3, TickImplements DEF Tick, Abstract!RegistryNext
  <2>4. CASE UNCHANGED vars
    BY <2>4 DEF vars, discoveryVars, LeaseGone
  <2>5. QED
    BY <2>2, <2>3, <2>4 DEF Next
<1>3. QED
  BY <1>1, <1>2, Invariant, PTL DEF Spec, ImplementsRegistry, Abstract!RegistrySpec
=============================================================================
