--------------------------- MODULE RpcQueueProofs ---------------------------
(***************************************************************************)
(* What queues get, for any clients, users, slots and bounds.              *)
(***************************************************************************)
EXTENDS RpcProofs, FiniteSetTheorems

----------------------------------------------------------------------------
(* How many messages of a sequence are in a set of WireMessages.  A task   *)
(* counts for the message it holds.                                        *)

Letter(x) == WireMessage(x.c_slot, x.inner)

Places(S, s) == {i \in 1 .. Len(s) : Letter(s[i]) \in S}

Times(S, s) == Cardinality(Places(S, s))

LEMMA TimesFinite ==
  ASSUME NEW T, NEW s \in Seq(T), NEW S
  PROVE  IsFiniteSet(Places(S, s)) /\ Times(S, s) \in Nat
<1>1. Len(s) \in Nat /\ IsFiniteSet(1 .. Len(s))
  BY LenProperties, FS_Interval
<1>2. Places(S, s) \in SUBSET (1 .. Len(s))
  BY DEF Places
<1>3. QED
  BY <1>1, <1>2, FS_Subset, FS_CardinalityType DEF Times

LEMMA TimesConcat ==
  ASSUME NEW T, NEW s \in Seq(T), NEW t \in Seq(T), NEW S
  PROVE  Times(S, s \o t) = Times(S, s) + Times(S, t)
<1> DEFINE n     == Len(s)
           P     == Places(S, s)
           Q     == Places(S, t)
           shift == [j \in Q |-> n + j]
           R     == {n + j : j \in Q}
<1>1. n \in Nat /\ Len(t) \in Nat
  BY LenProperties
<1>2. Places(S, s \o t) = P \cup R
  BY <1>1, ConcatProperties DEF Places
<1>3. P \cap R = {}
  BY <1>1 DEF Places
<1>4. shift \in Bijection(Q, R)
  BY <1>1 DEF Bijection, Injection, Surjection, IsInjective, Places
<1>5. IsFiniteSet(P) /\ IsFiniteSet(Q)
  BY TimesFinite
<1>6. IsFiniteSet(R) /\ Cardinality(R) = Cardinality(Q)
  BY <1>4, <1>5, FS_Bijection DEF ExistsBijection
<1>7. Cardinality(P \cup R) = Cardinality(P) + Cardinality(R) - Cardinality(P \cap R)
  BY <1>5, <1>6, FS_Union
<1>8. Cardinality(P \cap R) = 0 /\ Cardinality(P) \in Nat /\ Cardinality(Q) \in Nat
  BY <1>3, <1>5, FS_EmptySet, FS_CardinalityType
<1> HIDE DEF P, Q, R
<1>9. Cardinality(P \cup R) = Cardinality(P) + Cardinality(Q)
  BY <1>6, <1>7, <1>8
<1>10. QED
  BY <1>2, <1>9 DEF Times, P, Q

LEMMA TimesOne ==
  ASSUME NEW x, NEW S
  PROVE  /\ Times(S, <<>>) = 0
         /\ Times(S, <<x>>) = IF Letter(x) \in S THEN 1 ELSE 0
<1>1. Places(S, <<>>) = {}
  BY DEF Places
<1>2. Places(S, <<x>>) = IF Letter(x) \in S THEN {1} ELSE {}
  BY DEF Places
<1>3. QED
  BY <1>1, <1>2, FS_EmptySet, FS_Singleton DEF Times

LEMMA TimesAppend ==
  ASSUME NEW T, NEW s \in Seq(T), NEW x \in T, NEW S
  PROVE  Times(S, Append(s, x)) = Times(S, s) + IF Letter(x) \in S THEN 1 ELSE 0
<1>1. Append(s, x) = s \o <<x>> /\ <<x>> \in Seq(T)
  BY AppendIsConcat
<1>2. Times(S, s \o <<x>>) = Times(S, s) + Times(S, <<x>>)
  BY <1>1, TimesConcat
<1>3. Times(S, <<x>>) = IF Letter(x) \in S THEN 1 ELSE 0
  BY TimesOne
<1>4. QED
  BY <1>1, <1>2, <1>3

LEMMA TimesTail ==
  ASSUME NEW T, NEW s \in Seq(T), s # <<>>, NEW S
  PROVE  Times(S, s) = Times(S, Tail(s)) + IF Letter(Head(s)) \in S THEN 1 ELSE 0
<1>1. Head(s) \in T /\ Tail(s) \in Seq(T) /\ Len(Tail(s)) = Len(s) - 1 /\ Len(s) \in Nat
      /\ \A i \in 1 .. Len(Tail(s)) : Tail(s)[i] = s[i + 1]
  BY HeadTailProperties, LenProperties
<1>2. <<Head(s)>> \in Seq(T) /\ Len(<<Head(s)>>) = 1 /\ <<Head(s)>>[1] = Head(s) /\ Head(s) = s[1]
  BY <1>1
<1>3. s = <<Head(s)>> \o Tail(s)
  <2> DEFINE t == <<Head(s)>> \o Tail(s)
  <2>1. t \in Seq(T) /\ Len(t) = 1 + Len(Tail(s))
        /\ \A i \in 1 .. 1 + Len(Tail(s)) :
             t[i] = IF i <= 1 THEN <<Head(s)>>[i] ELSE Tail(s)[i - 1]
    BY <1>1, <1>2, ConcatProperties
  <2>2. Len(t) = Len(s)
    BY <1>1, <2>1
  <2>3. ASSUME NEW i \in 1 .. Len(s) PROVE s[i] = t[i]
    BY <1>1, <1>2, <2>1
  <2> HIDE DEF t
  <2>4. s = t
    BY <2>1, <2>2, <2>3, SeqEqual
  <2>5. QED
    BY <2>4 DEF t
<1>4. Times(S, <<Head(s)>> \o Tail(s)) = Times(S, <<Head(s)>>) + Times(S, Tail(s))
  BY <1>1, <1>2, TimesConcat
<1>5. Times(S, Tail(s)) \in Nat
  BY <1>1, TimesFinite
<1>6. Times(S, <<Head(s)>>) = IF Letter(Head(s)) \in S THEN 1 ELSE 0
  BY TimesOne
<1>7. Times(S, s) = Times(S, <<Head(s)>>) + Times(S, Tail(s))
  BY <1>3, <1>4
<1>8. QED
  BY <1>5, <1>6, <1>7

\* A sequence before, at and after its i-th element.
LEMMA TimesSplit ==
  ASSUME NEW T, NEW s \in Seq(T), NEW i \in 1 .. Len(s), NEW x \in T, NEW S
  PROVE  LET a == Times(S, SubSeq(s, 1, i - 1))
             b == Times(S, SubSeq(s, i + 1, Len(s))) IN
           /\ a \in Nat /\ b \in Nat
           /\ Times(S, RemoveAt(s, i)) = a + b
           /\ Times(S, [s EXCEPT ![i] = x]) = a + b + IF Letter(x) \in S THEN 1 ELSE 0
<1> DEFINE p == SubSeq(s, 1, i - 1)
           q == SubSeq(s, i + 1, Len(s))
           e == [s EXCEPT ![i] = x]
           g == p \o <<x>>
<1>1. Len(s) \in Nat /\ i \in Nat /\ i >= 1 /\ i <= Len(s) /\ \A j \in 1 .. Len(s) : s[j] \in T
  BY LenProperties, ElementOfSeq
<1>2. /\ p \in Seq(T) /\ Len(p) = i - 1
      /\ \A j \in 1 .. i - 1 : p[j] = s[j]
  <2>1. \A j \in 1 .. i - 1 : s[j] \in T
    BY <1>1
  <2>2. QED
    BY <1>1, <2>1, SubSeqProperties
<1>3. /\ q \in Seq(T) /\ Len(q) = Len(s) - i
      /\ \A j \in 1 .. Len(s) - i : q[j] = s[j + i]
  <2>1. \A j \in i + 1 .. Len(s) : s[j] \in T
    BY <1>1
  <2>2. /\ q \in Seq(T) /\ Len(q) = (IF i + 1 <= Len(s) THEN Len(s) - (i + 1) + 1 ELSE 0)
        /\ \A j \in 1 .. Len(s) - (i + 1) + 1 : q[j] = s[(i + 1) + j - 1]
    BY <1>1, <2>1, SubSeqProperties
  <2> HIDE DEF q
  <2>3. QED
    BY <1>1, <2>2
<1>4. Times(S, p) \in Nat /\ Times(S, q) \in Nat
  BY <1>2, <1>3, TimesFinite
<1>5. Times(S, RemoveAt(s, i)) = Times(S, p) + Times(S, q)
  BY <1>2, <1>3, TimesConcat DEF RemoveAt
<1>6. e \in Seq(T) /\ Len(e) = Len(s) /\ \A j \in 1 .. Len(s) : e[j] = IF j = i THEN x ELSE s[j]
  BY ExceptSeq
<1>7. <<x>> \in Seq(T) /\ Len(<<x>>) = 1 /\ <<x>>[1] = x
  OBVIOUS
<1> HIDE DEF p, q, e
<1>8. /\ g \in Seq(T) /\ Len(g) = i
      /\ \A j \in 1 .. i : g[j] = IF j = i THEN x ELSE s[j]
  <2>1. /\ g \in Seq(T) /\ Len(g) = Len(p) + 1
        /\ \A j \in 1 .. Len(p) + 1 :
             g[j] = IF j <= Len(p) THEN p[j] ELSE <<x>>[j - Len(p)]
    BY <1>2, <1>7, ConcatProperties
  <2> HIDE DEF g
  <2>2. QED
    BY <1>1, <1>2, <1>7, <2>1
<1> HIDE DEF g
<1>9. e = g \o q
  <2> DEFINE f == g \o q
  <2>1. f \in Seq(T) /\ Len(f) = i + Len(q)
        /\ \A j \in 1 .. i + Len(q) : f[j] = IF j <= i THEN g[j] ELSE q[j - i]
    <3>1. g \in Seq(T) /\ q \in Seq(T)
      BY <1>3, <1>8
    <3>2. f \in Seq(T) /\ Len(f) = Len(g) + Len(q)
          /\ \A j \in 1 .. Len(g) + Len(q) : f[j] = IF j <= Len(g) THEN g[j] ELSE q[j - Len(g)]
      BY <3>1, ConcatProperties
    <3> HIDE DEF f
    <3>3. QED
      BY <1>8, <3>2
  <2> HIDE DEF f
  <2>2. Len(e) = Len(f)
    BY <1>1, <1>3, <1>6, <2>1
  <2>3. ASSUME NEW j \in 1 .. Len(e) PROVE e[j] = f[j]
    <3>1. CASE j <= i
      BY <1>1, <1>3, <1>6, <1>8, <2>1, <3>1
    <3>2. CASE j > i
      <4>1. j - i \in 1 .. Len(s) - i /\ j # i /\ j \in 1 .. Len(s)
        BY <1>1, <1>6, <3>2
      <4>2. q[j - i] = s[(j - i) + i] /\ (j - i) + i = j
        BY <1>1, <1>3, <4>1
      <4>3. QED
        BY <1>1, <1>3, <1>6, <2>1, <3>2, <4>1, <4>2
    <3>3. j \in Nat /\ i \in Nat
      BY <1>1, <1>6
    <3>4. QED
      BY <3>1, <3>2, <3>3
  <2>4. e = f
    BY <1>6, <2>1, <2>2, <2>3, SeqEqual
  <2>5. QED
    BY <2>4 DEF f
<1>10. Times(S, e) = Times(S, p) + Times(S, <<x>>) + Times(S, q)
  <2>1. Times(S, g \o q) = Times(S, g) + Times(S, q)
    BY <1>3, <1>8, TimesConcat
  <2>2. Times(S, g) = Times(S, p) + Times(S, <<x>>)
    BY <1>2, <1>7, TimesConcat DEF g
  <2>3. QED
    BY <1>9, <2>1, <2>2
<1>11. Times(S, e) = Times(S, p) + Times(S, q) + IF Letter(x) \in S THEN 1 ELSE 0
  BY <1>4, <1>10, TimesOne
<1>12. QED
  BY <1>4, <1>5, <1>11 DEF p, q, e

\* What becomes of the count when the i-th element goes or is replaced.
LEMMA TimesChange ==
  ASSUME NEW T, NEW s \in Seq(T), NEW i \in 1 .. Len(s), NEW x \in T, NEW S
  PROVE  LET was == IF Letter(s[i]) \in S THEN 1 ELSE 0
             is  == IF Letter(x) \in S THEN 1 ELSE 0 IN
           /\ Times(S, RemoveAt(s, i)) + was = Times(S, s)
           /\ Times(S, [s EXCEPT ![i] = x]) + was = Times(S, s) + is
<1>1. s[i] \in T
  BY ElementOfSeq
<1>2. [s EXCEPT ![i] = s[i]] = s
  BY LenProperties
<1>3. QED
  BY <1>1, <1>2, TimesSplit

----------------------------------------------------------------------------
(* How many messages of S there are on connection k, from the channel of   *)
(* the client by way of the server to its queue for c.                     *)

Queue(k, c) == IF c \in DOMAIN inbox[k] THEN Tagged(c, inbox[k][c]) ELSE <<>>

Total(S, k, c) ==
  Times(S, outgoing[k]) + Times(S, toServer[k]) + Times(S, work[k]) + Times(S, InHand(k))
    + Times(S, outbox[k]) + Times(S, toClient[k]) + Times(S, Queue(k, c))

\* All messages to c.
To(c) == Addressed({c}, Requests \cup Replies)

Hit(m, S) == IF m \in S THEN 1 ELSE 0

\* In a step the message `old` goes and `new` comes, on connection k, but for
\* what is lost with the connection.
Flows(k, old, new) ==
  \A c \in CSlots : \A S \in SUBSET To(c) :
    /\ Total(S, k, c)' + Hit(old, S) <= Total(S, k, c) + Hit(new, S)
    /\ link'[k] = "up" => Total(S, k, c)' + Hit(old, S) = Total(S, k, c) + Hit(new, S)

LEMMA TaggedTypes ==
  ASSUME NEW c, NEW q \in Seq(Replies)
  PROVE  /\ Tagged(c, q) \in Seq(Addressed({c}, Replies))
         /\ \A m \in Replies : Tagged(c, Append(q, m)) = Append(Tagged(c, q), WireMessage(c, m))
         /\ q # <<>> => /\ Tagged(c, q) # <<>>
                        /\ Head(Tagged(c, q)) = WireMessage(c, Head(q))
                        /\ Tail(Tagged(c, q)) = Tagged(c, Tail(q))
<1>1. Len(q) \in Nat /\ \A i \in 1 .. Len(q) : q[i] \in Replies
  BY LenProperties, ElementOfSeq
<1>2. Tagged(c, q) \in Seq(Addressed({c}, Replies)) /\ Len(Tagged(c, q)) = Len(q)
      /\ \A i \in 1 .. Len(q) : Tagged(c, q)[i] = WireMessage(c, q[i])
  BY <1>1 DEF Tagged, WireMessage, Addressed
<1>3. ASSUME NEW m \in Replies
      PROVE  Tagged(c, Append(q, m)) = Append(Tagged(c, q), WireMessage(c, m))
  <2> DEFINE x == WireMessage(c, m)
             p == Append(q, m)
             r == Append(Tagged(c, q), x)
  <2>1. x \in Addressed({c}, Replies)
    BY DEF WireMessage, Addressed
  <2>2. p \in Seq(Replies) /\ Len(p) = Len(q) + 1 /\ p[Len(q) + 1] = m
        /\ \A i \in 1 .. Len(q) : p[i] = q[i]
    BY AppendProperties
  <2>3. r \in Seq(Addressed({c}, Replies)) /\ Len(r) = Len(q) + 1 /\ r[Len(q) + 1] = x
        /\ \A i \in 1 .. Len(q) : r[i] = Tagged(c, q)[i]
    BY <1>2, <2>1, AppendProperties
  <2>4. Tagged(c, p) \in Seq(Addressed({c}, Replies)) /\ Len(Tagged(c, p)) = Len(q) + 1
        /\ \A i \in 1 .. Len(q) + 1 : Tagged(c, p)[i] = WireMessage(c, p[i])
    <3>1. Len(p) \in Nat /\ \A i \in 1 .. Len(p) : p[i] \in Replies
      BY <2>2, LenProperties, ElementOfSeq
    <3> HIDE DEF p
    <3>2. QED
      BY <2>2, <3>1 DEF Tagged, WireMessage, Addressed
  <2> HIDE DEF p, r
  <2>5. ASSUME NEW i \in 1 .. Len(q) + 1 PROVE Tagged(c, p)[i] = r[i]
    <3>1. CASE i = Len(q) + 1
      BY <2>2, <2>3, <2>4, <3>1
    <3>2. CASE i \in 1 .. Len(q)
      BY <1>2, <2>2, <2>3, <2>4, <3>2
    <3>3. QED
      BY <1>1, <3>1, <3>2
  <2>6. Tagged(c, p) = r
    BY <2>3, <2>4, <2>5, SeqEqual
  <2>7. QED
    BY <2>6 DEF p, r
<1>4. ASSUME q # <<>>
      PROVE  /\ Tagged(c, q) # <<>>
             /\ Head(Tagged(c, q)) = WireMessage(c, Head(q))
             /\ Tail(Tagged(c, q)) = Tagged(c, Tail(q))
  <2>1. Len(q) >= 1 /\ Head(q) = q[1] /\ Tail(q) \in Seq(Replies) /\ Len(Tail(q)) = Len(q) - 1
        /\ \A i \in 1 .. Len(q) - 1 : Tail(q)[i] = q[i + 1]
    BY <1>1, <1>4, HeadTailProperties, EmptySeq
  <2>2. Tagged(c, q) # <<>> /\ Head(Tagged(c, q)) = WireMessage(c, Head(q))
    BY <1>1, <1>2, <2>1
  <2>3. Tail(Tagged(c, q)) \in Seq(Addressed({c}, Replies))
        /\ Len(Tail(Tagged(c, q))) = Len(q) - 1
        /\ \A i \in 1 .. Len(q) - 1 : Tail(Tagged(c, q))[i] = Tagged(c, q)[i + 1]
    BY <1>2, <2>2, HeadTailProperties
  <2>4. Tagged(c, Tail(q)) \in Seq(Addressed({c}, Replies))
        /\ Len(Tagged(c, Tail(q))) = Len(q) - 1
        /\ \A i \in 1 .. Len(q) - 1 : Tagged(c, Tail(q))[i] = WireMessage(c, Tail(q)[i])
    <3>1. Len(Tail(q)) \in Nat /\ \A i \in 1 .. Len(Tail(q)) : Tail(q)[i] \in Replies
      BY <2>1, LenProperties, ElementOfSeq
    <3>2. QED
      BY <2>1, <3>1 DEF Tagged, WireMessage, Addressed
  <2>5. ASSUME NEW i \in 1 .. Len(q) - 1 PROVE Tail(Tagged(c, q))[i] = Tagged(c, Tail(q))[i]
    BY <1>1, <1>2, <2>1, <2>3, <2>4
  <2>6. Tail(Tagged(c, q)) = Tagged(c, Tail(q))
    BY <2>3, <2>4, <2>5, SeqEqual
  <2>7. QED
    BY <2>2, <2>6
<1>5. QED
  BY <1>2, <1>3, <1>4

LEMMA InHandTypes ==
  ASSUME TypeOK, NEW k \in Clients
  PROVE  /\ InHand(k) \in Seq(Addressed(DOMAIN inbox[k], Reports))
         /\ relay[k].pc = "sending" => relay[k].out \in Addressed(DOMAIN inbox[k], Reports)
<1>1. relay[k].pc = "sending" => relay[k].out \in Addressed(DOMAIN inbox[k], Reports)
  BY ConnectionTypes DEF RelayState
<1> DEFINE x == relay[k].out
<1> HIDE DEF x
<1>2. x \in Addressed(DOMAIN inbox[k], Reports) => <<x>> \in Seq(Addressed(DOMAIN inbox[k], Reports))
  OBVIOUS
<1>3. <<>> \in Seq(Addressed(DOMAIN inbox[k], Reports))
  BY EmptySeq
<1>4. QED
  BY <1>1, <1>2, <1>3 DEF InHand, x

LEMMA QueueKinds ==
  ASSUME TypeOK, NEW k \in Clients, NEW c
  PROVE  Queue(k, c) \in Seq(Addressed({c}, Replies))
  BY TaggedTypes, QueueTypes, EmptySeq DEF Queue

\* Each part of the connection has its share.
LEMMA Parts ==
  ASSUME TypeOK, NEW k \in Clients, NEW c, NEW S
  PROVE  /\ Times(S, outgoing[k]) \in Nat /\ Times(S, toServer[k]) \in Nat
         /\ Times(S, work[k]) \in Nat /\ Times(S, InHand(k)) \in Nat
         /\ Times(S, outbox[k]) \in Nat /\ Times(S, toClient[k]) \in Nat
         /\ Times(S, Queue(k, c)) \in Nat /\ Total(S, k, c) \in Nat
<1>1. /\ Times(S, outgoing[k]) \in Nat /\ Times(S, toServer[k]) \in Nat
      /\ Times(S, work[k]) \in Nat /\ Times(S, InHand(k)) \in Nat
      /\ Times(S, outbox[k]) \in Nat /\ Times(S, toClient[k]) \in Nat
      /\ Times(S, Queue(k, c)) \in Nat
  BY ConnectionTypes, InHandTypes, QueueKinds, TimesFinite
<1>2. QED
  BY <1>1 DEF Total

\* So it has after a step.
LEMMA TotalNext ==
  ASSUME NEW k \in Clients, NEW c, NEW S
  PROVE  (TypeOK => Total(S, k, c) \in Nat /\ Total(S, k, c) >= Times(S, outgoing[k]))'
<1>1. TypeOK => Total(S, k, c) \in Nat /\ Total(S, k, c) >= Times(S, outgoing[k])
  BY Parts DEF Total
<1>2. QED
  BY <1>1, PTL

\* What is addressed is a message.
LEMMA Letters ==
  ASSUME NEW D, NEW messages, NEW m \in Addressed(D, messages)
  PROVE  Letter(m) = m /\ m.c_slot \in D /\ m.inner \in messages
  BY DEF Letter, WireMessage, Addressed

LEMMA NoHit ==
  ASSUME NEW c, NEW S \in SUBSET To(c)
  PROVE  Hit(NoMessage, S) = 0
<1>1. \A m \in To(c) : m # NoMessage
  BY DEF To, Addressed, NoMessage
<1>2. QED
  BY <1>1 DEF Hit

LEMMA OneHit == ASSUME NEW m, NEW S PROVE Hit(m, S) \in {0, 1}
  BY DEF Hit

\* Nothing moves.
LEMMA StillFlows ==
  ASSUME TypeOK, NEW k \in Clients,
         inbox'[k] = inbox[k], outgoing'[k] = outgoing[k], toServer'[k] = toServer[k],
         work'[k] = work[k], InHand(k)' = InHand(k), outbox'[k] = outbox[k],
         toClient'[k] = toClient[k]
  PROVE  Flows(k, NoMessage, NoMessage)
<1> SUFFICES ASSUME NEW c \in CSlots, NEW S \in SUBSET To(c)
             PROVE  Total(S, k, c)' = Total(S, k, c) /\ Total(S, k, c) \in Nat
  BY NoHit DEF Flows
<1>1. Total(S, k, c)' = Total(S, k, c)
  BY DEF Total, Queue, Tagged
<1>2. QED
  BY <1>1, Parts

LEMMA ReadRequestFlows ==
  ASSUME TypeOK, NEW k \in Clients, ReadRequest(k), ServerSide
  PROVE  Flows(k, NoMessage, NoMessage)
<1> DEFINE D == DOMAIN inbox[k]
           m == Head(toServer[k])
           w == [step |-> "handle", c_slot |-> m.c_slot, inner |-> m.inner]
<1> SUFFICES ASSUME NEW c \in CSlots, NEW S \in SUBSET To(c)
             PROVE  Total(S, k, c)' = Total(S, k, c) /\ Total(S, k, c) \in Nat
  BY NoHit DEF Flows
<1>1. m \in Addressed(D, Requests) /\ toServer[k] \in Seq(Addressed(D, Requests))
      /\ toServer[k] # <<>>
  BY HeadTailProperties, ConnectionTypes DEF ReadRequest
<1>2. toServer'[k] = Tail(toServer[k]) /\ work'[k] = Append(work[k], w)
  BY DEF ReadRequest, TypeOK
<1>3. w \in WorkState(D) /\ Letter(w) = m /\ Letter(m) = m
  BY <1>1 DEF Addressed, WorkState, Letter, WireMessage
<1> HIDE DEF m, w
<1>4. Times(S, toServer[k]) = Times(S, toServer'[k]) + IF m \in S THEN 1 ELSE 0
  BY <1>1, <1>2, <1>3, TimesTail DEF m
<1>5. Times(S, work'[k]) = Times(S, work[k]) + IF m \in S THEN 1 ELSE 0
  BY <1>2, <1>3, ConnectionTypes, TimesAppend
<1>6. Times(S, toServer'[k]) \in Nat
  BY <1>1, <1>2, HeadTailProperties, TimesFinite
<1>7. Total(S, k, c)' = Times(S, outgoing[k]) + Times(S, toServer'[k]) + Times(S, work'[k])
         + Times(S, InHand(k)) + Times(S, outbox[k]) + Times(S, toClient[k]) + Times(S, Queue(k, c))
  BY DEF ReadRequest, ServerSide, clientVars, Total, InHand, Queue, Tagged
<1>8. QED
  BY <1>4, <1>5, <1>6, <1>7, Parts DEF Total

\* A task holds another message.
LEMMA ProceedFlows ==
  ASSUME TypeOK, NEW k \in Clients, NEW i \in 1 .. Len(work[k]), NEW step, NEW message,
         \/ step \in {"executing", "panicked"} /\ message \in {RpcReq(b) : b \in BOOLEAN}
         \/ step = "subscribe" /\ message \in {RpcReqRslt(s) : s \in Slots}
         \/ step = "reply" /\ message \in Replies,
         Proceed(k, i, step, message), UNCHANGED <<wireVars, relay, outbox>>, ServerSide
  PROVE  Flows(k, WireMessage(work[k][i].c_slot, work[k][i].inner),
                  WireMessage(work[k][i].c_slot, message))
<1> DEFINE x   == [step |-> step, c_slot |-> work[k][i].c_slot, inner |-> message]
           old == WireMessage(work[k][i].c_slot, work[k][i].inner)
           new == WireMessage(work[k][i].c_slot, message)
<1> SUFFICES ASSUME NEW c \in CSlots, NEW S \in SUBSET To(c)
             PROVE  /\ Total(S, k, c)' + Hit(old, S) = Total(S, k, c) + Hit(new, S)
                    /\ Total(S, k, c) + Hit(new, S) \in Nat
  <2> HIDE DEF old, new
  <2>1. QED
    BY DEF Flows, old, new
<1>1. x \in WorkState(DOMAIN inbox[k])
  BY TaskTypes DEF WorkState
<1>2. work'[k] = [work[k] EXCEPT ![i] = x]
  BY DEF Proceed, TypeOK
<1>3. Letter(x) = new /\ Letter(work[k][i]) = old
  BY DEF Letter, WireMessage
<1>4. Times(S, work'[k]) + Hit(old, S) = Times(S, work[k]) + Hit(new, S)
  <2> HIDE DEF x, old, new
  <2>1. work[k] \in Seq(WorkState(DOMAIN inbox[k]))
    BY ConnectionTypes
  <2>2. Times(S, [work[k] EXCEPT ![i] = x]) + (IF Letter(work[k][i]) \in S THEN 1 ELSE 0)
          = Times(S, work[k]) + (IF Letter(x) \in S THEN 1 ELSE 0)
    BY <1>1, <2>1, TimesChange
  <2>3. QED
    BY <1>2, <1>3, <2>2 DEF Hit
<1>5. Times(S, work'[k]) \in Nat
  BY <1>1, <1>2, ConnectionTypes, ExceptSeq, TimesFinite
<1>6. Total(S, k, c)' = Times(S, outgoing[k]) + Times(S, toServer[k]) + Times(S, work'[k])
         + Times(S, InHand(k)) + Times(S, outbox[k]) + Times(S, toClient[k]) + Times(S, Queue(k, c))
  BY DEF ServerSide, clientVars, wireVars, Total, InHand, Queue, Tagged
<1>7. Hit(old, S) \in {0, 1} /\ Hit(new, S) \in {0, 1}
  BY OneHit
<1> HIDE DEF old, new
<1>8. Total(S, k, c)' + Hit(old, S) = Total(S, k, c) + Hit(new, S)
  <2> DEFINE rest == Times(S, outgoing[k]) + Times(S, toServer[k]) + Times(S, InHand(k))
                       + Times(S, outbox[k]) + Times(S, toClient[k]) + Times(S, Queue(k, c))
  <2>1. /\ Times(S, outgoing[k]) \in Nat /\ Times(S, toServer[k]) \in Nat
        /\ Times(S, InHand(k)) \in Nat   /\ Times(S, outbox[k]) \in Nat
        /\ Times(S, toClient[k]) \in Nat /\ Times(S, Queue(k, c)) \in Nat
        /\ Times(S, work[k]) \in Nat
    BY Parts
  <2>2. Total(S, k, c) = rest + Times(S, work[k])
    BY <2>1 DEF Total
  <2>3. rest \in Nat /\ Times(S, work[k]) \in Nat
    BY <2>1
  <2>4. Total(S, k, c)' = rest + Times(S, work'[k])
    BY <1>5, <1>6, <2>1
  <2> HIDE DEF rest
  <2>5. QED
    BY <1>4, <1>5, <1>7, <2>2, <2>3, <2>4
<1>9. QED
  BY <1>7, <1>8, Parts

LEMMA ReplyFlows ==
  ASSUME TypeOK, NEW k \in Clients, NEW i \in 1 .. Len(work[k]), Reply(k, i), ServerSide
  PROVE  Flows(k, NoMessage, NoMessage)
<1> DEFINE m == WireMessage(work[k][i].c_slot, work[k][i].inner)
<1> SUFFICES ASSUME NEW c \in CSlots, NEW S \in SUBSET To(c)
             PROVE  Total(S, k, c)' = Total(S, k, c) /\ Total(S, k, c) \in Nat
  BY NoHit DEF Flows
<1>1. outbox[k] = <<>> /\ outbox'[k] = <<m>> /\ work'[k] = RemoveAt(work[k], i)
  BY DEF Reply, Enqueue, Room, TaskEnds, TypeOK
<1>2. Letter(m) = m /\ Letter(work[k][i]) = m /\ work[k][i] \in WorkState(DOMAIN inbox[k])
  BY TaskTypes DEF Letter, WireMessage
<1> HIDE DEF m
<1>3. Times(S, outbox[k]) = 0 /\ Times(S, outbox'[k]) = IF m \in S THEN 1 ELSE 0
  BY <1>1, <1>2, TimesOne
<1>4. Times(S, work'[k]) + (IF m \in S THEN 1 ELSE 0) = Times(S, work[k])
  BY <1>1, <1>2, ConnectionTypes, TimesChange
<1>5. Times(S, work'[k]) \in Nat
  BY <1>1, ConnectionTypes, RemoveAtType, TimesFinite
<1>6. Total(S, k, c)' = Times(S, outgoing[k]) + Times(S, toServer[k]) + Times(S, work'[k])
         + Times(S, InHand(k)) + Times(S, outbox'[k]) + Times(S, toClient[k]) + Times(S, Queue(k, c))
  BY DEF Reply, ServerSide, clientVars, wireVars, Total, InHand, Queue, Tagged
<1>7. /\ Times(S, outgoing[k]) \in Nat /\ Times(S, toServer[k]) \in Nat
      /\ Times(S, work[k]) \in Nat     /\ Times(S, InHand(k)) \in Nat
      /\ Times(S, toClient[k]) \in Nat /\ Times(S, Queue(k, c)) \in Nat
  BY Parts
<1>8. Total(S, k, c) = Times(S, outgoing[k]) + Times(S, toServer[k]) + Times(S, work[k])
         + Times(S, InHand(k)) + Times(S, outbox[k]) + Times(S, toClient[k]) + Times(S, Queue(k, c))
  BY DEF Total
<1> DEFINE rest == Times(S, outgoing[k]) + Times(S, toServer[k]) + Times(S, InHand(k))
                     + Times(S, toClient[k]) + Times(S, Queue(k, c))
           hit  == IF m \in S THEN 1 ELSE 0
<1>9. hit \in Nat /\ Times(S, outbox'[k]) = hit /\ Times(S, work'[k]) + hit = Times(S, work[k])
  BY <1>3, <1>4
<1> HIDE DEF hit
<1>10. rest \in Nat
  BY <1>7
<1>11. Total(S, k, c) = rest + Times(S, work[k])
  BY <1>3, <1>7, <1>8
<1>12. Total(S, k, c)' = rest + (Times(S, work'[k]) + hit)
  BY <1>5, <1>6, <1>7, <1>9
<1> HIDE DEF rest
<1>13. QED
  BY <1>5, <1>7, <1>9, <1>10, <1>11, <1>12

\* The relay has nothing in hand before it receives.
LEMMA RelayReceiveFlows ==
  ASSUME TypeOK, NEW k \in Clients, RelayReceive(k), ServerSide
  PROVE  LET m == log[relay[k].next + 1] IN
           /\ m \in Message
           /\ m.slot \in DOMAIN subscribed[k]
                => Flows(k, NoMessage, WireMessage(subscribed[k][m.slot], RpcRslt(m.slot, m.n, FALSE)))
           /\ m.slot \notin DOMAIN subscribed[k] => Flows(k, NoMessage, NoMessage)
<1> DEFINE m   == log[relay[k].next + 1]
           out == WireMessage(subscribed[k][m.slot], RpcRslt(m.slot, m.n, FALSE))
<1>1. m \in Message
  BY ConnectionTypes, ElementOfSeq DEF RelayReceive, Receivable, Pending, TypeOK
<1>2. InHand(k) = <<>>
  BY DEF RelayReceive, InHand
<1>3. CASE m.slot \in DOMAIN subscribed[k]
  <2>1. InHand(k)' = <<out>>
    BY <1>3 DEF RelayReceive, InHand, TypeOK
  <2>2. Letter(out) = out
    BY DEF Letter, WireMessage
  <2> HIDE DEF m, out
  <2>3. Flows(k, NoMessage, out)
    <3> SUFFICES ASSUME NEW c \in CSlots, NEW S \in SUBSET To(c)
                 PROVE  /\ Total(S, k, c)' = Total(S, k, c) + Hit(out, S)
                        /\ Total(S, k, c) \in Nat /\ Hit(out, S) \in {0, 1}
      BY NoHit DEF Flows
    <3>1. Times(S, InHand(k)) = 0 /\ Times(S, InHand(k)') = Hit(out, S)
      BY <1>2, <2>1, <2>2, TimesOne DEF Hit
    <3>2. Total(S, k, c)' = Times(S, outgoing[k]) + Times(S, toServer[k]) + Times(S, work[k])
         + Times(S, InHand(k)') + Times(S, outbox[k]) + Times(S, toClient[k]) + Times(S, Queue(k, c))
      BY DEF RelayReceive, ServerSide, clientVars, wireVars, Total, Queue, Tagged
    <3>3. QED
      BY <3>1, <3>2, Parts, OneHit DEF Total
  <2>4. QED
    BY <1>1, <1>3, <2>3 DEF m, out
<1>4. CASE m.slot \notin DOMAIN subscribed[k]
  <2>1. InHand(k)' = <<>>
    BY <1>4 DEF RelayReceive, InHand, TypeOK
  <2>2. QED
    BY <1>1, <1>2, <1>4, <2>1, StillFlows DEF RelayReceive, ServerSide, clientVars, wireVars
<1>5. QED
  BY <1>3, <1>4

LEMMA RelaySendFlows ==
  ASSUME TypeOK, NEW k \in Clients, RelaySend(k), ServerSide
  PROVE  Flows(k, NoMessage, NoMessage)
<1> SUFFICES ASSUME NEW c \in CSlots, NEW S \in SUBSET To(c)
             PROVE  Total(S, k, c)' = Total(S, k, c) /\ Total(S, k, c) \in Nat
  BY NoHit DEF Flows
<1>1. /\ outbox[k] = <<>> /\ outbox'[k] = InHand(k) /\ InHand(k)' = <<>>
  BY DEF RelaySend, Enqueue, Room, RelayListens, InHand, TypeOK
<1>2. Times(S, outbox[k]) = 0 /\ Times(S, InHand(k)') = 0
  BY <1>1, TimesOne
<1>3. Total(S, k, c)' = Times(S, outgoing[k]) + Times(S, toServer[k]) + Times(S, work[k])
       + Times(S, InHand(k)') + Times(S, outbox'[k]) + Times(S, toClient[k]) + Times(S, Queue(k, c))
  BY DEF RelaySend, ServerSide, clientVars, wireVars, Total, Queue, Tagged
<1>4. QED
  BY <1>1, <1>2, <1>3, Parts DEF Total

LEMMA FlushFlows ==
  ASSUME TypeOK, NEW k \in Clients, Flush(k), ServerSide
  PROVE  Flows(k, NoMessage, NoMessage)
<1> SUFFICES ASSUME NEW c \in CSlots, NEW S \in SUBSET To(c)
             PROVE  /\ Total(S, k, c)' <= Total(S, k, c)
                    /\ link[k] = "up" => Total(S, k, c)' = Total(S, k, c)
                    /\ Total(S, k, c) \in Nat /\ Total(S, k, c)' \in Nat
  BY NoHit DEF Flows, Flush
<1>1. Times(S, outbox'[k]) = 0
  BY TimesOne DEF Flush, TypeOK
<1>2. CASE link[k] = "up"
  <2>1. toClient'[k] = toClient[k] \o outbox[k]
    BY <1>2 DEF Flush, TypeOK
  <2>2. Times(S, toClient'[k]) = Times(S, toClient[k]) + Times(S, outbox[k])
    BY <2>1, ConnectionTypes, TimesConcat
  <2>3. Total(S, k, c)' = Times(S, outgoing[k]) + Times(S, toServer[k]) + Times(S, work[k])
       + Times(S, InHand(k)) + Times(S, outbox'[k]) + Times(S, toClient'[k]) + Times(S, Queue(k, c))
    BY DEF Flush, ServerSide, clientVars, Total, InHand, Queue, Tagged
  <2>4. QED
    BY <1>1, <2>2, <2>3, Parts DEF Total
<1>3. CASE link[k] # "up"
  <2>1. Total(S, k, c)' = Times(S, outgoing[k]) + Times(S, toServer[k]) + Times(S, work[k])
       + Times(S, InHand(k)) + Times(S, outbox'[k]) + Times(S, toClient[k]) + Times(S, Queue(k, c))
    BY <1>3 DEF Flush, ServerSide, clientVars, Total, InHand, Queue, Tagged
  <2>2. QED
    BY <1>1, <1>3, <2>1, Parts DEF Total
<1>4. QED
  BY <1>2, <1>3

LEMMA WriteFlows ==
  ASSUME TypeOK, NEW k \in Clients, Write(k), ClientSide
  PROVE  Flows(k, NoMessage, NoMessage)
<1> link' = link
  BY DEF Write
<1> SUFFICES ASSUME NEW c \in CSlots, NEW S \in SUBSET To(c)
             PROVE  /\ Total(S, k, c)' <= Total(S, k, c)
                    /\ link[k] = "up" => Total(S, k, c)' = Total(S, k, c)
                    /\ Total(S, k, c) \in Nat /\ Total(S, k, c)' \in Nat
  BY NoHit DEF Flows
<1>1. Times(S, outgoing'[k]) = 0
  BY TimesOne DEF Write, TypeOK
<1>2. CASE link[k] = "up"
  <2>1. toServer'[k] = toServer[k] \o outgoing[k]
    BY <1>2 DEF Write, TypeOK
  <2>2. Times(S, toServer'[k]) = Times(S, toServer[k]) + Times(S, outgoing[k])
    BY <2>1, ConnectionTypes, TimesConcat
  <2>3. Total(S, k, c)' = Times(S, outgoing'[k]) + Times(S, toServer'[k]) + Times(S, work[k])
       + Times(S, InHand(k)) + Times(S, outbox[k]) + Times(S, toClient[k]) + Times(S, Queue(k, c))
    BY DEF Write, ClientSide, connectionVars, Total, InHand, Queue, Tagged
  <2>4. QED
    BY <1>1, <2>2, <2>3, Parts DEF Total
<1>3. CASE link[k] # "up"
  <2>1. Total(S, k, c)' = Times(S, outgoing'[k]) + Times(S, toServer[k]) + Times(S, work[k])
       + Times(S, InHand(k)) + Times(S, outbox[k]) + Times(S, toClient[k]) + Times(S, Queue(k, c))
    BY <1>3 DEF Write, ClientSide, connectionVars, Total, InHand, Queue, Tagged
  <2>2. QED
    BY <1>1, <1>3, <2>1, Parts DEF Total
<1>4. QED
  BY <1>2, <1>3

LEMMA DeliverFlows ==
  ASSUME TypeOK, NEW k \in Clients, Deliver(k), ClientSide
  PROVE  Flows(k, NoMessage, NoMessage)
<1> DEFINE D == DOMAIN inbox[k]
           m == Head(toClient[k])
<1> SUFFICES ASSUME NEW c \in CSlots, NEW S \in SUBSET To(c)
             PROVE  Total(S, k, c)' = Total(S, k, c) /\ Total(S, k, c) \in Nat
  BY NoHit DEF Flows
<1>1. /\ m \in Addressed(D, Replies) /\ toClient[k] \in Seq(Addressed(D, Replies))
      /\ toClient[k] # <<>> /\ toClient'[k] = Tail(toClient[k])
      /\ Tail(toClient[k]) \in Seq(Addressed(D, Replies))
  BY HeadTailProperties, ConnectionTypes DEF Deliver, TypeOK
<1>2. inbox'[k] = [d \in D |-> IF d = m.c_slot THEN Append(inbox[k][d], m.inner) ELSE inbox[k][d]]
  BY DEF Deliver, TypeOK
<1>3. Letter(m) = m /\ m.c_slot \in D /\ m.inner \in Replies /\ m = WireMessage(m.c_slot, m.inner)
  BY <1>1, Letters DEF Letter
<1> HIDE DEF m
<1>4. Times(S, toClient[k]) = Times(S, toClient'[k]) + Hit(m, S)
  BY <1>1, <1>3, TimesTail DEF Hit, m
<1>5. Times(S, Queue(k, c)') = Times(S, Queue(k, c)) + Hit(m, S)
  <2>1. CASE c = m.c_slot
    <3>1. Queue(k, c)' = Append(Queue(k, c), m)
      BY <1>2, <1>3, <2>1, TaggedTypes, QueueTypes DEF Queue, Tagged
    <3>2. m \in Addressed({c}, Replies)
      BY <1>1, <2>1 DEF Addressed
    <3>3. QED
      BY <1>3, <3>1, <3>2, QueueKinds, TimesAppend DEF Hit
  <2>2. CASE c # m.c_slot
    <3>1. Queue(k, c)' = Queue(k, c)
      BY <1>2, <2>2 DEF Queue, Tagged
    <3>2. Hit(m, S) = 0
      BY <2>2 DEF Hit, To, Addressed
    <3>3. QED
      BY <3>1, <3>2, Parts
  <2>3. QED
    BY <2>1, <2>2
<1>6. Times(S, toClient'[k]) \in Nat /\ Hit(m, S) \in {0, 1}
  BY <1>1, TimesFinite, OneHit
<1>7. Total(S, k, c)' = Times(S, outgoing[k]) + Times(S, toServer[k]) + Times(S, work[k])
       + Times(S, InHand(k)) + Times(S, outbox[k]) + Times(S, toClient'[k]) + Times(S, Queue(k, c)')
  BY DEF Deliver, ClientSide, connectionVars, Total, InHand
<1>8. QED
  BY <1>4, <1>5, <1>6, <1>7, Parts DEF Total

LEMMA DisconnectFlows ==
  ASSUME TypeOK, NEW k \in Clients, Disconnect(k), UNCHANGED <<tasksVars, connectionVars, clientVars>>
  PROVE  Flows(k, NoMessage, NoMessage)
<1> link'[k] # "up"
  BY DEF Disconnect, TypeOK
<1> SUFFICES ASSUME NEW c \in CSlots, NEW S \in SUBSET To(c)
             PROVE  /\ Total(S, k, c)' <= Total(S, k, c)
                    /\ Total(S, k, c) \in Nat /\ Total(S, k, c)' \in Nat
  BY NoHit DEF Flows
<1>1. Times(S, toServer'[k]) = 0 /\ Times(S, toClient'[k]) = 0
  BY TimesOne DEF Disconnect, TypeOK
<1>2. Total(S, k, c)' = Times(S, outgoing[k]) + Times(S, toServer'[k]) + Times(S, work[k])
       + Times(S, InHand(k)) + Times(S, outbox[k]) + Times(S, toClient'[k]) + Times(S, Queue(k, c))
  BY DEF clientVars, connectionVars, Total, InHand, Queue, Tagged
<1>3. QED
  BY <1>1, <1>2, Parts DEF Total

LEMMA CloseAbortFlows ==
  ASSUME TypeOK, NEW k \in Clients, NEW u \in Users, k = user[u].client, CloseAbort(u), ClientSide
  PROVE  Flows(k, NoMessage, NoMessage)
<1> link'[k] # "up"
  BY DEF CloseAbort, TypeOK
<1> SUFFICES ASSUME NEW c \in CSlots, NEW S \in SUBSET To(c)
             PROVE  /\ Total(S, k, c)' <= Total(S, k, c)
                    /\ Total(S, k, c) \in Nat /\ Total(S, k, c)' \in Nat
  BY NoHit DEF Flows
<1>1. Times(S, outgoing'[k]) = 0 /\ Times(S, toClient'[k]) = 0
  BY TimesOne DEF CloseAbort, TypeOK
<1>2. Total(S, k, c)' = Times(S, outgoing'[k]) + Times(S, toServer[k]) + Times(S, work[k])
       + Times(S, InHand(k)) + Times(S, outbox[k]) + Times(S, toClient'[k]) + Times(S, Queue(k, c))
  BY DEF CloseAbort, ClientSide, connectionVars, Total, InHand, Queue, Tagged
<1>3. QED
  BY <1>1, <1>2, Parts DEF Total

\* A request is sent, with a new queue or to one that is there.
LEMMA SendFlows ==
  ASSUME TypeOK, NEW k \in Clients, NEW c \in CSlots, NEW message, Send(k, c, message),
         inbox' = inbox \/ Allocate(k, c), UNCHANGED wireVars, ClientSide
  PROVE  Flows(k, NoMessage, WireMessage(c, message))
<1> DEFINE m == WireMessage(c, message)
<1>1. outgoing[k] = <<>> /\ outgoing'[k] = <<m>> /\ Letter(m) = m
  BY DEF Send, TypeOK, Letter, WireMessage
<1> HIDE DEF m
<1> SUFFICES ASSUME NEW d \in CSlots, NEW S \in SUBSET To(d)
             PROVE  /\ Total(S, k, d)' = Total(S, k, d) + Hit(m, S)
                    /\ Total(S, k, d) \in Nat /\ Hit(m, S) \in {0, 1}
  BY NoHit DEF Flows, m
<1>2. Times(S, outgoing[k]) = 0 /\ Times(S, outgoing'[k]) = Hit(m, S)
  BY <1>1, TimesOne DEF Hit
<1>3. Queue(k, d)' = Queue(k, d)
  <2>1. CASE inbox' = inbox
    BY <2>1 DEF Queue, Tagged
  <2>2. CASE Allocate(k, c)
    BY <2>2, AllocateTypes DEF Queue, Tagged
  <2>3. QED
    BY <2>1, <2>2
<1>4. Total(S, k, d)' = Times(S, outgoing'[k]) + Times(S, toServer[k]) + Times(S, work[k])
       + Times(S, InHand(k)) + Times(S, outbox[k]) + Times(S, toClient[k]) + Times(S, Queue(k, d))
  BY <1>3 DEF ClientSide, wireVars, connectionVars, Total, InHand
<1>5. QED
  BY <1>2, <1>4, Parts, OneHit DEF Total

\* A message is taken from a queue.
LEMMA PopFlows ==
  ASSUME TypeOK, NEW k \in Clients, NEW c \in DOMAIN inbox[k], Pop(k, c),
         UNCHANGED <<wireVars, outgoing>>, ClientSide
  PROVE  Flows(k, WireMessage(c, Head(inbox[k][c])), NoMessage)
<1> DEFINE m == WireMessage(c, Head(inbox[k][c]))
<1>1. /\ inbox[k][c] # <<>> /\ inbox[k][c] \in Seq(Replies)
      /\ DOMAIN inbox'[k] = DOMAIN inbox[k]
      /\ \A d \in DOMAIN inbox[k] :
           inbox'[k][d] = IF d = c THEN Tail(inbox[k][c]) ELSE inbox[k][d]
  BY QueueTypes, PopTypes DEF Pop
<1>2. Letter(m) = m
  BY DEF Letter, WireMessage
<1> SUFFICES ASSUME NEW d \in CSlots, NEW S \in SUBSET To(d)
             PROVE  /\ Total(S, k, d)' + Hit(m, S) = Total(S, k, d)
                    /\ Total(S, k, d) \in Nat /\ Hit(m, S) \in {0, 1}
                    /\ Total(S, k, d)' \in Nat
  <2> HIDE DEF m
  <2>1. QED
    BY NoHit DEF Flows, m
<1>3. Times(S, Queue(k, d)') + Hit(m, S) = Times(S, Queue(k, d)) /\ Times(S, Queue(k, d)') \in Nat
  <2>1. CASE d = c
    <3>1. Queue(k, d) # <<>> /\ Head(Queue(k, d)) = m /\ Queue(k, d)' = Tail(Queue(k, d))
      <4>1. Queue(k, d) = Tagged(c, inbox[k][c])
        BY <2>1 DEF Queue
      <4>2. Queue(k, d)' = Tagged(c, Tail(inbox[k][c]))
        BY <1>1, <2>1 DEF Queue, Tagged
      <4>3. m = WireMessage(c, Head(inbox[k][c]))
        OBVIOUS
      <4> DEFINE q == inbox[k][c]
      <4>4. q # <<>> /\ q \in Seq(Replies)
        BY <1>1
      <4> HIDE DEF m, q
      <4>5. /\ Tagged(c, q) # <<>> /\ Head(Tagged(c, q)) = WireMessage(c, Head(q))
            /\ Tail(Tagged(c, q)) = Tagged(c, Tail(q))
        BY <4>4, TaggedTypes
      <4>6. QED
        BY <4>1, <4>2, <4>3, <4>5 DEF q
    <3> HIDE DEF m
    <3>2. Tail(Queue(k, d)) \in Seq(Addressed({d}, Replies))
      BY <3>1, QueueKinds, HeadTailProperties
    <3>3. Times(S, Queue(k, d)) = Times(S, Tail(Queue(k, d))) + Hit(m, S)
      BY <1>2, <3>1, QueueKinds, TimesTail DEF Hit
    <3>4. QED
      BY <3>1, <3>2, <3>3, TimesFinite, OneHit
  <2>2. CASE d # c
    <3>1. Queue(k, d)' = Queue(k, d)
      BY <1>1, <2>2 DEF Queue, Tagged
    <3>2. Hit(m, S) = 0
      BY <2>2 DEF Hit, To, Addressed, WireMessage
    <3>3. QED
      BY <3>1, <3>2, Parts
  <2>3. QED
    BY <2>1, <2>2
<1>4. Total(S, k, d)' = Times(S, outgoing[k]) + Times(S, toServer[k]) + Times(S, work[k])
       + Times(S, InHand(k)) + Times(S, outbox[k]) + Times(S, toClient[k]) + Times(S, Queue(k, d)')
  BY DEF ClientSide, wireVars, connectionVars, Total, InHand
<1>5. Hit(m, S) \in {0, 1}
  BY OneHit
<1> HIDE DEF m
<1>6. QED
  BY <1>3, <1>4, <1>5, Parts DEF Total

----------------------------------------------------------------------------
(* What an action on connection k leaves alone.                            *)

LEMMA ServerElsewhere ==
  ASSUME TypeOK, NEW k \in Clients, ConnectionStep(k), ServerSide
  PROVE  Elsewhere(k)
<1> USE DEF ServerSide, clientVars, wireVars, Elsewhere, TypeOK
<1>1. CASE ReadRequest(k)
  BY <1>1 DEF ReadRequest
<1>2. ASSUME NEW i \in 1 .. Len(work[k]), WorkStep(k, i) PROVE Elsewhere(k)
  <2>1. CASE \/ Refuse(k, i) \/ AssignSlot(k, i) \/ OutOfSlots(k, i) \/ NoHandler(k, i)
             \/ (\E s \in Slots : Execute(k, i, s)) \/ HandleRpcReqResult(k, i)
    BY <2>1 DEF Refuse, AssignSlot, OutOfSlots, NoHandler, Execute, HandleRpcReqResult, Proceed
  <2>2. CASE SubscribeCaller(k, i) \/ HandleSub(k, i) \/ HandleUnsub(k, i)
    BY <2>2 DEF SubscribeCaller, HandleSub, HandleUnsub, Proceed
  <2>3. CASE Reply(k, i)
    BY <2>3 DEF Reply, Enqueue, TaskEnds
  <2>4. QED
    BY <1>2, <2>1, <2>2, <2>3 DEF WorkStep, OwnStep, ExecutorStep
<1>3. CASE RelayStep(k)
  BY <1>3 DEF RelayStep, RelayReceive, RelayLag, RelaySend, Enqueue, RelayListens
<1>4. CASE Flush(k)
  BY <1>4 DEF Flush
<1>5. QED
  BY <1>1, <1>2, <1>3, <1>4 DEF ConnectionStep

LEMMA WireElsewhere ==
  ASSUME TypeOK, NEW k \in Clients,
         \/ Connect(k)
         \/ Disconnect(k) /\ UNCHANGED <<tasksVars, connectionVars, clientVars>>
         \/ Deliver(k) /\ ClientSide
         \/ Write(k) /\ ClientSide
         \/ (\E c \in CSlots : DropCSlot(k, c)) /\ ClientSide
  PROVE  Elsewhere(k)
  BY DEF Connect, Open, AcceptConnection, Disconnect, Deliver, Write, DropCSlot, ClientSide,
         wireVars, clientVars, connectionVars, Elsewhere, TypeOK

LEMMA UserElsewhere ==
  ASSUME TypeOK, NEW k \in Clients, NEW u \in Users, ClientSide,
         UserStarts(u, k) \/ (UserStep(u) /\ k = user[u].client)
  PROVE  Elsewhere(k)
<1> USE DEF ClientSide, connectionVars, wireVars, Elsewhere, TypeOK
<1>1. CASE UserStarts(u, k)
  BY <1>1 DEF UserStarts, Call, Subscribe, Refresh, Receive, TryReceive, Close, Allocate, Send, Pop,
              othersVars
<1>2. CASE UserStep(u) /\ k = user[u].client
  <2>1. CASE CallReturns(u) \/ SubscribeReturns(u)
    BY <1>2, <2>1 DEF CallReturns, SubscribeReturns, Pop, Map
  <2>2. CASE LookUp(u) \/ NotSubscribed(u) \/ Received(u) \/ ClosePanics(u)
    BY <1>2, <2>2 DEF LookUp, NotSubscribed, Received, ClosePanics, Pop, othersVars
  <2>3. CASE (\E c \in CSlots : CloseSend(u, c)) \/ CloseAbort(u)
    BY <1>2, <2>3 DEF CloseSend, CloseAbort, Allocate, Send
  <2>4. QED
    BY <1>2, <2>1, <2>2, <2>3 DEF UserStep
<1>3. QED
  BY <1>1, <1>2

LEMMA ElsewhereFlows ==
  ASSUME TypeOK, NEW k \in Clients, Elsewhere(k), NEW j \in Clients, j # k
  PROVE  Flows(j, NoMessage, NoMessage)
<1>1. InHand(j)' = InHand(j)
  BY DEF InHand, Elsewhere
<1>2. QED
  BY <1>1, StillFlows DEF Elsewhere

----------------------------------------------------------------------------
(* What a queue is about.                                                  *)

\* Calls to c, the other messages, and those that are about s.
Calls        == {RpcReq(b) : b \in BOOLEAN}
CallsTo(c)   == Addressed({c}, Calls)
OthersTo(c)  == To(c) \ CallsTo(c)
Naming(c, s) == Addressed({c}, {Sub(s), RpcReqRslt(s)}
                  \cup [kind : {"RpcRslt"}, slot : {s}, n : Nat, asked : BOOLEAN])

\* Client or server maps s to c.
MapsTo(k, s, c) ==
  \/ s \in DOMAIN slot_map[k] /\ slot_map[k][s] = c
  \/ s \in DOMAIN subscribed[k] /\ subscribed[k][s] = c

\* s is among the s_slots that c is about.
Names(k, c, s) == Total(Naming(c, s), k, c) >= 1 \/ MapsTo(k, s, c)

Subscribing(u, k, c) ==
  user[u].pc = "subscribing" /\ user[u].client = k /\ user[u].c_slot = c

\* A call that has no slot yet is all there is of its queue, ...
CallAlone(k, c) ==
  Total(CallsTo(c), k, c) >= 1 =>
    /\ Total(CallsTo(c), k, c) = 1
    /\ Total(OthersTo(c), k, c) = 0
    /\ \A s \in Slots : ~MapsTo(k, s, c)
    /\ \A u \in Users : ~Subscribing(u, k, c)

\* ... a queue is about one slot, ...
OneName(k, c) == \A s, t \in Slots : Names(k, c, s) /\ Names(k, c, t) => s = t

\* ... and that is the one that a user subscribes to with it.
NameSubscribed(k, c) ==
  \A u \in Users, s \in Slots : Subscribing(u, k, c) /\ Names(k, c, s) => s = user[u].slot

QueueOK(k, c) == CallAlone(k, c) /\ OneName(k, c) /\ NameSubscribed(k, c)

\* No two users wait at one queue.
OwnQueues ==
  \A k \in Clients, u, v \in Users :
    Waiting(u, k) /\ Waiting(v, k) /\ user[u].c_slot = user[v].c_slot => u = v

QueuesInv ==
  /\ TypeOK
  /\ \A k \in Clients, c \in CSlots : QueueOK(k, c)
  /\ OwnQueues

\* A larger set has more messages in it.
LEMMA TotalMonotone ==
  ASSUME TypeOK, NEW k \in Clients, NEW c, NEW R, NEW S \in SUBSET R
  PROVE  Total(S, k, c) <= Total(R, k, c)
<1>1. ASSUME NEW T, NEW s \in Seq(T) PROVE Times(S, s) <= Times(R, s)
  <2>1. Places(S, s) \subseteq Places(R, s) /\ IsFiniteSet(Places(R, s))
    BY TimesFinite DEF Places
  <2>2. QED
    BY <2>1, FS_Subset DEF Times
<1>2. /\ Times(S, outgoing[k]) <= Times(R, outgoing[k]) /\ Times(S, toServer[k]) <= Times(R, toServer[k])
      /\ Times(S, work[k]) <= Times(R, work[k]) /\ Times(S, InHand(k)) <= Times(R, InHand(k))
      /\ Times(S, outbox[k]) <= Times(R, outbox[k]) /\ Times(S, toClient[k]) <= Times(R, toClient[k])
      /\ Times(S, Queue(k, c)) <= Times(R, Queue(k, c))
  BY <1>1, ConnectionTypes, InHandTypes, QueueKinds
<1>3. QED
  BY <1>2, Parts DEF Total

\* A message that is somewhere counts.
LEMMA TimesSome ==
  ASSUME NEW T, NEW s \in Seq(T), NEW S, NEW i \in 1 .. Len(s), Letter(s[i]) \in S
  PROVE  Times(S, s) >= 1
<1>1. i \in Places(S, s) /\ IsFiniteSet(Places(S, s))
  BY TimesFinite DEF Places
<1>2. Cardinality(Places(S, s)) # 0 /\ Cardinality(Places(S, s)) \in Nat
  BY <1>1, FS_EmptySet, FS_CardinalityType
<1>3. QED
  BY <1>2 DEF Times

LEMMA CallKinds ==
  ASSUME NEW c
  PROVE  CallsTo(c) \subseteq To(c) /\ OthersTo(c) \subseteq To(c)
  BY DEF CallsTo, OthersTo, To, Addressed, Calls, Requests

LEMMA NamingKinds ==
  ASSUME NEW c, NEW s \in Slots
  PROVE  /\ Naming(c, s) \subseteq OthersTo(c)
         /\ CallsTo(c) \subseteq To(c) /\ OthersTo(c) \subseteq To(c)
         /\ \A t : \A m \in Naming(c, s) : m \in Naming(c, t) => s = t
<1>1. {Sub(s), RpcReqRslt(s)} \cup [kind : {"RpcRslt"}, slot : {s}, n : Nat, asked : BOOLEAN]
        \subseteq (Requests \cup Replies) \ Calls
  BY DEF Requests, Replies, Calls, Sub, RpcReqRslt, RpcReq
<1>2. Calls \subseteq Requests
  BY DEF Requests, Calls
<1>3. QED
  BY <1>1, <1>2 DEF Naming, OthersTo, CallsTo, To, Addressed, Sub, RpcReqRslt

\* A step that says nothing new about c: what comes to it, or is mapped to it, is
\* about what c is about; no call comes, and nothing else beside a call; and who
\* subscribes with it did so before.
Mild(k, c, old, new) ==
  /\ Flows(k, old, new)
  /\ \A s \in Slots : MapsTo(k, s, c)' \/ new \in Naming(c, s) => Names(k, c, s)
  /\ new \notin CallsTo(c)
  /\ new \in OthersTo(c) => old \in To(c) \/ Total(CallsTo(c), k, c) = 0
  /\ \A u \in Users : Subscribing(u, k, c)' => user'[u] = user[u]

LEMMA MildKeeps ==
  ASSUME TypeOK, TypeOK', NEW k \in Clients, NEW c \in CSlots, NEW old, NEW new,
         Mild(k, c, old, new), QueueOK(k, c)
  PROVE  QueueOK(k, c)'
<1>1. /\ Total(CallsTo(c), k, c) \in Nat /\ Total(OthersTo(c), k, c) \in Nat
      /\ Total(CallsTo(c), k, c)' \in Nat /\ Total(OthersTo(c), k, c)' \in Nat
      /\ \A s \in Slots : Total(Naming(c, s), k, c) \in Nat /\ Total(Naming(c, s), k, c)' \in Nat
  <2>1. \A S : Total(S, k, c) \in Nat
    BY Parts
  <2>2. ASSUME NEW S PROVE Total(S, k, c)' \in Nat
    BY TotalNext
  <2>3. QED
    BY <2>1, <2>2
<1>2. ASSUME NEW S \in SUBSET To(c)
      PROVE  Total(S, k, c)' + Hit(old, S) <= Total(S, k, c) + Hit(new, S)
  BY DEF Mild, Flows
<1>3. \A s \in Slots : Naming(c, s) \in SUBSET To(c)
  BY NamingKinds
<1>4. ASSUME NEW s \in Slots, Names(k, c, s)' PROVE Names(k, c, s)
  <2>1. CASE MapsTo(k, s, c)'
    BY <2>1 DEF Mild
  <2>2. CASE Total(Naming(c, s), k, c)' >= 1
    <3>1. CASE new \in Naming(c, s)
      BY <3>1 DEF Mild
    <3>2. CASE new \notin Naming(c, s)
      <4>1. Hit(new, Naming(c, s)) = 0 /\ Hit(old, Naming(c, s)) \in {0, 1}
        BY <3>2, OneHit DEF Hit
      <4>2. Total(Naming(c, s), k, c) >= 1
        BY <1>1, <1>2, <1>3, <2>2, <4>1
      <4>3. QED
        BY <4>2 DEF Names
    <3>3. QED
      BY <3>1, <3>2
  <2>3. QED
    BY <1>4, <2>1, <2>2 DEF Names
<1>5. OneName(k, c)'
  BY <1>4 DEF QueueOK, OneName
<1>6. NameSubscribed(k, c)'
  BY <1>4 DEF QueueOK, NameSubscribed, Mild, Subscribing
<1>7. ASSUME Total(CallsTo(c), k, c)' >= 1
      PROVE  /\ Total(CallsTo(c), k, c)' = 1 /\ Total(OthersTo(c), k, c)' = 0
             /\ \A s \in Slots : ~MapsTo(k, s, c)'
             /\ \A u \in Users : ~Subscribing(u, k, c)'
  <2>1. Hit(new, CallsTo(c)) = 0 /\ Hit(old, CallsTo(c)) \in {0, 1}
        /\ CallsTo(c) \in SUBSET To(c) /\ OthersTo(c) \in SUBSET To(c)
    BY OneHit DEF Mild, Hit, OthersTo, CallsTo, Calls, To, Addressed, Requests
  <2>2. Total(CallsTo(c), k, c) >= 1
    BY <1>1, <1>2, <1>7, <2>1
  <2>3. /\ Total(CallsTo(c), k, c) = 1 /\ Total(OthersTo(c), k, c) = 0
        /\ \A s \in Slots : ~MapsTo(k, s, c)
        /\ \A u \in Users : ~Subscribing(u, k, c)
    BY <2>2 DEF QueueOK, CallAlone
  <2>4. Total(CallsTo(c), k, c)' = 1 /\ Hit(old, CallsTo(c)) = 0
    BY <1>1, <1>2, <1>7, <2>1, <2>3
  <2>5. Hit(new, OthersTo(c)) <= Hit(old, OthersTo(c))
    <3>1. new \in OthersTo(c) => old \in OthersTo(c)
      BY <2>3, <2>4 DEF Mild, Hit, OthersTo
    <3>2. QED
      BY <3>1 DEF Hit
  <2>6. Total(OthersTo(c), k, c)' = 0
    <3>1. Total(OthersTo(c), k, c)' + Hit(old, OthersTo(c))
            <= Total(OthersTo(c), k, c) + Hit(new, OthersTo(c))
      BY <1>2, <2>1
    <3>2. Hit(new, OthersTo(c)) \in {0, 1} /\ Hit(old, OthersTo(c)) \in {0, 1}
      BY OneHit
    <3>3. QED
      BY <1>1, <2>3, <2>5, <3>1, <3>2
  <2>7. ASSUME NEW s \in Slots PROVE ~MapsTo(k, s, c)'
    <3>1. Total(Naming(c, s), k, c) <= Total(OthersTo(c), k, c)
      BY NamingKinds, TotalMonotone
    <3>2. ~Names(k, c, s)
      BY <1>1, <2>3, <3>1 DEF Names
    <3>3. QED
      BY <3>2 DEF Mild
  <2>8. \A u \in Users : ~Subscribing(u, k, c)'
    BY <2>3 DEF Mild, Subscribing
  <2>9. QED
    BY <2>4, <2>6, <2>7, <2>8
<1>8. QED
  BY <1>5, <1>6, <1>7 DEF QueueOK, CallAlone

\* Nobody starts to wait.
NoNewWaiters ==
  \A u \in Users : user'[u].pc \in {"calling", "subscribing"} => user'[u] = user[u]

LEMMA WaitersStay ==
  ASSUME NoNewWaiters
  PROVE  /\ \A u \in Users : \A k, c : Subscribing(u, k, c)' => user'[u] = user[u]
         /\ OwnQueues => OwnQueues'
  BY DEF NoNewWaiters, Subscribing, OwnQueues, Waiting

\* The other connections, ...
LEMMA ElsewhereQueues ==
  ASSUME QueuesInv, TypeOK', NEW k \in Clients, Elsewhere(k),
         NEW j \in Clients, j # k, NEW c \in CSlots,
         \A u \in Users : Subscribing(u, j, c)' => user'[u] = user[u]
  PROVE  QueueOK(j, c)'
<1>1. Flows(j, NoMessage, NoMessage)
  BY ElsewhereFlows DEF QueuesInv
<1>2. \A s \in Slots : MapsTo(j, s, c)' => Names(j, c, s)
  BY DEF MapsTo, Names, Elsewhere
<1>3. NoMessage \notin To(c) /\ NoMessage \notin CallsTo(c) /\ \A s : NoMessage \notin Naming(c, s)
  BY DEF NoMessage, To, CallsTo, Naming, Addressed
<1>4. Mild(j, c, NoMessage, NoMessage)
  BY <1>1, <1>2, <1>3 DEF Mild, OthersTo
<1>5. QED
  BY <1>4, MildKeeps DEF QueuesInv

\* ... and all of them.
LEMMA MildQueues ==
  ASSUME QueuesInv, TypeOK', NEW k \in Clients, Elsewhere(k), NEW old, NEW new,
         \A c \in CSlots : Mild(k, c, old, new), NoNewWaiters
  PROVE  QueuesInv'
<1>1. \A c \in CSlots : QueueOK(k, c)'
  BY MildKeeps DEF QueuesInv
<1>2. \A j \in Clients \ {k}, c \in CSlots : QueueOK(j, c)'
  BY ElsewhereQueues, WaitersStay
<1>3. QED
  BY <1>1, <1>2, WaitersStay DEF QueuesInv

LEMMA NotAMessage ==
  ASSUME NEW c
  PROVE  NoMessage \notin To(c) /\ NoMessage \notin CallsTo(c) /\ \A s : NoMessage \notin Naming(c, s)
  BY DEF NoMessage, To, CallsTo, Naming, Addressed

\* Messages only move, and nothing is mapped anew.
LEMMA MovesQueues ==
  ASSUME QueuesInv, TypeOK', NEW k \in Clients, Elsewhere(k), Flows(k, NoMessage, NoMessage),
         \A s \in Slots, c \in CSlots : MapsTo(k, s, c)' => MapsTo(k, s, c), NoNewWaiters
  PROVE  QueuesInv'
<1>1. \A c \in CSlots : Mild(k, c, NoMessage, NoMessage)
  BY NotAMessage, WaitersStay DEF Mild, Names, OthersTo
<1>2. QED
  BY <1>1, MildQueues

\* A request stays with its task while a slot is assigned, or the task panics.
LEMMA HeldFlows ==
  ASSUME TypeOK, TypeOK', NEW k \in Clients, NEW i \in 1 .. Len(work[k]),
         AssignSlot(k, i) \/ OutOfSlots(k, i), ServerSide
  PROVE  Flows(k, NoMessage, NoMessage)
<1> DEFINE m == WireMessage(work[k][i].c_slot, work[k][i].inner)
<1>1. work[k][i].inner \in {RpcReq(b) : b \in BOOLEAN}
  BY TaskTypes, RequestKinds DEF AssignSlot, OutOfSlots, Handles
<1>2. PICK step \in {"executing", "panicked"} : Proceed(k, i, step, work[k][i].inner)
  BY DEF AssignSlot, OutOfSlots
<1>3. Flows(k, m, m)
  BY <1>1, <1>2, ProceedFlows DEF AssignSlot, OutOfSlots
<1> HIDE DEF m
<1>4. ASSUME NEW c \in CSlots, NEW S \in SUBSET To(c)
      PROVE  /\ Total(S, k, c)' + 0 <= Total(S, k, c) + 0
             /\ link'[k] = "up" => Total(S, k, c)' + 0 = Total(S, k, c) + 0
  <2>1. Hit(m, S) \in {0, 1} /\ Total(S, k, c) \in Nat /\ Total(S, k, c)' \in Nat
    BY OneHit, Parts, TotalNext
  <2>2. /\ Total(S, k, c)' + Hit(m, S) <= Total(S, k, c) + Hit(m, S)
        /\ link'[k] = "up" => Total(S, k, c)' + Hit(m, S) = Total(S, k, c) + Hit(m, S)
    BY <1>3 DEF Flows
  <2>3. QED
    BY <2>1, <2>2
<1>5. QED
  BY <1>4, NoHit DEF Flows

\* The maps stay, and users do.
LEMMA SameMaps ==
  /\ \A k \in Clients : slot_map'[k] = slot_map[k] /\ subscribed'[k] = subscribed[k]
       => \A s, c : MapsTo(k, s, c)' => MapsTo(k, s, c)
  /\ user' = user => NoNewWaiters
  BY DEF MapsTo, NoNewWaiters

LEMMA ServerMovesQueues ==
  ASSUME QueuesInv, TypeOK', NEW k \in Clients, ServerSide,
         \/ ReadRequest(k) \/ RelayLag(k) \/ RelaySend(k) \/ Flush(k)
         \/ \E i \in 1 .. Len(work[k]) : Reply(k, i) \/ AssignSlot(k, i) \/ OutOfSlots(k, i)
  PROVE  QueuesInv'
<1>1. Elsewhere(k)
  BY ServerElsewhere DEF ConnectionStep, RelayStep, WorkStep, OwnStep, ExecutorStep, QueuesInv
<1>2. slot_map' = slot_map /\ subscribed' = subscribed /\ user' = user
  BY DEF ReadRequest, RelayLag, RelaySend, Flush, Reply, AssignSlot, OutOfSlots, ServerSide, clientVars
<1>3. RelayLag(k) => Flows(k, NoMessage, NoMessage)
  <2> SUFFICES ASSUME RelayLag(k) PROVE Flows(k, NoMessage, NoMessage)
    OBVIOUS
  <2>1. InHand(k)' = InHand(k)
    BY DEF RelayLag, InHand, QueuesInv, TypeOK
  <2>2. QED
    BY <2>1, StillFlows DEF RelayLag, ServerSide, clientVars, wireVars, QueuesInv
<1>4. Flows(k, NoMessage, NoMessage)
  BY <1>3, ReadRequestFlows, RelaySendFlows, FlushFlows, ReplyFlows, HeldFlows DEF QueuesInv
<1>5. QED
  BY <1>1, <1>2, <1>4, SameMaps, MovesQueues

LEMMA WireMovesQueues ==
  ASSUME QueuesInv, TypeOK', NEW k \in Clients,
         \/ Connect(k)
         \/ Disconnect(k) /\ UNCHANGED <<tasksVars, connectionVars, clientVars>>
         \/ Deliver(k) /\ ClientSide
         \/ Write(k) /\ ClientSide
         \/ (\E c \in CSlots : DropCSlot(k, c)) /\ ClientSide
  PROVE  QueuesInv'
<1>1. Elsewhere(k)
  BY WireElsewhere DEF QueuesInv
<1>2. user' = user /\ NoNewWaiters
  BY SameMaps DEF Connect, Open, Disconnect, Deliver, Write, DropCSlot, clientVars
<1>3. CASE Connect(k)
  <2>1. InHand(k)' = InHand(k)
    BY <1>3 DEF Connect, AcceptConnection, InHand, QueuesInv, TypeOK
  <2>2. Flows(k, NoMessage, NoMessage)
    BY <1>3, <2>1, StillFlows DEF Connect, Open, AcceptConnection, clientVars, QueuesInv
  <2>3. slot_map' = slot_map /\ subscribed' = subscribed
    BY <1>3 DEF Connect, Open, AcceptConnection, clientVars
  <2>4. QED
    BY <1>1, <1>2, <2>2, <2>3, SameMaps, MovesQueues
<1>4. CASE \/ Disconnect(k) /\ UNCHANGED <<tasksVars, connectionVars, clientVars>>
           \/ Deliver(k) /\ ClientSide
           \/ Write(k) /\ ClientSide
  <2>1. Flows(k, NoMessage, NoMessage)
    BY <1>4, DisconnectFlows, DeliverFlows, WriteFlows DEF QueuesInv
  <2>2. slot_map' = slot_map /\ subscribed' = subscribed
    BY <1>4 DEF Deliver, Write, ClientSide, connectionVars, clientVars
  <2>3. QED
    BY <1>1, <1>2, <2>1, <2>2, SameMaps, MovesQueues
<1>5. CASE (\E c \in CSlots : DropCSlot(k, c)) /\ ClientSide
  <2>1. InHand(k)' = InHand(k)
    BY <1>5 DEF ClientSide, connectionVars, InHand
  <2>2. Flows(k, NoMessage, NoMessage)
    BY <1>5, <2>1, StillFlows DEF DropCSlot, ClientSide, connectionVars, wireVars, QueuesInv
  <2>3. PICK c \in CSlots : slot_map'[k] = [s \in DOMAIN slot_map[k] \ {c} |-> slot_map[k][s]]
    BY <1>5 DEF DropCSlot, QueuesInv, TypeOK
  <2>4. \A s \in Slots, d \in CSlots : MapsTo(k, s, d)' => MapsTo(k, s, d)
    BY <1>5, <2>3 DEF MapsTo, ClientSide, connectionVars
  <2>5. QED
    BY <1>1, <1>2, <2>2, <2>4, MovesQueues
<1>6. QED
  BY <1>3, <1>4, <1>5

LEMMA CloseAbortQueues ==
  ASSUME QueuesInv, TypeOK', NEW u \in Users, CloseAbort(u), ClientSide
  PROVE  QueuesInv'
<1>1. PICK k \in Clients : k = user[u].client
  BY EngagedTypes DEF CloseAbort, QueuesInv
<1>2. Elsewhere(k)
  BY <1>1, UserElsewhere DEF UserStep, QueuesInv
<1>3. Flows(k, NoMessage, NoMessage)
  BY <1>1, CloseAbortFlows DEF QueuesInv
<1>4. slot_map' = slot_map /\ subscribed' = subscribed
  BY DEF CloseAbort, ClientSide, connectionVars
<1>5. NoNewWaiters
  BY DEF CloseAbort, End, Resting, NoNewWaiters, QueuesInv, TypeOK
<1>6. QED
  BY <1>2, <1>3, <1>4, <1>5, SameMaps, MovesQueues

\* Only users, tasks or nobody went on.
LEMMA QuietQueues ==
  ASSUME QueuesInv, TypeOK', UNCHANGED <<wireVars, connectionVars, othersVars>>, NoNewWaiters
  PROVE  QueuesInv'
<1>1. ASSUME NEW k \in Clients PROVE Elsewhere(k) /\ Flows(k, NoMessage, NoMessage)
                                     /\ \A s, c : MapsTo(k, s, c)' => MapsTo(k, s, c)
  <2>1. InHand(k)' = InHand(k)
    BY DEF InHand, connectionVars
  <2>2. QED
    BY <2>1, StillFlows DEF Elsewhere, MapsTo, wireVars, connectionVars, othersVars, QueuesInv
<1>2. ASSUME NEW k \in Clients PROVE QueuesInv'
  BY <1>1, <1>2, MovesQueues
<1>3. CASE Clients = {}
  BY <1>3 DEF QueuesInv, OwnQueues
<1>4. QED
  BY <1>2, <1>3

----------------------------------------------------------------------------
(* Tasks.                                                                  *)

LEMMA HeldCounts ==
  ASSUME TypeOK, NEW k \in Clients, NEW i \in 1 .. Len(work[k]), NEW c, NEW S,
         WireMessage(work[k][i].c_slot, work[k][i].inner) \in S
  PROVE  Total(S, k, c) >= 1
<1>1. Times(S, work[k]) >= 1
  BY ConnectionTypes, TimesSome DEF Letter
<1>2. QED
  BY <1>1, Parts DEF Total

\* A task goes on with what its message was about.
LEMMA TaskQueues ==
  ASSUME QueuesInv, TypeOK', NEW k \in Clients, NEW i \in 1 .. Len(work[k]), WorkStep(k, i), ServerSide,
         NEW step, NEW message,
         \/ step = "subscribe" /\ message \in {RpcReqRslt(s) : s \in Slots}
         \/ step = "reply" /\ message \in Replies,
         Proceed(k, i, step, message), UNCHANGED <<wireVars, relay, outbox>>,
         \A s \in Slots : WireMessage(work[k][i].c_slot, message) \in Naming(work[k][i].c_slot, s)
                            => Names(k, work[k][i].c_slot, s),
         \A s \in Slots, d \in CSlots : MapsTo(k, s, d)' => Names(k, d, s)
  PROVE  QueuesInv'
<1> DEFINE c   == work[k][i].c_slot
           old == WireMessage(c, work[k][i].inner)
           new == WireMessage(c, message)
<1>1. Elsewhere(k)
  BY ServerElsewhere DEF ConnectionStep, QueuesInv
<1>2. Flows(k, old, new)
  BY ProceedFlows DEF QueuesInv
<1>3. NoNewWaiters
  BY SameMaps DEF ServerSide, clientVars
<1>4. message \in Replies
  BY MadeReplies
<1>5. \A d : new \notin CallsTo(d)
  BY <1>4 DEF Replies, CallsTo, Calls, Addressed, WireMessage, RpcReq, Error, SubOpFin, RpcReqRslt
<1>6. ASSUME NEW d \in CSlots PROVE Mild(k, d, old, new)
  <2>1. CASE d = c
    <3>1. old \in To(d)
      BY <2>1, TaskTypes DEF To, Addressed, WireMessage, QueuesInv
    <3>2. \A s \in Slots : MapsTo(k, s, d)' \/ new \in Naming(d, s) => Names(k, d, s)
      BY <2>1
    <3> HIDE DEF old, new
    <3>3. QED
      BY <1>2, <1>3, <1>5, <3>1, <3>2, WaitersStay DEF Mild
  <2>2. CASE d # c
    <3>1. new \notin To(d) /\ \A s : new \notin Naming(d, s)
      BY <2>2 DEF To, Naming, Addressed, WireMessage
    <3> HIDE DEF old, new
    <3>2. QED
      BY <1>2, <1>3, <1>5, <3>1, WaitersStay DEF Mild, OthersTo
  <2>3. QED
    BY <2>1, <2>2
<1> HIDE DEF old, new
<1>7. QED
  BY <1>1, <1>3, <1>6, MildQueues

LEMMA RefuseQueues ==
  ASSUME QueuesInv, TypeOK', NEW k \in Clients, NEW i \in 1 .. Len(work[k]),
         Refuse(k, i) \/ NoHandler(k, i), ServerSide
  PROVE  QueuesInv'
<1>1. \A c, s : WireMessage(c, Error) \notin Naming(c, s)
  BY DEF Naming, Addressed, WireMessage, Error, Sub, RpcReqRslt
<1>2. \A s, d : MapsTo(k, s, d)' => Names(k, d, s)
  BY DEF Refuse, NoHandler, ServerSide, clientVars, MapsTo, Names
<1>3. QED
  BY <1>1, <1>2, TaskQueues, MadeReplies DEF Refuse, NoHandler, WorkStep, OwnStep, ExecutorStep

LEMMA HandleUnsubQueues ==
  ASSUME QueuesInv, TypeOK', NEW k \in Clients, NEW i \in 1 .. Len(work[k]), HandleUnsub(k, i), ServerSide
  PROVE  QueuesInv'
<1>1. \A c, s : WireMessage(c, SubOpFin) \notin Naming(c, s)
  BY DEF Naming, Addressed, WireMessage, SubOpFin, Sub, RpcReqRslt
<1>2. subscribed'[k] = [s \in DOMAIN subscribed[k] \ (work[k][i].inner.slots \cap DOMAIN subscribed[k])
                          |-> subscribed[k][s]]
  BY DEF HandleUnsub, QueuesInv, TypeOK
<1>3. \A s, d : MapsTo(k, s, d)' => Names(k, d, s)
  BY <1>2 DEF ServerSide, clientVars, MapsTo, Names
<1>4. QED
  BY <1>1, <1>3, TaskQueues, MadeReplies DEF HandleUnsub, WorkStep, OwnStep, ExecutorStep

\* The task that subscribes holds a message about the slot.
LEMMA HandleSubQueues ==
  ASSUME QueuesInv, TypeOK', NEW k \in Clients, NEW i \in 1 .. Len(work[k]), HandleSub(k, i), ServerSide
  PROVE  QueuesInv'
<1> DEFINE w   == work[k][i]
           new == {w.inner.slot} \ DOMAIN subscribed[k]
<1>1. \A c, s : WireMessage(c, SubOpFin) \notin Naming(c, s)
  BY DEF Naming, Addressed, WireMessage, SubOpFin, Sub, RpcReqRslt
<1>2. w.inner = Sub(w.inner.slot)
  BY TaskTypes, RequestShapes DEF HandleSub, Handles, QueuesInv
<1>3. Names(k, w.c_slot, w.inner.slot)
  <2>1. WireMessage(w.c_slot, w.inner) \in Naming(w.c_slot, w.inner.slot)
    BY <1>2 DEF WireMessage, Naming, Addressed
  <2>2. QED
    BY <2>1, HeldCounts DEF Names, QueuesInv
<1>4. subscribed'[k] = [s \in DOMAIN subscribed[k] \cup new |->
                          IF s \in new THEN w.c_slot ELSE subscribed[k][s]]
  BY DEF HandleSub, QueuesInv, TypeOK
<1>5. \A s, d : MapsTo(k, s, d)' => Names(k, d, s)
  BY <1>3, <1>4 DEF ServerSide, clientVars, MapsTo, Names
<1>6. QED
  BY <1>1, <1>5, TaskQueues, MadeReplies DEF HandleSub, WorkStep, OwnStep, ExecutorStep

LEMMA SubscribeCallerQueues ==
  ASSUME QueuesInv, TypeOK', NEW k \in Clients, NEW i \in 1 .. Len(work[k]),
         SubscribeCaller(k, i), ServerSide
  PROVE  QueuesInv'
<1> DEFINE w == work[k][i]
<1>1. w.inner \in Replies /\ w.inner \in {RpcReqRslt(s) : s \in Slots} /\ w.c_slot \in CSlots
  BY TaskTypes, QueueTypes DEF SubscribeCaller, WorkState, QueuesInv
<1>2. w.inner = RpcReqRslt(w.inner.slot) /\ w.inner.slot \in Slots
  BY <1>1 DEF RpcReqRslt
<1>3. ASSUME NEW s \in Slots, WireMessage(w.c_slot, w.inner) \in Naming(w.c_slot, s)
      PROVE  Names(k, w.c_slot, s)
  BY <1>3, HeldCounts DEF Names, QueuesInv
<1>4. Names(k, w.c_slot, w.inner.slot)
  <2>1. WireMessage(w.c_slot, w.inner) \in Naming(w.c_slot, w.inner.slot)
    BY <1>2 DEF WireMessage, Naming, Addressed
  <2>2. QED
    BY <1>2, <1>3, <2>1
<1>5. subscribed'[k] = [s \in DOMAIN subscribed[k] \cup {w.inner.slot} |->
                          IF s = w.inner.slot THEN w.c_slot ELSE subscribed[k][s]]
  BY DEF SubscribeCaller, QueuesInv, TypeOK
<1>6. \A s, d : MapsTo(k, s, d)' => Names(k, d, s)
  BY <1>4, <1>5 DEF ServerSide, clientVars, MapsTo, Names
<1>7. QED
  BY <1>1, <1>3, <1>6, TaskQueues DEF SubscribeCaller, WorkStep, OwnStep, ExecutorStep

\* What a refresh asks for is what is told.
LEMMA HandleRpcReqResultQueues ==
  ASSUME QueuesInv, TypeOK', NEW k \in Clients, NEW i \in 1 .. Len(work[k]),
         HandleRpcReqResult(k, i), ServerSide
  PROVE  QueuesInv'
<1> DEFINE w     == work[k][i]
           s     == w.inner.slot
           reply == IF phase[s] = "free" THEN Error ELSE RpcRslt(s, recorded[s], TRUE)
<1>1. s \in Slots /\ w.inner = RpcReqRslt(s)
  BY TaskTypes, RequestShapes DEF HandleRpcReqResult, Handles, QueuesInv
<1>2. reply \in Replies
  BY <1>1, MadeReplies DEF QueuesInv, TypeOK
<1>3. Names(k, w.c_slot, s)
  <2>1. WireMessage(w.c_slot, w.inner) \in Naming(w.c_slot, s)
    BY <1>1 DEF WireMessage, Naming, Addressed
  <2>2. QED
    BY <2>1, HeldCounts DEF Names, QueuesInv
<1>4. \A t : WireMessage(w.c_slot, reply) \in Naming(w.c_slot, t) => t = s
  BY DEF WireMessage, Naming, Addressed, Error, RpcRslt, Sub, RpcReqRslt
<1>5. \A t, d : MapsTo(k, t, d)' => Names(k, d, t)
  BY DEF HandleRpcReqResult, ServerSide, clientVars, MapsTo, Names
<1>6. Proceed(k, i, "reply", reply)
  BY DEF HandleRpcReqResult
<1> HIDE DEF reply
<1>7. QED
  BY <1>2, <1>3, <1>4, <1>5, <1>6, TaskQueues DEF HandleRpcReqResult, WorkStep, OwnStep, ExecutorStep

\* A call that has been accepted is about the slot it got, as nothing else was
\* about, or came to, its queue.
LEMMA ExecuteQueues ==
  ASSUME QueuesInv, TypeOK', NEW k \in Clients, NEW i \in 1 .. Len(work[k]), NEW s \in Slots,
         Execute(k, i, s), ServerSide
  PROVE  QueuesInv'
<1>0. PICK c \in CSlots : c = work[k][i].c_slot
  BY TaskTypes, QueueTypes DEF QueuesInv
<1> DEFINE step == IF work[k][i].inner.subscribe THEN "subscribe" ELSE "reply"
           old  == WireMessage(c, work[k][i].inner)
           new  == WireMessage(c, RpcReqRslt(s))
<1>1. Elsewhere(k) /\ NoNewWaiters
  BY ServerElsewhere, SameMaps DEF ConnectionStep, WorkStep, OwnStep, ExecutorStep, ServerSide, clientVars, QueuesInv
<1>2. old \in CallsTo(c)
  <2>1. work[k][i].inner \in {RpcReq(b) : b \in BOOLEAN}
    BY TaskTypes DEF Execute, QueuesInv
  <2>2. work[k][i].inner \in Calls
    BY <2>1 DEF Calls
  <2>3. QED
    BY <2>1, <2>2 DEF CallsTo, Addressed, WireMessage
<1>3. Flows(k, old, new)
  <2>1. Proceed(k, i, step, RpcReqRslt(s)) /\ RpcReqRslt(s) \in Replies
    BY MadeReplies DEF Execute
  <2>2. QED
    BY <1>0, <2>1, ProceedFlows DEF Execute, QueuesInv
<1>4. \A t \in Slots, d \in CSlots : MapsTo(k, t, d)' => MapsTo(k, t, d)
  BY DEF Execute, ServerSide, clientVars, MapsTo
<1>5. ASSUME NEW d \in CSlots, d # c PROVE QueueOK(k, d)'
  <2>1. new \notin To(d) /\ new \notin CallsTo(d) /\ \A t : new \notin Naming(d, t)
    BY <1>5 DEF To, CallsTo, Naming, Addressed, WireMessage
  <2> HIDE DEF old, new
  <2>2. Mild(k, d, old, new)
    BY <1>1, <1>3, <1>4, <2>1, WaitersStay DEF Mild, Names, OthersTo
  <2>3. QED
    BY <2>2, MildKeeps DEF QueuesInv
<1>6. QueueOK(k, c)'
  <2>1. Total(CallsTo(c), k, c) >= 1
    BY <1>0, <1>2, HeldCounts DEF QueuesInv
  <2>2. /\ Total(CallsTo(c), k, c) = 1 /\ Total(OthersTo(c), k, c) = 0
        /\ \A t \in Slots : ~MapsTo(k, t, c)
        /\ \A u \in Users : ~Subscribing(u, k, c)
    BY <1>2, <2>1 DEF QueuesInv, QueueOK, CallAlone
  <2>3. new \notin CallsTo(c)
    BY DEF CallsTo, Calls, Addressed, WireMessage, RpcReq, RpcReqRslt
  <2> HIDE DEF old, new
  <2>4. Total(CallsTo(c), k, c)' < 1
    <3>1. Total(CallsTo(c), k, c)' + Hit(old, CallsTo(c))
            <= Total(CallsTo(c), k, c) + Hit(new, CallsTo(c))
      BY <1>2, <1>3, NamingKinds DEF Flows
    <3>2. Total(CallsTo(c), k, c)' \in Nat
      BY TotalNext
    <3>3. QED
      BY <1>2, <2>2, <2>3, <3>1, <3>2 DEF Hit
  <2>5. ASSUME NEW t \in Slots, Names(k, c, t)' PROVE t = s
    <3>1. Total(Naming(c, t), k, c)' >= 1
      BY <1>2, <1>4, <2>2, <2>5 DEF Names
    <3>2. Total(Naming(c, t), k, c)' + Hit(old, Naming(c, t))
            <= Total(Naming(c, t), k, c) + Hit(new, Naming(c, t))
      BY <1>2, <1>3, NamingKinds DEF Flows
    <3>3. Total(Naming(c, t), k, c) = 0
      <4>1. Total(Naming(c, t), k, c) <= Total(OthersTo(c), k, c) /\ Total(Naming(c, t), k, c) \in Nat
        BY NamingKinds, TotalMonotone, Parts DEF QueuesInv
      <4>2. QED
        BY <2>2, <4>1
    <3>4. Total(Naming(c, t), k, c)' \in Nat /\ Hit(old, Naming(c, t)) \in {0, 1}
      BY TotalNext, OneHit
    <3>5. new \in Naming(c, t)
      BY <3>1, <3>2, <3>3, <3>4 DEF Hit
    <3>6. QED
      BY <3>5 DEF new, Naming, Addressed, WireMessage, RpcReqRslt, Sub
  <2>6. \A u \in Users : ~Subscribing(u, k, c)'
    BY <1>1, <2>2 DEF NoNewWaiters, Subscribing
  <2>7. QED
    BY <2>4, <2>5, <2>6, TotalNext DEF QueueOK, CallAlone, OneName, NameSubscribed
<1>7. \A j \in Clients \ {k}, d \in CSlots : QueueOK(j, d)'
  BY <1>1, ElsewhereQueues, WaitersStay
<1>8. QED
  BY <1>1, <1>5, <1>6, <1>7, WaitersStay DEF QueuesInv

\* The relay sends reports to the queue that the server maps the slot to.
LEMMA RelayReceiveQueues ==
  ASSUME QueuesInv, TypeOK', NEW k \in Clients, RelayReceive(k), ServerSide
  PROVE  QueuesInv'
<1> DEFINE m   == log[relay[k].next + 1]
           c   == subscribed[k][m.slot]
           out == WireMessage(c, RpcRslt(m.slot, m.n, FALSE))
<1>1. Elsewhere(k) /\ NoNewWaiters
  BY ServerElsewhere, SameMaps DEF ConnectionStep, RelayStep, ServerSide, clientVars, QueuesInv
<1>2. \A t \in Slots, d \in CSlots : MapsTo(k, t, d)' => MapsTo(k, t, d)
  BY DEF RelayReceive, ServerSide, clientVars, MapsTo
<1>3. CASE m.slot \notin DOMAIN subscribed[k]
  BY <1>1, <1>2, <1>3, RelayReceiveFlows, MovesQueues DEF QueuesInv
<1>4. CASE m.slot \in DOMAIN subscribed[k]
  <2>1. Flows(k, NoMessage, out) /\ m \in Message
    BY <1>4, RelayReceiveFlows DEF QueuesInv
  <2>2. MapsTo(k, m.slot, c) /\ m.slot \in Slots
    BY <1>4, <2>1 DEF MapsTo, Message
  <2>3. \A d : out \notin CallsTo(d)
    BY DEF CallsTo, Calls, Addressed, WireMessage, RpcReq, RpcRslt
  <2>4. \A d, t : out \in Naming(d, t) => d = c /\ t = m.slot
    BY DEF Naming, Addressed, WireMessage, RpcRslt, Sub, RpcReqRslt
  <2>5. \A d : out \in To(d) => d = c
    BY DEF To, Addressed, WireMessage
  <2> HIDE DEF out, c
  <2>6. ASSUME NEW d \in CSlots PROVE Mild(k, d, NoMessage, out)
    <3>1. \A t \in Slots : MapsTo(k, t, d)' \/ out \in Naming(d, t) => Names(k, d, t)
      BY <1>2, <2>2, <2>4 DEF Names
    <3>2. out \in OthersTo(d) => Total(CallsTo(d), k, d) = 0
      <4> SUFFICES ASSUME out \in OthersTo(d) PROVE Total(CallsTo(d), k, d) = 0
        OBVIOUS
      <4>1. d = c
        BY <2>5 DEF OthersTo
      <4>2. ~(Total(CallsTo(d), k, d) >= 1)
        BY <2>2, <4>1 DEF QueuesInv, QueueOK, CallAlone
      <4>3. QED
        BY <4>2, Parts DEF QueuesInv
    <3>3. QED
      BY <1>1, <2>1, <2>3, <3>1, <3>2, WaitersStay DEF Mild
  <2>7. QED
    BY <1>1, <2>6, MildQueues
<1>5. QED
  BY <1>3, <1>4

----------------------------------------------------------------------------
(* Users.                                                                  *)

\* What has no queue is not spoken of.
LEMMA FreshQueue ==
  ASSUME TypeOK, NEW k \in Clients, NEW c \in CSlots, c \notin DOMAIN inbox[k]
  PROVE  /\ \A S \in SUBSET To(c) : Total(S, k, c) = 0
         /\ \A s \in Slots : ~MapsTo(k, s, c) /\ ~Names(k, c, s)
         /\ \A u \in Users : user[u].pc \in {"calling", "subscribing", "receiving"}
                               /\ user[u].client = k => user[u].c_slot # c
<1>1. ASSUME NEW S \in SUBSET To(c) PROVE Total(S, k, c) = 0
  <2>1. ASSUME NEW T, NEW s \in Seq(T), \A x \in T : x.c_slot \in DOMAIN inbox[k]
        PROVE  Times(S, s) = 0
    <3>1. \A i \in 1 .. Len(s) : s[i].c_slot # c
      BY <2>1, ElementOfSeq
    <3>2. Places(S, s) = {}
      BY <3>1 DEF Places, Letter, To, Addressed, WireMessage
    <3>3. QED
      BY <3>2, FS_EmptySet DEF Times
  <2>2. /\ \A messages : \A x \in Addressed(DOMAIN inbox[k], messages) : x.c_slot \in DOMAIN inbox[k]
        /\ \A x \in WorkState(DOMAIN inbox[k]) : x.c_slot \in DOMAIN inbox[k]
    BY DEF Addressed, WorkState
  <2>3. /\ Times(S, outgoing[k]) = 0 /\ Times(S, toServer[k]) = 0 /\ Times(S, work[k]) = 0
        /\ Times(S, InHand(k)) = 0 /\ Times(S, outbox[k]) = 0 /\ Times(S, toClient[k]) = 0
    BY <2>1, <2>2, ConnectionTypes, InHandTypes
  <2>4. Times(S, Queue(k, c)) = 0
    BY TimesOne DEF Queue
  <2>5. QED
    BY <2>3, <2>4 DEF Total
<1>2. \A s \in Slots : ~MapsTo(k, s, c)
  BY DEF MapsTo, TypeOK, ConnectionTypeOK, PartialFunction
<1>3. \A s \in Slots : ~Names(k, c, s)
  <2> SUFFICES ASSUME NEW s \in Slots PROVE ~Names(k, c, s)
    OBVIOUS
  <2>1. Naming(c, s) \in SUBSET To(c)
    BY NamingKinds
  <2>2. Total(Naming(c, s), k, c) = 0
    BY <1>1, <2>1
  <2>3. ~(Total(Naming(c, s), k, c) >= 1)
    BY <2>2
  <2>4. QED
    BY <1>2, <2>3 DEF Names
<1>4. \A u \in Users : user[u].pc \in {"calling", "subscribing", "receiving"}
                         /\ user[u].client = k => user[u].c_slot # c
  BY DEF TypeOK, UserTypeOK
<1>5. QED
  BY <1>1, <1>2, <1>3, <1>4

\* A user starts to wait at a new queue, where its request is all there is.
LEMMA NewWaiterQueues ==
  ASSUME QueuesInv, TypeOK', NEW u \in Users, NEW k \in Clients, NEW c \in CSlots, NEW message,
         NEW pc, NEW s, Elsewhere(k), ClientSide,
         Allocate(k, c), Send(k, c, message), Begin(u, pc, k, c, s),
         UNCHANGED <<wireVars, slot_map, drops>>,
         \/ pc = "calling" /\ message \in Calls
         \/ pc = "subscribing" /\ message = Sub(s) /\ s \in Slots
  PROVE  QueuesInv'
<1> DEFINE new == WireMessage(c, message)
<1>1. Flows(k, NoMessage, new)
  BY SendFlows DEF QueuesInv
<1>2. \A t \in Slots, d \in CSlots : MapsTo(k, t, d)' => MapsTo(k, t, d)
  BY DEF ClientSide, connectionVars, MapsTo
<1>3. /\ user'[u] = [pc |-> pc, client |-> k, c_slot |-> c, slot |-> s]
      /\ \A v \in Users \ {u} : user'[v] = user[v]
  BY DEF Begin, QueuesInv, TypeOK
<1>4. c \notin DOMAIN inbox[k]
  BY DEF Allocate
<1>5. /\ \A S \in SUBSET To(c) : Total(S, k, c) = 0
      /\ \A t \in Slots : ~MapsTo(k, t, c)
      /\ \A v \in Users : user[v].pc \in {"calling", "subscribing", "receiving"}
                            /\ user[v].client = k => user[v].c_slot # c
  BY <1>4, FreshQueue DEF QueuesInv
<1>6. \A v \in Users, j \in Clients, d \in CSlots :
        Subscribing(v, j, d)' /\ ~(j = k /\ d = c) => user'[v] = user[v]
  BY <1>3 DEF Subscribing
<1>7. ASSUME NEW d \in CSlots, d # c PROVE QueueOK(k, d)'
  <2>1. new \notin To(d) /\ new \notin CallsTo(d) /\ \A t : new \notin Naming(d, t)
    BY <1>7 DEF To, CallsTo, Naming, Addressed, WireMessage
  <2> HIDE DEF new
  <2>2. Mild(k, d, NoMessage, new)
    BY <1>1, <1>2, <1>6, <1>7, <2>1 DEF Mild, Names, OthersTo
  <2>3. QED
    BY <2>2, MildKeeps DEF QueuesInv
<1>8. \A j \in Clients \ {k}, d \in CSlots : QueueOK(j, d)'
  BY <1>6, ElsewhereQueues
<1>9. ASSUME NEW S \in SUBSET To(c)
      PROVE  Total(S, k, c)' = Hit(new, S) /\ (Total(S, k, c)' >= 1 => new \in S)
  <2> HIDE DEF new
  <2>1. Total(S, k, c)' \in Nat /\ Total(S, k, c) = 0 /\ Hit(NoMessage, S) = 0
        /\ Hit(new, S) \in {0, 1}
    BY <1>5, NoHit, OneHit, TotalNext
  <2>2. Total(S, k, c)' + Hit(NoMessage, S) <= Total(S, k, c) + Hit(new, S)
    BY <1>1 DEF Flows
  <2>3. Total(S, k, c)' >= Hit(new, S)
    <3>1. CASE new \in S
      <4>1. /\ outgoing'[k] = <<new>> /\ Letter(new) = new
        BY DEF Send, QueuesInv, TypeOK, new, Letter, WireMessage
      <4>2. Times(S, outgoing[k])' = 1
        BY <3>1, <4>1, TimesOne
      <4>3. Total(S, k, c)' >= Times(S, outgoing[k])'
        BY TotalNext
      <4>4. QED
        BY <3>1, <4>2, <4>3 DEF Hit
    <3>2. CASE new \notin S
      BY <2>1, <3>2 DEF Hit
    <3>3. QED
      BY <3>1, <3>2
  <2>4. Total(S, k, c)' = Hit(new, S)
    BY <2>1, <2>2, <2>3
  <2>5. QED
    BY <2>4 DEF Hit
<1>10. ASSUME NEW t \in Slots, Names(k, c, t)' PROVE pc = "subscribing" /\ t = s
  <2>1. new \in Naming(c, t)
    BY <1>2, <1>5, <1>9, <1>10, NamingKinds DEF Names
  <2>2. QED
    BY <2>1 DEF Naming, Addressed, WireMessage, Calls, RpcReq, Sub, RpcReqRslt
<1>11. ASSUME Total(CallsTo(c), k, c)' >= 1
       PROVE  /\ Total(CallsTo(c), k, c)' = 1 /\ Total(OthersTo(c), k, c)' = 0 /\ pc = "calling"
  <2>1. new \in CallsTo(c) /\ new \notin OthersTo(c)
    BY <1>9, <1>11, CallKinds DEF OthersTo
  <2>2. pc = "calling"
    BY <2>1 DEF CallsTo, Calls, Addressed, WireMessage, RpcReq, Sub
  <2> HIDE DEF new
  <2>3. Hit(new, CallsTo(c)) = 1 /\ Hit(new, OthersTo(c)) = 0
    BY <2>1 DEF Hit
  <2>4. QED
    BY <1>9, <2>2, <2>3, CallKinds
<1>12. \A v \in Users : Subscribing(v, k, c)' => v = u /\ pc = "subscribing"
  BY <1>3, <1>5 DEF Subscribing
<1>13. QueueOK(k, c)'
  <2>1. CallAlone(k, c)'
    BY <1>2, <1>5, <1>11, <1>12 DEF CallAlone
  <2>2. OneName(k, c)' /\ NameSubscribed(k, c)'
    BY <1>3, <1>10, <1>12 DEF OneName, NameSubscribed
  <2>3. QED
    BY <2>1, <2>2 DEF QueueOK
<1>14. OwnQueues'
  <2> SUFFICES ASSUME NEW j \in Clients, NEW v \in Users, NEW w \in Users,
                      Waiting(v, j)', Waiting(w, j)', user'[v].c_slot = user'[w].c_slot
               PROVE  v = w
    BY DEF OwnQueues
  <2>1. CASE v # u /\ w # u
    BY <1>3, <2>1 DEF Waiting, OwnQueues, QueuesInv
  <2>2. CASE v = u \/ w = u
    BY <1>3, <1>5, <2>2 DEF Waiting
  <2>3. QED
    BY <2>1, <2>2
<1>15. QED
  BY <1>7, <1>8, <1>13, <1>14 DEF QueuesInv

LEMMA UserStartsQueues ==
  ASSUME QueuesInv, TypeOK', NEW u \in Users, NEW k \in Clients, ClientSide,
         \/ \E c \in CSlots, subscribe \in BOOLEAN : Call(u, k, c, subscribe)
         \/ \E c \in CSlots, s \in Slots : Subscribe(u, k, c, s)
  PROVE  QueuesInv'
<1>1. Elsewhere(k)
  <2>1. UserStarts(u, k)
    BY DEF UserStarts
  <2>2. QED
    BY <2>1, UserElsewhere DEF QueuesInv
<1>2. ASSUME NEW c \in CSlots, NEW b \in BOOLEAN, Call(u, k, c, b) PROVE QueuesInv'
  <2>1. RpcReq(b) \in Calls
    BY DEF Calls
  <2>2. Allocate(k, c) /\ Send(k, c, RpcReq(b)) /\ Begin(u, "calling", k, c, Nothing)
        /\ UNCHANGED <<wireVars, slot_map, drops>>
    BY <1>2 DEF Call
  <2>3. QED
    BY <1>1, <2>1, <2>2, NewWaiterQueues
<1>3. ASSUME NEW c \in CSlots, NEW s \in Slots, Subscribe(u, k, c, s) PROVE QueuesInv'
  <2>1. Allocate(k, c) /\ Send(k, c, Sub(s)) /\ Begin(u, "subscribing", k, c, s)
        /\ UNCHANGED <<wireVars, slot_map, drops>>
    BY <1>3 DEF Subscribe
  <2>2. QED
    BY <1>1, <2>1, NewWaiterQueues
<1>4. QED
  BY <1>2, <1>3

\* A refresh goes to the queue that the slot is mapped to.
LEMMA RefreshQueues ==
  ASSUME QueuesInv, TypeOK', NEW u \in Users, NEW k \in Clients, NEW s \in Slots,
         Refresh(u, k, s), ClientSide
  PROVE  QueuesInv'
<1>1. PICK c \in CSlots : c = slot_map[k][s] /\ s \in DOMAIN slot_map[k]
  BY MappedTypes, QueueTypes DEF Refresh, QueuesInv
<1> DEFINE new == WireMessage(c, RpcReqRslt(s))
<1>2. Elsewhere(k) /\ NoNewWaiters
  <2>1. UserStarts(u, k)
    BY DEF UserStarts
  <2>2. QED
    BY <2>1, UserElsewhere, SameMaps DEF Refresh, QueuesInv
<1>3. Flows(k, NoMessage, new)
  BY <1>1, SendFlows DEF Refresh, QueuesInv
<1>4. \A t \in Slots, d \in CSlots : MapsTo(k, t, d)' => MapsTo(k, t, d)
  BY DEF Refresh, ClientSide, connectionVars, MapsTo
<1>5. MapsTo(k, s, c)
  BY <1>1 DEF MapsTo
<1>6. /\ \A d : new \notin CallsTo(d)
      /\ \A d, t : new \in Naming(d, t) => d = c /\ t = s
      /\ \A d : new \in To(d) => d = c
  BY DEF To, CallsTo, Calls, Naming, Addressed, WireMessage, RpcReq, RpcReqRslt, Sub
<1> HIDE DEF new
<1>7. ASSUME NEW d \in CSlots PROVE Mild(k, d, NoMessage, new)
  <2>1. new \in OthersTo(d) => Total(CallsTo(d), k, d) = 0
    <3> SUFFICES ASSUME new \in OthersTo(d) PROVE Total(CallsTo(d), k, d) = 0
      OBVIOUS
    <3>1. d = c
      BY <1>6 DEF OthersTo
    <3>2. ~(Total(CallsTo(d), k, d) >= 1)
      BY <1>5, <3>1 DEF QueuesInv, QueueOK, CallAlone
    <3>3. QED
      BY <3>2, Parts DEF QueuesInv
  <2>2. QED
    BY <1>2, <1>3, <1>4, <1>5, <1>6, <2>1, WaitersStay DEF Mild, Names
<1>8. QED
  BY <1>2, <1>7, MildQueues

\* So does the request of close, to a new queue.
LEMMA CloseSendQueues ==
  ASSUME QueuesInv, TypeOK', NEW u \in Users, NEW c \in CSlots, CloseSend(u, c), ClientSide
  PROVE  QueuesInv'
<1>1. PICK k \in Clients : k = user[u].client
  BY EngagedTypes DEF CloseSend, QueuesInv
<1>2. Elsewhere(k)
  BY <1>1, UserElsewhere DEF UserStep, QueuesInv
<1>3. NoNewWaiters
  BY DEF CloseSend, NoNewWaiters, QueuesInv, TypeOK, UserTypeOK, UserState
<1>4. CASE link[k] = "closed"
  <2>1. UNCHANGED <<wireVars, connectionVars, othersVars>>
    BY <1>1, <1>4 DEF CloseSend, ClientSide, othersVars
  <2>2. QED
    BY <1>3, <2>1, QuietQueues
<1>5. CASE link[k] # "closed"
  <2> DEFINE message == UnSub(DOMAIN slot_map[k])
             new     == WireMessage(c, message)
  <2>1. Allocate(k, c) /\ Send(k, c, message) /\ UNCHANGED <<wireVars, slot_map>>
    BY <1>1, <1>5 DEF CloseSend
  <2>2. Flows(k, NoMessage, new)
    BY <2>1, SendFlows DEF QueuesInv
  <2>3. \A t \in Slots, d \in CSlots : MapsTo(k, t, d)' => MapsTo(k, t, d)
    BY <2>1 DEF ClientSide, connectionVars, MapsTo
  <2>4. /\ \A d : new \notin CallsTo(d)
        /\ \A d, t : new \notin Naming(d, t)
        /\ \A d : new \in To(d) => d = c
    BY DEF To, CallsTo, Calls, Naming, Addressed, WireMessage, RpcReq, RpcReqRslt, Sub, UnSub
  <2>5. Total(CallsTo(c), k, c) = 0
    BY <2>1, FreshQueue, NamingKinds DEF Allocate, QueuesInv, CallsTo, Calls, To, Addressed, Requests
  <2> HIDE DEF new
  <2>6. \A d \in CSlots : Mild(k, d, NoMessage, new)
    BY <1>3, <2>2, <2>3, <2>4, <2>5, WaitersStay DEF Mild, Names, OthersTo
  <2>7. QED
    BY <1>2, <1>3, <2>6, MildQueues
<1>6. QED
  BY <1>4, <1>5

LEMMA QueuedCounts ==
  ASSUME TypeOK, NEW k \in Clients, NEW c \in DOMAIN inbox[k], inbox[k][c] # <<>>, NEW S,
         WireMessage(c, Head(inbox[k][c])) \in S
  PROVE  Total(S, k, c) >= 1
<1>1. /\ Queue(k, c) # <<>> /\ Head(Queue(k, c)) = WireMessage(c, Head(inbox[k][c]))
      /\ Queue(k, c) \in Seq(Addressed({c}, Replies))
  BY QueueKinds, QueueTypes, TaggedTypes DEF Queue
<1>2. 1 \in 1 .. Len(Queue(k, c)) /\ Queue(k, c)[1] = Head(Queue(k, c))
  BY <1>1, LenProperties, EmptySeq
<1>3. Letter(Queue(k, c)[1]) \in S
  BY <1>1, <1>2 DEF Letter, WireMessage
<1>4. Times(S, Queue(k, c)) >= 1
  BY <1>1, <1>2, <1>3, TimesSome
<1>5. QED
  BY <1>4, Parts DEF Total

\* A message is taken from a queue, and nothing is mapped that it was not about.
LEMMA PopQueues ==
  ASSUME QueuesInv, TypeOK', NEW k \in Clients, NEW c \in DOMAIN inbox[k], Pop(k, c),
         UNCHANGED <<wireVars, outgoing>>, ClientSide, Elsewhere(k), NoNewWaiters,
         \A s \in Slots, d \in CSlots : MapsTo(k, s, d)' => Names(k, d, s)
  PROVE  QueuesInv'
<1> DEFINE old == WireMessage(c, Head(inbox[k][c]))
<1>1. Flows(k, old, NoMessage)
  BY PopFlows DEF QueuesInv
<1> HIDE DEF old
<1>2. \A d \in CSlots : Mild(k, d, old, NoMessage)
  BY <1>1, NotAMessage, WaitersStay DEF Mild, OthersTo
<1>3. QED
  BY <1>2, MildQueues

LEMMA EndsWait ==
  ASSUME TypeOK, NEW u \in Users, End(u)
  PROVE  NoNewWaiters /\ user'[u] = Resting /\ \A v \in Users \ {u} : user'[v] = user[v]
  BY DEF TypeOK, End, Resting, NoNewWaiters

LEMMA CallReturnsQueues ==
  ASSUME QueuesInv, TypeOK', NEW u \in Users, CallReturns(u), ClientSide
  PROVE  QueuesInv'
<1>1. user[u].pc = "calling" /\ End(u) /\ NoNewWaiters
  BY EndsWait DEF CallReturns, QueuesInv
<1>2. PICK k \in Clients : k = user[u].client
  BY <1>1, EngagedTypes DEF QueuesInv
<1>3. PICK c \in DOMAIN inbox[k] : c = user[u].c_slot
  BY <1>1, <1>2, EngagedTypes DEF QueuesInv
<1> DEFINE m == Head(inbox[k][c])
<1>4. Elsewhere(k)
  BY <1>2, UserElsewhere DEF UserStep, QueuesInv
<1>5. Pop(k, c) /\ UNCHANGED <<wireVars, outgoing>> /\ (Map(k, m.slot, c) \/ UNCHANGED slot_map)
      /\ (m.kind = "RpcReqRslt" \/ UNCHANGED slot_map)
  BY <1>2, <1>3 DEF CallReturns
<1>6. \A s \in Slots, d \in CSlots : MapsTo(k, s, d)' => Names(k, d, s)
  <2>1. CASE UNCHANGED slot_map
    BY <2>1 DEF ClientSide, connectionVars, MapsTo, Names
  <2>2. CASE Map(k, m.slot, c) /\ m.kind = "RpcReqRslt"
    <3>1. m.slot \in Slots /\ m = RpcReqRslt(m.slot) /\ inbox[k][c] # <<>>
      BY <1>5, <2>2, PopTypes, ReplyShapes DEF Pop, QueuesInv
    <3>2. WireMessage(c, m) \in Naming(c, m.slot)
      BY <3>1 DEF WireMessage, Naming, Addressed
    <3>3. Names(k, c, m.slot)
      BY <3>1, <3>2, QueuedCounts DEF Names, QueuesInv
    <3>4. slot_map'[k] = [t \in DOMAIN slot_map[k] \cup {m.slot} |->
                            IF t = m.slot THEN c ELSE slot_map[k][t]]
      BY <2>2, <3>1, MapTypes DEF QueuesInv
    <3> HIDE DEF m
    <3>5. QED
      BY <3>3, <3>4 DEF ClientSide, connectionVars, MapsTo, Names
  <2>3. QED
    BY <1>5, <2>1, <2>2
<1>7. QED
  BY <1>1, <1>4, <1>5, <1>6, PopQueues

\* The slot that is mapped is the one that the queue is about, if it is about any.
LEMMA SubscribeReturnsQueues ==
  ASSUME QueuesInv, TypeOK', NEW u \in Users, SubscribeReturns(u), ClientSide
  PROVE  QueuesInv'
<1>1. user[u].pc = "subscribing" /\ End(u) /\ NoNewWaiters /\ user'[u] = Resting
      /\ \A v \in Users \ {u} : user'[v] = user[v]
  BY EndsWait DEF SubscribeReturns, QueuesInv
<1>2. PICK k \in Clients : k = user[u].client
  BY <1>1, EngagedTypes DEF QueuesInv
<1>3. PICK c \in DOMAIN inbox[k] : c = user[u].c_slot
  BY <1>1, <1>2, EngagedTypes DEF QueuesInv
<1>4. PICK s \in Slots : s = user[u].slot
  BY <1>1, EngagedTypes DEF QueuesInv
<1>5. Elsewhere(k)
  BY <1>2, UserElsewhere DEF UserStep, QueuesInv
<1>6. Pop(k, c) /\ UNCHANGED <<wireVars, outgoing>> /\ (Map(k, s, c) \/ UNCHANGED slot_map)
  BY <1>2, <1>3, <1>4 DEF SubscribeReturns
<1>7. CASE UNCHANGED slot_map
  <2>1. \A t \in Slots, d \in CSlots : MapsTo(k, t, d)' => Names(k, d, t)
    BY <1>7 DEF ClientSide, connectionVars, MapsTo, Names
  <2>2. QED
    BY <1>1, <1>5, <1>6, <2>1, PopQueues
<1>8. CASE Map(k, s, c)
  <2> DEFINE old == WireMessage(c, Head(inbox[k][c]))
  <2>1. Flows(k, old, NoMessage) /\ c \in CSlots
    BY <1>6, PopFlows, QueueTypes DEF QueuesInv
  <2> HIDE DEF old
  <2>2. slot_map'[k] = [t \in DOMAIN slot_map[k] \cup {s} |-> IF t = s THEN c ELSE slot_map[k][t]]
    BY <1>8, MapTypes DEF QueuesInv
  <2>3. \A t \in Slots, d \in CSlots : MapsTo(k, t, d)' => MapsTo(k, t, d) \/ (t = s /\ d = c)
    BY <2>2 DEF ClientSide, connectionVars, MapsTo
  <2>4. ASSUME NEW d \in CSlots, d # c PROVE QueueOK(k, d)'
    <3>1. Mild(k, d, old, NoMessage)
      BY <1>1, <2>1, <2>3, <2>4, NotAMessage, WaitersStay DEF Mild, OthersTo, Names
    <3>2. QED
      BY <3>1, MildKeeps DEF QueuesInv
  <2>5. QueueOK(k, c)'
    <3>1. Subscribing(u, k, c)
      BY <1>1, <1>2, <1>3 DEF Subscribing
    <3>2. ASSUME NEW S \in SUBSET To(c) PROVE Total(S, k, c)' <= Total(S, k, c)
      <4>1. Total(S, k, c)' + Hit(old, S) <= Total(S, k, c) + Hit(NoMessage, S)
        BY <2>1 DEF Flows
      <4>2. Total(S, k, c)' \in Nat /\ Total(S, k, c) \in Nat /\ Hit(old, S) \in {0, 1}
            /\ Hit(NoMessage, S) = 0
        BY TotalNext, Parts, OneHit, NoHit DEF QueuesInv
      <4>3. QED
        BY <4>1, <4>2
    <3>3. CallAlone(k, c)'
      <4>1. ~(Total(CallsTo(c), k, c) >= 1)
        BY <2>1, <3>1 DEF QueuesInv, QueueOK, CallAlone
      <4>2. Total(CallsTo(c), k, c)' <= Total(CallsTo(c), k, c)
        BY <3>2, CallKinds
      <4>3. Total(CallsTo(c), k, c) \in Nat /\ Total(CallsTo(c), k, c)' \in Nat
        BY TotalNext, Parts DEF QueuesInv
      <4>4. ~(Total(CallsTo(c), k, c)' >= 1)
        BY <4>1, <4>2, <4>3
      <4>5. QED
        BY <4>4 DEF CallAlone
    <3>4. ASSUME NEW t \in Slots, Names(k, c, t)' PROVE t = s
      <4>1. Total(Naming(c, t), k, c)' <= Total(Naming(c, t), k, c)
            /\ Total(Naming(c, t), k, c) \in Nat /\ Total(Naming(c, t), k, c)' \in Nat
        BY <3>2, NamingKinds, TotalNext, Parts DEF QueuesInv
      <4>2. Names(k, c, t) \/ t = s
        BY <2>1, <2>3, <3>4, <4>1 DEF Names
      <4>3. QED
        BY <1>4, <2>1, <3>1, <4>2 DEF QueuesInv, QueueOK, NameSubscribed
    <3>5. \A v \in Users : ~Subscribing(v, k, c)'
      BY <1>1, <1>2, <1>3 DEF Subscribing, Resting, QueuesInv, OwnQueues, Waiting
    <3>6. QED
      BY <3>3, <3>4, <3>5 DEF QueueOK, OneName, NameSubscribed
  <2>6. \A j \in Clients \ {k}, d \in CSlots : QueueOK(j, d)'
    BY <1>1, <1>5, ElsewhereQueues, WaitersStay
  <2>7. QED
    BY <1>1, <2>4, <2>5, <2>6, WaitersStay DEF QueuesInv
<1>9. QED
  BY <1>6, <1>7, <1>8

LEMMA ReceivedQueues ==
  ASSUME QueuesInv, TypeOK', NEW u \in Users, Received(u), ClientSide
  PROVE  QueuesInv'
<1>1. user[u].pc = "receiving" /\ UNCHANGED <<wireVars, slot_map, outgoing>>
  BY DEF Received
<1>2. PICK k \in Clients : k = user[u].client
  BY <1>1, EngagedTypes DEF QueuesInv
<1>3. PICK c \in DOMAIN inbox[k] : c = user[u].c_slot
  BY <1>1, <1>2, EngagedTypes DEF QueuesInv
<1>4. Elsewhere(k) /\ Pop(k, c)
  BY <1>2, <1>3, UserElsewhere DEF UserStep, Received, QueuesInv
<1>5. NoNewWaiters
  <2>1. CASE End(u)
    BY <2>1, EndsWait DEF QueuesInv
  <2>2. CASE user' = [user EXCEPT ![u].pc = "looking", ![u].c_slot = Nothing]
    BY <2>2 DEF NoNewWaiters, QueuesInv, TypeOK, UserTypeOK, UserState
  <2>3. QED
    BY <2>1, <2>2 DEF Received
<1>6. \A t \in Slots, d \in CSlots : MapsTo(k, t, d)' => Names(k, d, t)
  BY <1>1 DEF ClientSide, connectionVars, MapsTo, Names
<1>7. QED
  BY <1>1, <1>4, <1>5, <1>6, PopQueues

LEMMA TryReceiveQueues ==
  ASSUME QueuesInv, TypeOK', NEW u \in Users, NEW k \in Clients, NEW s \in Slots,
         TryReceive(u, k, s), ClientSide
  PROVE  QueuesInv'
<1>1. PICK c \in DOMAIN inbox[k] : c = slot_map[k][s]
  BY MappedTypes DEF TryReceive, QueuesInv
<1>2. UserStarts(u, k)
  BY DEF UserStarts
<1>3. Elsewhere(k) /\ Pop(k, c) /\ NoNewWaiters
  BY <1>1, <1>2, UserElsewhere, SameMaps DEF TryReceive, QueuesInv
<1>4. \A t \in Slots, d \in CSlots : MapsTo(k, t, d)' => Names(k, d, t)
  BY DEF TryReceive, ClientSide, connectionVars, MapsTo, Names
<1>5. QED
  BY <1>1, <1>3, <1>4, PopQueues DEF TryReceive

\* Operations that only the user itself takes note of.
LEMMA UserOnlyQueues ==
  ASSUME QueuesInv, TypeOK', NEW u \in Users, ClientSide,
         \/ \E k \in Clients, s \in Slots : Receive(u, k, s)
         \/ \E k \in Clients : Close(u, k)
         \/ LookUp(u) \/ NotSubscribed(u) \/ ClosePanics(u)
  PROVE  QueuesInv'
<1>1. UNCHANGED <<wireVars, connectionVars, othersVars>>
  BY DEF Receive, Close, LookUp, NotSubscribed, ClosePanics, ClientSide
<1>2. NoNewWaiters
  <2>1. CASE NotSubscribed(u) \/ ClosePanics(u)
    BY <2>1, EndsWait DEF NotSubscribed, ClosePanics, QueuesInv
  <2>2. CASE LookUp(u)
    BY <2>2 DEF LookUp, NoNewWaiters, QueuesInv, TypeOK, UserTypeOK, UserState
  <2>3. CASE \/ \E k \in Clients, s \in Slots : Receive(u, k, s)
             \/ \E k \in Clients : Close(u, k)
    BY <2>3 DEF Receive, Close, Begin, NoNewWaiters, QueuesInv, TypeOK
  <2>4. QED
    BY <2>1, <2>2, <2>3
<1>3. QED
  BY <1>1, <1>2, QuietQueues

----------------------------------------------------------------------------
LEMMA QueuesInitial == Init => QueuesInv
<1> SUFFICES ASSUME Init PROVE QueuesInv
  OBVIOUS
<1>1. TypeOK
  BY TypeInitial
<1>2. ASSUME NEW k \in Clients, NEW c \in CSlots PROVE QueueOK(k, c)
  <2>1. c \notin DOMAIN inbox[k]
    BY DEF Init, ClientInit
  <2>2. Total(CallsTo(c), k, c) = 0 /\ \A s \in Slots : ~Names(k, c, s)
    BY <1>1, <2>1, FreshQueue, CallKinds
  <2>3. QED
    BY <2>2 DEF QueueOK, CallAlone, OneName, NameSubscribed
<1>3. OwnQueues
  BY DEF Init, ClientInit, OwnQueues, Waiting, Resting
<1>4. QED
  BY <1>1, <1>2, <1>3 DEF QueuesInv

LEMMA QueuesStep == QueuesInv /\ [Next]_vars => QueuesInv'
<1> SUFFICES ASSUME QueuesInv, [Next]_vars PROVE QueuesInv'
  OBVIOUS
<1>1. TypeOK'
  BY TypeStep DEF QueuesInv
<1>2. ASSUME NEW k \in Clients, ConnectionStep(k), ServerSide PROVE QueuesInv'
  <2>1. CASE \E i \in 1 .. Len(work[k]) : WorkStep(k, i)
    BY <1>1, <1>2, <2>1, RefuseQueues, ExecuteQueues, SubscribeCallerQueues, HandleRpcReqResultQueues,
       HandleSubQueues, HandleUnsubQueues, ServerMovesQueues DEF WorkStep, OwnStep, ExecutorStep
  <2>2. QED
    BY <1>1, <1>2, <2>1, RelayReceiveQueues, ServerMovesQueues DEF ConnectionStep, RelayStep
<1>3. ASSUME NEW k \in Clients, NEW u \in Users, UserStarts(u, k), ClientSide PROVE QueuesInv'
  BY <1>1, <1>3, UserStartsQueues, RefreshQueues, TryReceiveQueues, UserOnlyQueues DEF UserStarts
<1>4. ASSUME NEW u \in Users, UserStep(u), ClientSide PROVE QueuesInv'
  BY <1>1, <1>4, CallReturnsQueues, SubscribeReturnsQueues, ReceivedQueues, UserOnlyQueues,
     CloseSendQueues, CloseAbortQueues DEF UserStep
<1>5. ASSUME NEW s \in Slots, TaskStep(s), UNCHANGED <<wireVars, connectionVars, clientVars>>
      PROVE  QueuesInv'
  BY <1>1, <1>5, QuietQueues, SameMaps DEF clientVars, othersVars
<1>6. CASE UNCHANGED vars
  BY <1>1, <1>6, QuietQueues, SameMaps DEF vars, clientVars, othersVars
<1>7. QED
  BY <1>1, <1>2, <1>3, <1>4, <1>5, <1>6, WireMovesQueues DEF Next

----------------------------------------------------------------------------
(* The messages of a connection, in their order.                           *)

LEMMA PathTypes ==
  ASSUME TypeOK, NEW k \in Clients, NEW c \in DOMAIN inbox[k]
  PROVE  LET D == DOMAIN inbox[k]
             T == WorkState(D) \cup Addressed(D, Requests) IN
           /\ Queue(k, c) = Tagged(c, inbox[k][c])
           /\ Queue(k, c) \in Seq(Addressed(D, Replies))
           /\ toClient[k] \in Seq(Addressed(D, Replies))
           /\ outbox[k] \in Seq(Addressed(D, Replies))
           /\ InHand(k) \in Seq(Addressed(D, Replies))
           /\ work[k] \in Seq(T) /\ toServer[k] \in Seq(T) /\ outgoing[k] \in Seq(T)
           /\ Path(k, c) \in Seq(Addressed(D, Replies))
           /\ Requested(k) \in Seq(T)
<1> DEFINE D == DOMAIN inbox[k]
           T == WorkState(D) \cup Addressed(D, Requests)
<1>1. /\ Addressed({c}, Replies) \subseteq Addressed(D, Replies)
      /\ Addressed(D, Reports) \subseteq Addressed(D, Replies)
      /\ WorkState(D) \subseteq T /\ Addressed(D, Requests) \subseteq T
  BY MadeReplies DEF Addressed
<1>2. Queue(k, c) = Tagged(c, inbox[k][c])
  BY DEF Queue
<1> HIDE DEF T
<1>3. /\ Queue(k, c) \in Seq(Addressed(D, Replies)) /\ toClient[k] \in Seq(Addressed(D, Replies))
      /\ outbox[k] \in Seq(Addressed(D, Replies)) /\ InHand(k) \in Seq(Addressed(D, Replies))
      /\ work[k] \in Seq(T) /\ toServer[k] \in Seq(T) /\ outgoing[k] \in Seq(T)
  <2>1. /\ Queue(k, c) \in Seq(Addressed({c}, Replies)) /\ InHand(k) \in Seq(Addressed(D, Reports))
        /\ work[k] \in Seq(WorkState(D)) /\ toServer[k] \in Seq(Addressed(D, Requests))
        /\ outgoing[k] \in Seq(Addressed(D, Requests))
    BY QueueKinds, ConnectionTypes, InHandTypes
  <2>2. toClient[k] \in Seq(Addressed(D, Replies)) /\ outbox[k] \in Seq(Addressed(D, Replies))
    BY ConnectionTypes
  <2>3. QED
    BY <1>1, <2>1, <2>2, SeqMonotonic
<1>4. Path(k, c) \in Seq(Addressed(D, Replies))
  BY <1>2, <1>3, ConcatProperties DEF Path
<1>5. Requested(k) \in Seq(T)
  BY <1>3, ConcatProperties DEF Requested
<1>6. QED
  BY <1>2, <1>3, <1>4, <1>5 DEF T

\* All messages for c are requests under way or on the path to its queue.
LEMMA TotalInOrder ==
  ASSUME TypeOK, NEW k \in Clients, NEW c \in DOMAIN inbox[k], NEW S
  PROVE  /\ Total(S, k, c) = Times(S, Requested(k)) + Times(S, Path(k, c))
         /\ Times(S, Requested(k)) \in Nat /\ Times(S, Path(k, c)) \in Nat
<1> DEFINE D == DOMAIN inbox[k]
           T == WorkState(D) \cup Addressed(D, Requests)
           R == Addressed(D, Replies)
           q == Queue(k, c)
<1>1. /\ q = Tagged(c, inbox[k][c])
      /\ q \in Seq(R) /\ toClient[k] \in Seq(R) /\ outbox[k] \in Seq(R) /\ InHand(k) \in Seq(R)
      /\ work[k] \in Seq(T) /\ toServer[k] \in Seq(T) /\ outgoing[k] \in Seq(T)
  BY PathTypes
<1> HIDE DEF T, R, q
<1>2. /\ q \o toClient[k] \in Seq(R) /\ (q \o toClient[k]) \o outbox[k] \in Seq(R)
      /\ work[k] \o toServer[k] \in Seq(T)
  BY <1>1, ConcatProperties
<1>3. Times(S, Path(k, c)) = Times(S, q) + Times(S, toClient[k]) + Times(S, outbox[k])
                               + Times(S, InHand(k))
  <2>1. Times(S, q \o toClient[k]) = Times(S, q) + Times(S, toClient[k])
    BY <1>1, TimesConcat
  <2>2. Times(S, (q \o toClient[k]) \o outbox[k]) = Times(S, q \o toClient[k]) + Times(S, outbox[k])
    BY <1>1, <1>2, TimesConcat
  <2>3. Times(S, ((q \o toClient[k]) \o outbox[k]) \o InHand(k))
          = Times(S, (q \o toClient[k]) \o outbox[k]) + Times(S, InHand(k))
    BY <1>1, <1>2, TimesConcat
  <2>4. QED
    BY <1>1, <2>1, <2>2, <2>3 DEF Path
<1>4. Times(S, Requested(k)) = Times(S, work[k]) + Times(S, toServer[k]) + Times(S, outgoing[k])
  <2>1. Times(S, work[k] \o toServer[k]) = Times(S, work[k]) + Times(S, toServer[k])
    BY <1>1, TimesConcat
  <2>2. Times(S, (work[k] \o toServer[k]) \o outgoing[k])
          = Times(S, work[k] \o toServer[k]) + Times(S, outgoing[k])
    BY <1>1, <1>2, TimesConcat
  <2>3. QED
    BY <2>1, <2>2 DEF Requested
<1>5. QED
  BY <1>3, <1>4, Parts DEF Total, q

\* What is mentioned to c names a slot for it.
LEMMA MentionedNames ==
  ASSUME TypeOK, NEW k \in Clients, NEW c \in DOMAIN inbox[k],
         NEW s \in Mentioned(c, Path(k, c)) \cup Mentioned(c, Requested(k))
  PROVE  s \in Slots /\ Names(k, c, s)
<1> DEFINE D == DOMAIN inbox[k]
           T == WorkState(D) \cup Addressed(D, Requests)
<1>1. ASSUME NEW x \in T \cup Addressed(D, Replies), x.c_slot = c,
             x.inner.kind \in {"Sub", "RpcReqRslt", "RpcRslt"}, x.inner.slot = s
      PROVE  s \in Slots /\ Letter(x) \in Naming(c, s)
  <2>1. x.inner \in Requests \cup Replies
    BY DEF WorkState, Addressed, Requests, Replies
  <2>2. x.inner \in {Sub(s), RpcReqRslt(s)}
                      \cup [kind : {"RpcRslt"}, slot : {s}, n : Nat, asked : BOOLEAN]
        /\ s \in Slots
    BY <1>1, <2>1 DEF Requests, Replies, RpcReq, RpcReqRslt, Sub, UnSub, Error, SubOpFin
  <2>3. QED
    BY <1>1, <2>2 DEF Letter, WireMessage, Naming, Addressed
<1>2. Path(k, c) \in Seq(Addressed(D, Replies)) /\ Requested(k) \in Seq(T)
  BY PathTypes
<1> HIDE DEF T
<1>3. CASE s \in Mentioned(c, Path(k, c))
  <2>1. PICK i \in 1 .. Len(Path(k, c)) :
          LET x == Path(k, c)[i] IN
            x.c_slot = c /\ x.inner.kind \in {"Sub", "RpcReqRslt", "RpcRslt"} /\ x.inner.slot = s
    BY <1>3 DEF Mentioned, Of
  <2>2. s \in Slots /\ Letter(Path(k, c)[i]) \in Naming(c, s)
    BY <1>1, <1>2, <2>1, ElementOfSeq
  <2>3. Times(Naming(c, s), Path(k, c)) >= 1
    BY <1>2, <2>2, TimesSome
  <2>4. QED
    BY <2>2, <2>3, TotalInOrder DEF Names
<1>4. CASE s \in Mentioned(c, Requested(k))
  <2>1. PICK i \in 1 .. Len(Requested(k)) :
          LET x == Requested(k)[i] IN
            x.c_slot = c /\ x.inner.kind \in {"Sub", "RpcReqRslt", "RpcRslt"} /\ x.inner.slot = s
    BY <1>4 DEF Mentioned, Of
  <2>2. s \in Slots /\ Letter(Requested(k)[i]) \in Naming(c, s)
    BY <1>1, <1>2, <2>1, ElementOfSeq
  <2>3. Times(Naming(c, s), Requested(k)) >= 1
    BY <1>2, <2>2, TimesSome
  <2>4. QED
    BY <2>2, <2>3, TotalInOrder DEF Names
<1>5. QED
  BY <1>3, <1>4

LEMMA QueuesApart == QueuesInv => OneSlotPerQueue
<1> SUFFICES ASSUME QueuesInv, NEW k \in Clients, NEW c \in DOMAIN inbox[k]
             PROVE  Cardinality(About(k, c)) <= 1
  BY DEF OneSlotPerQueue
<1>1. c \in CSlots
  BY QueueTypes DEF QueuesInv
<1>2. ASSUME NEW s \in About(k, c) PROVE s \in Slots /\ Names(k, c, s)
  <2>1. CASE s \in Mentioned(c, Path(k, c)) \cup Mentioned(c, Requested(k))
    BY <2>1, MentionedNames DEF QueuesInv
  <2>2. CASE MapsTo(k, s, c)
    BY <2>2 DEF MapsTo, Names, QueuesInv, TypeOK, ConnectionTypeOK, PartialFunction
  <2>3. QED
    BY <2>1, <2>2 DEF About, MapsTo
<1>3. \A s, t \in About(k, c) : s = t
  BY <1>1, <1>2 DEF QueuesInv, QueueOK, OneName
<1>4. CASE About(k, c) = {}
  BY <1>4, FS_EmptySet
<1>5. ASSUME NEW s \in About(k, c) PROVE Cardinality(About(k, c)) <= 1
  <2>1. About(k, c) = {s}
    BY <1>3
  <2>2. Cardinality({s}) = 1
    BY FS_Singleton
  <2>3. QED
    BY <2>1, <2>2
<1>6. QED
  BY <1>4, <1>5

\* What arrives for different RPCs never mixes in a queue, nor do server and client
\* map two of them to it, whoever calls, subscribes, refreshes or receives at the
\* same time.
THEOREM QueuesForOneSlot == Spec => []OneSlotPerQueue
  BY QueuesInitial, QueuesStep, QueuesApart, PTL DEF Spec
=============================================================================
