----------------------------- MODULE RwLockProofs ----------------------------
(***************************************************************************)
(* What the fair lock gives its users: places keep their order as actors   *)
(* come and go, and a writer that is let in is alone.                      *)
(***************************************************************************)
EXTENDS RwLock, TLAPS

\* Types.
LEMMA FreeIsLock ==
  ASSUME NEW Actors
  PROVE  IsLock(Free, Actors) /\ FirstComeFirstServed(Free)
  BY DEF IsLock, Free, FirstComeFirstServed

LEMMA QueueIsLock ==
  ASSUME NEW Actors, NEW lock, IsLock(lock, Actors), NEW a \in Actors, NEW w \in BOOLEAN
  PROVE  IsLock(Queue(lock, a, w), Actors)
<1>1. DOMAIN Queue(lock, a, w) = DOMAIN lock \cup {a}
  BY DEF Queue
<1>2. Place(lock, w) \in [write : BOOLEAN, ahead : SUBSET Actors]
  BY DEF Place, IsLock
<1>3. \A b \in DOMAIN lock : lock[b] \in [write : BOOLEAN, ahead : SUBSET Actors]
  BY DEF IsLock
<1>4. QED
  BY <1>1, <1>2, <1>3 DEF IsLock, Queue

LEMMA LeaveIsLock ==
  ASSUME NEW Actors, NEW lock, IsLock(lock, Actors), NEW a
  PROVE  IsLock(Leave(lock, a), Actors)
<1>1. DOMAIN Leave(lock, a) = DOMAIN lock \ {a}
  BY DEF Leave
<1>2. ASSUME NEW b \in DOMAIN lock
      PROVE  [lock[b] EXCEPT !.ahead = @ \ {a}] \in [write : BOOLEAN, ahead : SUBSET Actors]
  BY DEF IsLock
<1>3. QED
  BY <1>1, <1>2 DEF IsLock, Leave

\* Places keep their order when someone new comes ...
LEMMA QueueKeepsOrder ==
  ASSUME NEW lock, FirstComeFirstServed(lock), NEW a, a \notin DOMAIN lock, NEW w
  PROVE  FirstComeFirstServed(Queue(lock, a, w))
<1>1. DOMAIN Queue(lock, a, w) = DOMAIN lock \cup {a}
  BY DEF Queue
<1>2. Queue(lock, a, w)[a].ahead = DOMAIN lock
  BY DEF Queue, Place
<1>3. \A b \in DOMAIN lock : Queue(lock, a, w)[b] = lock[b]
  BY DEF Queue
<1>4. QED
  BY <1>1, <1>2, <1>3 DEF FirstComeFirstServed

\* ... and when someone leaves.
LEMMA LeaveKeepsOrder ==
  ASSUME NEW Actors, NEW lock, IsLock(lock, Actors), FirstComeFirstServed(lock), NEW a
  PROVE  FirstComeFirstServed(Leave(lock, a))
<1>1. DOMAIN Leave(lock, a) = DOMAIN lock \ {a}
  BY DEF Leave
<1>2. \A b \in DOMAIN lock \ {a} : Leave(lock, a)[b].ahead = lock[b].ahead \ {a}
  BY DEF Leave, IsLock
<1>3. QED
  BY <1>1, <1>2 DEF FirstComeFirstServed

\* What a newcomer and a leaver do to the places.
LEMMA QueuePlaces ==
  ASSUME NEW lock, NEW a, a \notin DOMAIN lock, NEW w
  PROVE  /\ DOMAIN Queue(lock, a, w) = DOMAIN lock \cup {a}
         /\ Queue(lock, a, w)[a].ahead = DOMAIN lock
         /\ \A b \in DOMAIN lock : Queue(lock, a, w)[b] = lock[b]
  BY DEF Queue, Place

LEMMA QueueReadPlaces ==
  ASSUME NEW lock, NEW a, a \notin DOMAIN lock
  PROVE  /\ DOMAIN QueueRead(lock, a) = DOMAIN lock \cup {a}
         /\ QueueRead(lock, a)[a].ahead = DOMAIN lock
         /\ \A b \in DOMAIN lock : QueueRead(lock, a)[b] = lock[b]
         /\ FirstComeFirstServed(lock) => FirstComeFirstServed(QueueRead(lock, a))
<1>1. /\ DOMAIN QueueRead(lock, a) = DOMAIN lock \cup {a}
      /\ QueueRead(lock, a)[a].ahead = DOMAIN lock
      /\ \A b \in DOMAIN lock : QueueRead(lock, a)[b] = lock[b]
  BY DEF QueueRead, Queue, Place
<1>2. QED
  BY <1>1 DEF FirstComeFirstServed

LEMMA QueueWritePlaces ==
  ASSUME NEW lock, NEW a, a \notin DOMAIN lock
  PROVE  /\ DOMAIN QueueWrite(lock, a) = DOMAIN lock \cup {a}
         /\ QueueWrite(lock, a)[a].ahead = DOMAIN lock
         /\ QueueWrite(lock, a)[a].write
         /\ \A b \in DOMAIN lock : QueueWrite(lock, a)[b] = lock[b]
         /\ FirstComeFirstServed(lock) => FirstComeFirstServed(QueueWrite(lock, a))
<1>1. QueueWrite(lock, a)[a] = [write |-> TRUE, ahead |-> DOMAIN lock]
  BY DEF QueueWrite, Queue, Place
<1>2. /\ DOMAIN QueueWrite(lock, a) = DOMAIN lock \cup {a}
      /\ QueueWrite(lock, a)[a].ahead = DOMAIN lock
      /\ \A b \in DOMAIN lock : QueueWrite(lock, a)[b] = lock[b]
  BY DEF QueueWrite, Queue, Place
<1>3. FirstComeFirstServed(lock) => FirstComeFirstServed(QueueWrite(lock, a))
  BY <1>2 DEF FirstComeFirstServed
<1>4. QueueWrite(lock, a)[a].write
  BY <1>1
<1>5. QED
  BY <1>2, <1>3, <1>4

LEMMA LeavePlaces ==
  ASSUME NEW Actors, NEW lock, IsLock(lock, Actors), NEW a
  PROVE  /\ DOMAIN Leave(lock, a) = DOMAIN lock \ {a}
         /\ \A b \in DOMAIN lock \ {a} :
              /\ Leave(lock, a)[b].ahead = lock[b].ahead \ {a}
              /\ lock[b].write => Leave(lock, a)[b].write
         /\ FirstComeFirstServed(lock) => FirstComeFirstServed(Leave(lock, a))
<1>1. DOMAIN Leave(lock, a) = DOMAIN lock \ {a}
  BY DEF Leave
<1>2. ASSUME NEW b \in DOMAIN lock \ {a}
      PROVE  /\ Leave(lock, a)[b].ahead = lock[b].ahead \ {a}
             /\ lock[b].write => Leave(lock, a)[b].write
  <2>1. lock[b] \in [write : BOOLEAN, ahead : SUBSET Actors]
    BY DEF IsLock
  <2>2. Leave(lock, a)[b] = [lock[b] EXCEPT !.ahead = @ \ {a}]
    BY DEF Leave
  <2>3. QED
    BY <2>1, <2>2
<1>3. QED
  BY <1>1, <1>2, LeaveKeepsOrder

(* Who has been let in stays in while others come and go: an actor that is *)
(* granted its guard once can go on whenever it is polled, so weak fairness *)
(* of its next step is enough.                                             *)
THEOREM GrantedStays ==
  ASSUME NEW Actors, NEW lock, IsLock(lock, Actors), FirstComeFirstServed(lock),
         NEW a, Granted(lock, a), NEW b, b # a, NEW w
  PROVE  /\ b \notin DOMAIN lock => Granted(Queue(lock, b, w), a)
         /\ Granted(Leave(lock, b), a)
<1>1. a \in DOMAIN lock /\ lock[a].ahead \subseteq DOMAIN lock
  BY DEF Granted, FirstComeFirstServed
<1>2. ASSUME b \notin DOMAIN lock PROVE Granted(Queue(lock, b, w), a)
  <2>1. /\ a \in DOMAIN Queue(lock, b, w)
        /\ \A x \in DOMAIN lock : Queue(lock, b, w)[x] = lock[x]
    BY <1>1, <1>2 DEF Queue
  <2>2. QED
    BY <1>1, <2>1 DEF Granted
<1>3. Granted(Leave(lock, b), a)
  <2>1. \A x \in DOMAIN lock \ {b} :
          /\ Leave(lock, b)[x].write = lock[x].write
          /\ Leave(lock, b)[x].ahead = lock[x].ahead \ {b}
    BY DEF Leave, IsLock
  <2>2. a \in DOMAIN Leave(lock, b)
    BY <1>1 DEF Leave
  <2>3. QED
    BY <1>1, <2>1, <2>2 DEF Granted
<1>4. QED
  BY <1>2, <1>3

(* A writer that holds the lock holds it alone: tokio's promise, from the  *)
(* order of places only.                                                   *)
THEOREM WriterAlone ==
  ASSUME NEW lock, FirstComeFirstServed(lock),
         NEW a, NEW b, Granted(lock, a), Granted(lock, b), lock[a].write
  PROVE  a = b
  BY DEF FirstComeFirstServed, Granted
============================================================================
