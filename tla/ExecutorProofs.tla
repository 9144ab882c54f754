---------------------------- MODULE ExecutorProofs ---------------------------
(***************************************************************************)
(* What holds of the executor for every number of calls, slots, queries    *)
(* and updates, and every capacity of the bus.                             *)
(***************************************************************************)
EXTENDS Executor, RwLockProofs, SequenceTheorems, TLAPS

----------------------------------------------------------------------------
(* Types.                                                                  *)

\* Whoever is past its first step has a slot, and a reader of a task has its
\* task: tasks are never removed.
SlotsGiven ==
  /\ \A c \in Calls : call[c].pc \in {"seeking", "inserting", "accepted", "refused"}
                        => call[c].slot \in Slots
  /\ \A q \in Queries : query[q].pc # "idle" => query[q].slot \in Slots
  /\ \A q \in Queries : query[q].pc = "reading" => Known(query[q].slot)
  /\ bus.pc # "recv" => bus.slot \in Slots

WellTyped == TypeOK /\ SlotsGiven

LEMMA ActorTypes ==
  /\ \A c \in Calls : CallOf(c) \in Actors
  /\ \A s \in Slots : JobOf(s) \in Actors
  /\ \A q \in Queries : QueryOf(q) \in Actors
  /\ BusReader \in Actors
  /\ Admin \in Actors
  BY DEF Actors

LEMMA QueueReadIsLock ==
  ASSUME NEW lock, IsLock(lock, Actors), NEW a \in Actors
  PROVE  IsLock(QueueRead(lock, a), Actors)
  BY QueueIsLock DEF QueueRead

LEMMA QueueWriteIsLock ==
  ASSUME NEW lock, IsLock(lock, Actors), NEW a \in Actors
  PROVE  IsLock(QueueWrite(lock, a), Actors)
  BY QueueIsLock DEF QueueWrite

\* One entry of taskLock is replaced by a lock.
LEMMA TaskLockType ==
  ASSUME TypeOK, NEW s \in Slots, NEW lock, IsLock(lock, Actors),
         taskLock' = [taskLock EXCEPT ![s] = lock]
  PROVE  DOMAIN taskLock' = Slots /\ \A t \in Slots : IsLock(taskLock'[t], Actors)
  BY DEF TypeOK

LEMMA TypeInitial == Init => WellTyped
<1> SUFFICES ASSUME Init PROVE WellTyped
  OBVIOUS
<1>1. IsLock(Free, Actors)
  BY FreeIsLock
<1>2. /\ IsLock(handlersLock, Actors) /\ IsLock(tasksLock, Actors)
      /\ DOMAIN taskLock = Slots /\ \A s \in Slots : IsLock(taskLock[s], Actors)
  BY <1>1 DEF Init
<1>3. /\ call \in [Calls -> CallState] /\ query \in [Queries -> QueryState]
      /\ bus \in BusState /\ bus.next <= Len(log)
  BY DEF Init, CallState, QueryState, BusState, CallPcs, QueryPcs, BusPcs
<1>4. DOMAIN tasks = {} /\ tasks \in [DOMAIN tasks -> Nat]
  BY DEF Init
<1>5. log \in Seq(Message)
  BY DEF Init
<1>6. SlotsGiven
  BY DEF Init, SlotsGiven, Known
<1>7. QED
  BY <1>2, <1>3, <1>4, <1>5, <1>6 DEF Init, WellTyped, TypeOK, JobPcs

----------------------------------------------------------------------------
(* Each group of actions keeps the types.                                  *)

LEMMA TypeAdmin ==
  ASSUME WellTyped, HandlerAdded \/ \E m \in Methods : AddHandler(m)
  PROVE  WellTyped'
<1>1. IsLock(handlersLock', Actors)
  <2>1. CASE HandlerAdded
    BY <2>1, LeaveIsLock DEF HandlerAdded, WellTyped, TypeOK
  <2>2. CASE \E m \in Methods : AddHandler(m)
    BY <2>2, QueueWriteIsLock, ActorTypes DEF AddHandler, WellTyped, TypeOK
  <2>3. QED
    BY <2>1, <2>2
<1>2. handlers' \subseteq Methods /\ admin' \in Methods \cup {NoMethod}
  BY DEF HandlerAdded, AddHandler, WellTyped, TypeOK
<1>3. UNCHANGED <<tasks, tasksLock, taskLock, query, callVars, jobVars, busVars>>
  BY DEF HandlerAdded, AddHandler
<1>4. QED
  BY <1>1, <1>2, <1>3 DEF WellTyped, TypeOK, SlotsGiven, Known, callVars, jobVars, busVars

LEMMA TypeAssign ==
  ASSUME WellTyped, NEW c \in Calls, NEW m \in Methods, NEW s \in Slots, AssignSlot(c, m, s)
  PROVE  WellTyped'
<1>1. IsLock(handlersLock', Actors)
  BY QueueReadIsLock, ActorTypes DEF AssignSlot, WellTyped, TypeOK
<1>2. [pc |-> "seeking", method |-> m, slot |-> s] \in CallState
  BY DEF CallState, CallPcs
<1>3. call' \in [Calls -> CallState]
  BY <1>2 DEF AssignSlot, WellTyped, TypeOK
<1>4. SlotsGiven'
  BY DEF AssignSlot, WellTyped, TypeOK, SlotsGiven, Known, busVars
<1>5. QED
  BY <1>1, <1>3, <1>4 DEF AssignSlot, WellTyped, TypeOK, adminVars, jobVars, busVars

\* Only the program counter of one call changes.
LEMMA CallPcType ==
  ASSUME WellTyped, NEW c \in Calls, NEW pc \in CallPcs,
         pc = "panicked" \/ call[c].slot \in Slots,
         call' = [call EXCEPT ![c].pc = pc]
  PROVE  /\ call' \in [Calls -> CallState]
         /\ \A d \in Calls : call'[d].pc \in {"seeking", "inserting", "accepted", "refused"}
                               => call'[d].slot \in Slots
<1>1. /\ call[c] \in CallState
      /\ call'[c] = [call[c] EXCEPT !.pc = pc]
      /\ \A d \in Calls \ {c} : call'[d] = call[d]
  BY DEF WellTyped, TypeOK
<1>2. /\ call'[c] \in CallState /\ call'[c].pc = pc
      /\ call'[c].slot = call[c].slot
  BY <1>1 DEF CallState
<1>3. call' \in [Calls -> CallState]
  BY <1>2 DEF WellTyped, TypeOK
<1>4. QED
  BY <1>1, <1>2, <1>3 DEF WellTyped, SlotsGiven, Known

LEMMA TypeCall ==
  ASSUME WellTyped, NEW c \in Calls, CallStep(c) \/ OutOfSlots(c)
  PROVE  WellTyped'
<1>1. CASE OutOfSlots(c)
  <2>1. "panicked" \in CallPcs /\ call' = [call EXCEPT ![c].pc = "panicked"]
    BY <1>1 DEF OutOfSlots, CallPcs
  <2>2. QED
    BY <1>1, <2>1, CallPcType
    DEF OutOfSlots, WellTyped, TypeOK, SlotsGiven, Known, lockVars, adminVars, jobVars, busVars
<1>2. CASE FindHandler(c)
  <2>1. IsLock(tasksLock', Actors)
    BY <1>2, QueueWriteIsLock, ActorTypes DEF FindHandler, WellTyped, TypeOK
  <2>2. "inserting" \in CallPcs /\ call' = [call EXCEPT ![c].pc = "inserting"]
        /\ call[c].slot \in Slots
    BY <1>2 DEF FindHandler, CallPcs, WellTyped, SlotsGiven, Known
  <2>3. QED
    BY <1>2, <2>1, <2>2, CallPcType
    DEF FindHandler, WellTyped, TypeOK, SlotsGiven, Known, adminVars, jobVars, busVars
<1>3. CASE NoHandler(c)
  <2>1. IsLock(handlersLock', Actors)
    BY <1>3, LeaveIsLock DEF NoHandler, WellTyped, TypeOK
  <2>2. "refused" \in CallPcs /\ call' = [call EXCEPT ![c].pc = "refused"]
        /\ call[c].slot \in Slots
    BY <1>3 DEF NoHandler, CallPcs, WellTyped, SlotsGiven, Known
  <2>3. QED
    BY <1>3, <2>1, <2>2, CallPcType
    DEF NoHandler, WellTyped, TypeOK, SlotsGiven, Known, adminVars, jobVars, busVars
<1>4. CASE Insert(c)
  <2>1. IsLock(handlersLock', Actors) /\ IsLock(tasksLock', Actors)
    BY <1>4, LeaveIsLock DEF Insert, WellTyped, TypeOK
  <2>2. "accepted" \in CallPcs /\ call' = [call EXCEPT ![c].pc = "accepted"]
        /\ call[c].slot \in Slots
    BY <1>4 DEF Insert, CallPcs, WellTyped, SlotsGiven, Known
  <2>3. /\ DOMAIN tasks' \subseteq Slots /\ tasks' \in [DOMAIN tasks' -> Nat]
        /\ DOMAIN tasks \subseteq DOMAIN tasks'
    BY <1>4, <2>2 DEF Insert, WithTask, WellTyped, TypeOK
  <2>4. job' \in [Slots -> JobPcs]
    BY <1>4 DEF Insert, WellTyped, TypeOK, JobPcs
  <2>5. QED
    BY <1>4, <2>1, <2>2, <2>3, <2>4, CallPcType
    DEF Insert, WellTyped, TypeOK, SlotsGiven, Known, adminVars, busVars
<1>5. QED
  BY <1>1, <1>2, <1>3, <1>4 DEF CallStep

LEMMA TypeJob ==
  ASSUME WellTyped, NEW s \in Slots, JobStep(s) \/ Update(s) \/ HandlerEnds(s)
  PROVE  WellTyped'
<1>1. CASE Update(s) \/ Publish(s)
  <2>1. [slot |-> s, n |-> sent[s] + 1] \in Message
    BY DEF Message, WellTyped, TypeOK
  <2>0. Send(s)
    BY <1>1 DEF Update, Publish
  <2>2. log' \in Seq(Message) /\ Len(log') = Len(log) + 1
    BY <2>0, <2>1 DEF Send, WellTyped, TypeOK
  <2>3. sent' \in [Slots -> Nat]
    BY <2>0 DEF Send, WellTyped, TypeOK
  <2>4. job' \in [Slots -> JobPcs]
    BY <1>1 DEF Update, Publish, WellTyped, TypeOK, JobPcs
  <2>5. UNCHANGED <<tasks, lockVars, query, callVars, adminVars, busVars>>
    BY <1>1 DEF Update, Publish
  <2>6. bus' \in BusState /\ bus'.next <= Len(log')
    BY <2>2, <2>5 DEF busVars, WellTyped, TypeOK, BusState
  <2>7. QED
    BY <2>2, <2>3, <2>4, <2>5, <2>6
    DEF WellTyped, TypeOK, SlotsGiven, Known, callVars, adminVars, busVars, lockVars
<1>2. CASE Start(s)
  <2>1. IsLock(QueueRead(taskLock[s], JobOf(s)), Actors)
    BY QueueReadIsLock, ActorTypes DEF WellTyped, TypeOK
  <2>2. DOMAIN taskLock' = Slots /\ \A t \in Slots : IsLock(taskLock'[t], Actors)
    BY <1>2, <2>1, TaskLockType DEF Start, WellTyped
  <2>3. job' \in [Slots -> JobPcs]
    BY <1>2 DEF Start, WellTyped, TypeOK, JobPcs
  <2>4. QED
    BY <1>2, <2>2, <2>3 DEF Start, WellTyped, TypeOK, SlotsGiven, Known, callVars, adminVars, busVars
<1>3. CASE HandlerEnds(s)
  <2>1. IsLock(Leave(taskLock[s], JobOf(s)), Actors)
    BY LeaveIsLock DEF WellTyped, TypeOK
  <2>2. taskLock' = [taskLock EXCEPT ![s] = Leave(@, JobOf(s))]
    BY <1>3 DEF HandlerEnds, HandlerReturns, HandlerPanics
  <2>3. DOMAIN taskLock' = Slots /\ \A t \in Slots : IsLock(taskLock'[t], Actors)
    BY <2>1, <2>2, TaskLockType DEF WellTyped
  <2>4. job' \in [Slots -> JobPcs]
    BY <1>3 DEF HandlerEnds, HandlerReturns, HandlerPanics, WellTyped, TypeOK, JobPcs
  <2>5. UNCHANGED <<tasks, handlersLock, tasksLock, query, callVars, adminVars, sent, log, busVars>>
    BY <1>3 DEF HandlerEnds, HandlerReturns, HandlerPanics
  <2>6. QED
    BY <2>3, <2>4, <2>5 DEF WellTyped, TypeOK, SlotsGiven, Known, callVars, adminVars, busVars
<1>4. QED
  BY <1>1, <1>2, <1>3 DEF JobStep

LEMMA TypeBus ==
  ASSUME WellTyped, BusStep
  PROVE  WellTyped'
<1> USE DEF WellTyped, TypeOK, SlotsGiven, Known, callVars, adminVars, jobVars
<1>1. CASE BusReceive
  <2>1. IsLock(tasksLock', Actors)
    BY <1>1, QueueReadIsLock, ActorTypes DEF BusReceive
  <2>2. bus.next + 1 \in 1 .. Len(log)
    BY <1>1 DEF BusReceive, Receivable, Pending, BusState
  <2>3. log[bus.next + 1] \in Message
    BY <2>2
  <2>4. bus' \in BusState /\ bus'.next <= Len(log') /\ bus'.slot \in Slots
    BY <1>1, <2>2, <2>3 DEF BusReceive, Holding, BusState, BusPcs, Message
  <2>5. QED
    BY <1>1, <2>1, <2>4 DEF BusReceive
<1>2. CASE BusLag
  <2>1. /\ bus.next \in Nat /\ Len(log) \in Nat /\ Capacity \in Nat
        /\ Oldest(log, Capacity) \in Nat /\ Oldest(log, Capacity) <= Len(log)
    BY <1>2, CapacityAssumption DEF BusLag, Lagged, Oldest, BusState
  <2>2. bus' \in BusState /\ bus'.next <= Len(log') /\ bus'.pc = "recv"
    BY <1>2, <2>1 DEF BusLag, Resume, BusState, BusPcs
  <2>3. lost' \subseteq Nat
    BY <1>2, <2>1 DEF BusLag
  <2>4. QED
    BY <1>2, <2>2, <2>3 DEF BusLag, lockVars
<1>3. CASE BusLookup
  <2>1. bus.slot \in Slots /\ IsLock(taskLock[bus.slot], Actors)
    BY <1>3 DEF BusLookup
  <2>2. IsLock(QueueWrite(taskLock[bus.slot], BusReader), Actors)
    BY <2>1, QueueWriteIsLock, ActorTypes
  <2>3. DOMAIN taskLock' = Slots /\ \A t \in Slots : IsLock(taskLock'[t], Actors)
    BY <1>3, <2>1, <2>2, TaskLockType DEF BusLookup, BusQueues
  <2>4. IsLock(tasksLock', Actors)
    BY <1>3, LeaveIsLock DEF BusLookup
  <2>5. bus' \in BusState /\ bus'.next <= Len(log') /\ bus'.slot \in Slots
    BY <1>3, <2>1 DEF BusLookup, BusState, BusPcs
  <2>6. QED
    BY <1>3, <2>3, <2>4, <2>5 DEF BusLookup
<1>4. CASE BusRecord
  <2>1. bus.slot \in Slots /\ bus.n \in Nat /\ IsLock(taskLock[bus.slot], Actors)
    BY <1>4 DEF BusRecord, BusState
  <2>2. IsLock(Leave(taskLock[bus.slot], BusReader), Actors)
    BY <2>1, LeaveIsLock
  <2>3. DOMAIN taskLock' = Slots /\ \A t \in Slots : IsLock(taskLock'[t], Actors)
    BY <1>4, <2>1, <2>2, TaskLockType DEF BusRecord
  <2>4. IsLock(tasksLock', Actors)
    BY <1>4, LeaveIsLock DEF BusRecord
  <2>5. bus' \in BusState /\ bus'.next <= Len(log') /\ bus'.pc = "recv"
    BY <1>4 DEF BusRecord, BusState, BusPcs
  <2>6. /\ DOMAIN tasks' = DOMAIN tasks
        /\ DOMAIN tasks' \subseteq Slots /\ tasks' \in [DOMAIN tasks' -> Nat]
    BY <1>4, <2>1 DEF BusRecord, Recording
  <2>7. QED
    BY <1>4, <2>3, <2>4, <2>5, <2>6 DEF BusRecord
<1>5. QED
  BY <1>1, <1>2, <1>3, <1>4 DEF BusStep

LEMMA TypeQuery ==
  ASSUME WellTyped, NEW q \in Queries, QueryStep(q) \/ \E s \in Slots : Ask(q, s)
  PROVE  WellTyped'
<1> USE DEF WellTyped, TypeOK, SlotsGiven, Known, callVars, adminVars, jobVars, busVars
<1>1. CASE \E s \in Slots : Ask(q, s)
  <2>1. PICK s \in Slots : Ask(q, s)
    BY <1>1
  <2>2. IsLock(tasksLock', Actors)
    BY <2>1, QueueReadIsLock, ActorTypes DEF Ask
  <2>3. [pc |-> "lookup", slot |-> s, n |-> 0] \in QueryState
    BY DEF QueryState, QueryPcs
  <2>4. /\ query' \in [Queries -> QueryState]
        /\ \A p \in Queries : query'[p].pc # "idle" => query'[p].slot \in Slots
        /\ \A p \in Queries : query'[p].pc = "reading" => query'[p].slot \in DOMAIN tasks
    BY <2>1, <2>3 DEF Ask
  <2>5. QED
    BY <2>1, <2>2, <2>4 DEF Ask
<1>2. CASE AskTask(q)
  <2>1. query[q] \in QueryState /\ query[q].slot \in Slots
    BY <1>2 DEF AskTask
  <2>2. IsLock(QueueRead(taskLock[query[q].slot], QueryOf(q)), Actors)
    BY <2>1, QueueReadIsLock, ActorTypes
  <2>3. DOMAIN taskLock' = Slots /\ \A t \in Slots : IsLock(taskLock'[t], Actors)
    BY <1>2, <2>1, <2>2, TaskLockType DEF AskTask
  <2>4. /\ query' \in [Queries -> QueryState]
        /\ \A p \in Queries : query'[p].pc # "idle" => query'[p].slot \in Slots
        /\ \A p \in Queries : query'[p].pc = "reading" => query'[p].slot \in DOMAIN tasks
    BY <1>2, <2>1 DEF AskTask, QueryState, QueryPcs
  <2>5. QED
    BY <1>2, <2>3, <2>4 DEF AskTask
<1>3. CASE AskUnknown(q)
  <2>1. query[q] \in QueryState /\ query[q].slot \in Slots
    BY <1>3 DEF AskUnknown
  <2>2. IsLock(tasksLock', Actors)
    BY <1>3, LeaveIsLock DEF AskUnknown
  <2>3. /\ query' \in [Queries -> QueryState]
        /\ \A p \in Queries : query'[p].pc # "idle" => query'[p].slot \in Slots
        /\ \A p \in Queries : query'[p].pc = "reading" => query'[p].slot \in DOMAIN tasks
    BY <1>3, <2>1 DEF AskUnknown, TellUnknown, QueryState, QueryPcs
  <2>4. QED
    BY <1>3, <2>2, <2>3 DEF AskUnknown
<1>4. CASE Answer(q)
  <2>1. query[q] \in QueryState /\ query[q].slot \in Slots
    BY <1>4 DEF Answer
  <2>2. tasks[query[q].slot] \in Nat
    BY <1>4 DEF Answer, Known
  <2>3. IsLock(tasksLock', Actors)
    BY <1>4, LeaveIsLock DEF Answer
  <2>4. IsLock(Leave(taskLock[query[q].slot], QueryOf(q)), Actors)
    BY <2>1, LeaveIsLock
  <2>5. DOMAIN taskLock' = Slots /\ \A t \in Slots : IsLock(taskLock'[t], Actors)
    BY <1>4, <2>1, <2>4, TaskLockType DEF Answer
  <2>6. /\ query' \in [Queries -> QueryState]
        /\ \A p \in Queries : query'[p].pc # "idle" => query'[p].slot \in Slots
        /\ \A p \in Queries : query'[p].pc = "reading" => query'[p].slot \in DOMAIN tasks
    BY <1>4, <2>1, <2>2 DEF Answer, QueryState, QueryPcs
  <2>7. QED
    BY <1>4, <2>3, <2>5, <2>6 DEF Answer
<1>5. QED
  BY <1>1, <1>2, <1>3, <1>4 DEF QueryStep

LEMMA TypeNext == WellTyped /\ [Next]_vars => WellTyped'
<1> SUFFICES ASSUME WellTyped, [Next]_vars PROVE WellTyped'
  OBVIOUS
<1>1. CASE UNCHANGED vars
  BY <1>1 DEF vars, WellTyped, TypeOK, SlotsGiven, Known
<1>2. CASE Idle
  BY <1>1, <1>2 DEF Idle
<1>3. QED
  BY <1>1, <1>2, TypeAdmin, TypeAssign, TypeCall, TypeJob, TypeBus, TypeQuery DEF Next

(* The executor's state always has its type; in particular, a reader that  *)
(* the bus has overrun goes on at a message that exists.                   *)
THEOREM TypeCorrect == Spec => []TypeOK
<1>1. WellTyped => TypeOK
  BY DEF WellTyped
<1>2. QED
  BY <1>1, TypeInitial, TypeNext, PTL DEF Spec

----------------------------------------------------------------------------
(* The table, the bus and the calls agree on the slots.                    *)

Busy == {"seeking", "inserting", "accepted", "refused"}

\* A slot is given to one call, and has no task before that call inserts it.
SlotsOnce ==
  /\ \A c \in Calls : call[c].pc \in Busy => call[c].slot \in slots
  /\ \A c \in Calls : call[c].pc \in {"idle", "panicked"} => call[c].slot = NoSlot
  /\ \A c, d \in Calls :
       call[c].pc \in Busy /\ call[d].pc \in Busy /\ c # d => call[c].slot # call[d].slot
  /\ \A c \in Calls : call[c].pc \in {"seeking", "inserting"} => ~Known(call[c].slot)
  /\ DOMAIN tasks \subseteq slots

\* Only closures that have started send, and their messages are numbered in
\* the order they were sent.
LogSound ==
  /\ \A s \in Slots : job[s] # "none" => Known(s)
  /\ \A s \in Slots : job[s] \in {"none", "spawned"} => sent[s] = 0
  /\ \A i \in 1 .. Len(log) :
       Known(log[i].slot) /\ 1 <= log[i].n /\ log[i].n <= sent[log[i].slot]
  /\ \A i, j \in 1 .. Len(log) :
       i < j /\ log[i].slot = log[j].slot => log[i].n < log[j].n

\* The reader holds the message it received last.
BusSound ==
  /\ lost \subseteq 1 .. bus.next
  /\ bus.pc # "recv" =>
       /\ bus.next \in 1 .. Len(log)
       /\ bus.next \notin lost
       /\ bus.slot = log[bus.next].slot
       /\ bus.n = log[bus.next].n

TableInv == SlotsOnce /\ LogSound /\ BusSound /\ LastRecorded

LEMMA TableInitial == Init => TableInv
  BY DEF Init, TableInv, SlotsOnce, LogSound, BusSound, LastRecorded, Known, Busy

\* A step that none of this depends on.
LEMMA TableSame ==
  ASSUME TableInv, UNCHANGED <<slots, tasks, call, sent, log, bus, lost>>,
         \A s \in Slots :
           \/ job'[s] = job[s]
           \/ job[s] \notin {"none", "spawned"} /\ job'[s] \notin {"none", "spawned"}
           \/ job[s] = "spawned" /\ job'[s] # "none"
  PROVE  TableInv'
<1>1. SlotsOnce'
  BY DEF TableInv, SlotsOnce, Known
<1>2. LogSound'
  BY DEF TableInv, LogSound, Known
<1>3. BusSound'
  BY DEF TableInv, BusSound
<1>4. LastRecorded'
  BY DEF TableInv, LastRecorded, RecordedOf, Handled
<1>5. QED
  BY <1>1, <1>2, <1>3, <1>4 DEF TableInv

LEMMA TableAssign ==
  ASSUME WellTyped, TableInv, NEW c \in Calls, NEW m \in Methods, NEW s \in Slots,
         AssignSlot(c, m, s)
  PROVE  TableInv'
<1>1. /\ call'[c] = [pc |-> "seeking", method |-> m, slot |-> s]
      /\ \A d \in Calls \ {c} : call'[d] = call[d]
      /\ slots' = slots \cup {s} /\ s \notin slots /\ tasks' = tasks
  BY DEF AssignSlot, FreeSlot, WellTyped, TypeOK
<1>2. SlotsOnce'
  BY <1>1 DEF TableInv, SlotsOnce, Known, Busy
<1>3. LogSound'
  BY DEF AssignSlot, TableInv, LogSound, Known, jobVars
<1>4. BusSound'
  BY DEF AssignSlot, TableInv, BusSound, jobVars, busVars
<1>5. LastRecorded'
  BY DEF AssignSlot, TableInv, LastRecorded, RecordedOf, Handled, jobVars, busVars
<1>6. QED
  BY <1>2, <1>3, <1>4, <1>5 DEF TableInv

\* The steps of a call that end it, or take it to its insertion.
LEMMA TableCallPc ==
  ASSUME WellTyped, TableInv, NEW c \in Calls, OutOfSlots(c) \/ FindHandler(c) \/ NoHandler(c)
  PROVE  TableInv'
<1>1. /\ call'[c].slot = call[c].slot
      /\ \/ call[c].pc = "idle" /\ call'[c].pc = "panicked"
         \/ call[c].pc = "seeking" /\ call'[c].pc \in {"inserting", "refused"}
      /\ \A d \in Calls \ {c} : call'[d] = call[d]
  BY DEF OutOfSlots, FindHandler, NoHandler, WellTyped, TypeOK, CallState
<1>2. UNCHANGED <<slots, tasks, job, sent, log, bus, lost>>
  BY DEF OutOfSlots, FindHandler, NoHandler, jobVars, busVars
<1>3. SlotsOnce'
  BY <1>1, <1>2 DEF TableInv, SlotsOnce, Known, Busy
<1>4. LogSound' /\ BusSound'
  BY <1>2 DEF TableInv, LogSound, BusSound, Known
<1>5. LastRecorded'
  BY <1>2 DEF TableInv, LastRecorded, RecordedOf, Handled
<1>6. QED
  BY <1>3, <1>4, <1>5 DEF TableInv

LEMMA TableInsert ==
  ASSUME WellTyped, TableInv, NEW c \in Calls, Insert(c)
  PROVE  TableInv'
<1> DEFINE s == call[c].slot
<1>1. /\ call[c].slot = s /\ call'[c].slot = s
      /\ call[c].pc = "inserting" /\ call'[c].pc = "accepted"
      /\ \A d \in Calls \ {c} : call'[d] = call[d]
      /\ s \in Slots /\ s \in slots /\ ~Known(s)
  BY DEF Insert, WellTyped, TypeOK, SlotsGiven, CallState, TableInv, SlotsOnce, Busy
<1>2. /\ DOMAIN tasks' = DOMAIN tasks \cup {s}
      /\ tasks'[s] = 0 /\ \A t \in DOMAIN tasks : tasks'[t] = tasks[t]
  BY <1>1 DEF Insert, WithTask, Known
<1>3. job'[s] = "spawned" /\ \A t \in Slots \ {s} : job'[t] = job[t]
  BY <1>1 DEF Insert, WellTyped, TypeOK
<1>4. UNCHANGED <<slots, sent, log, bus, lost>>
  BY DEF Insert, busVars
<1> HIDE DEF s
<1>5. SlotsOnce'
  BY <1>1, <1>2, <1>4 DEF TableInv, SlotsOnce, Known, Busy
<1>6. LogSound'
  BY <1>1, <1>2, <1>3, <1>4 DEF TableInv, LogSound, Known
<1>7. BusSound'
  BY <1>4 DEF TableInv, BusSound
<1>8. \A t : RecordedOf(t)' = RecordedOf(t)
  BY <1>4 DEF RecordedOf, Handled
<1>9. Handled \subseteq 1 .. Len(log)
  BY DEF Handled, WellTyped, TypeOK, BusState
<1>10. RecordedOf(s) = {}
  BY <1>1, <1>9 DEF RecordedOf, TableInv, LogSound
<1>11. LastRecorded'
  BY <1>2, <1>8, <1>10 DEF TableInv, LastRecorded
<1>12. QED
  BY <1>5, <1>6, <1>7, <1>11 DEF TableInv

LEMMA LogType ==
  ASSUME WellTyped, NEW i \in 1 .. Len(log)
  PROVE  log[i].slot \in Slots /\ log[i].n \in Nat
<1>1. log \in Seq(Message)
  BY DEF WellTyped, TypeOK
<1>2. log[i] \in Message
  BY <1>1, ElementOfSeq
<1>3. QED
  BY <1>2 DEF Message

\* A message is sent.
LEMMA TableSend ==
  ASSUME WellTyped, TableInv, NEW s \in Slots, Send(s),
         job[s] \notin {"none", "spawned"}, job' \in [Slots -> JobPcs],
         job'[s] \notin {"none", "spawned"}, \A t \in Slots \ {s} : job'[t] = job[t],
         UNCHANGED <<slots, tasks, call, bus, lost>>
  PROVE  TableInv'
<1> DEFINE m == [slot |-> s, n |-> sent[s] + 1]
<1>1. /\ m.slot = s /\ m.n = sent[s] + 1 /\ sent[s] \in Nat /\ Known(s)
  BY DEF WellTyped, TypeOK, TableInv, LogSound
<1>2. /\ Len(log') = Len(log) + 1 /\ Len(log) \in Nat
      /\ log'[Len(log) + 1] = m
      /\ \A i \in 1 .. Len(log) : log'[i] = log[i]
  BY DEF Send, WellTyped, TypeOK
<1>3. sent'[s] = sent[s] + 1 /\ \A t \in Slots \ {s} : sent'[t] = sent[t]
  BY DEF Send, WellTyped, TypeOK
<1>4. ASSUME NEW i \in 1 .. Len(log)
      PROVE  log[i].slot \in Slots /\ log[i].n \in Nat
  BY LogType
<1> HIDE DEF m
<1>5. SlotsOnce'
  BY DEF TableInv, SlotsOnce, Known
<1>6. LogSound'
  <2>1. \A t \in Slots : job'[t] # "none" => Known(t)'
    BY <1>1 DEF TableInv, LogSound, Known
  <2>2. \A t \in Slots : job'[t] \in {"none", "spawned"} => sent'[t] = 0
    BY <1>3 DEF TableInv, LogSound
  <2>3. ASSUME NEW i \in 1 .. Len(log')
        PROVE  /\ log'[i].slot \in DOMAIN tasks'
               /\ 1 <= log'[i].n /\ log'[i].n <= sent'[log'[i].slot]
    <3>1. CASE i = Len(log) + 1
      BY <1>1, <1>2, <1>3, <3>1 DEF Known
    <3>2. CASE i \in 1 .. Len(log)
      <4>1. Known(log[i].slot) /\ 1 <= log[i].n /\ log[i].n <= sent[log[i].slot]
        BY <3>2 DEF TableInv, LogSound
      <4>2. \A t \in Slots :
              sent[t] \in Nat /\ sent'[t] \in Nat /\ sent[t] <= sent'[t]
        BY <1>3 DEF WellTyped, TypeOK
      <4>3. QED
        BY <1>2, <1>4, <3>2, <4>1, <4>2 DEF Known
    <3>3. QED
      BY <1>2, <3>1, <3>2
  <2>4. ASSUME NEW i \in 1 .. Len(log'), NEW j \in 1 .. Len(log'),
               i < j, log'[i].slot = log'[j].slot
        PROVE  log'[i].n < log'[j].n
    <3>1. i \in 1 .. Len(log) /\ log'[i] = log[i]
      BY <1>2, <2>4
    <3>2. CASE j \in 1 .. Len(log)
      BY <1>2, <2>4, <3>1, <3>2 DEF TableInv, LogSound
    <3>3. CASE j = Len(log) + 1
      <4>1. log[i].slot = s /\ log'[j].n = sent[s] + 1
        BY <1>1, <1>2, <2>4, <3>1, <3>3
      <4>2. log[i].n <= sent[s]
        BY <3>1, <4>1 DEF TableInv, LogSound
      <4>3. QED
        BY <1>1, <1>4, <3>1, <4>1, <4>2
    <3>4. QED
      BY <1>2, <3>2, <3>3
  <2>5. QED
    BY <2>1, <2>2, <2>3, <2>4 DEF LogSound, Known
<1>7. BusSound'
  BY <1>2 DEF TableInv, BusSound
<1>8. LastRecorded'
  <2>1. Handled' = Handled /\ Handled \subseteq 1 .. Len(log)
    BY DEF Handled, WellTyped, TypeOK, BusState
  <2>2. \A t : RecordedOf(t)' = RecordedOf(t)
    BY <1>2, <2>1 DEF RecordedOf
  <2>3. QED
    BY <2>2 DEF TableInv, LastRecorded
<1>9. QED
  BY <1>5, <1>6, <1>7, <1>8 DEF TableInv

LEMMA TableJob ==
  ASSUME WellTyped, TableInv, NEW s \in Slots, JobStep(s) \/ Update(s) \/ HandlerEnds(s)
  PROVE  TableInv'
<1>1. CASE Update(s)
  BY <1>1, TableSend DEF Update, MayReport, InHandler, WellTyped, TypeOK, callVars, busVars
<1>2. CASE Publish(s)
  <2>1. job' = [job EXCEPT ![s] = "done"] /\ job[s] = "returned" /\ Send(s)
    BY <1>2 DEF Publish
  <2>2. job' \in [Slots -> JobPcs] /\ job'[s] = "done" /\ \A t \in Slots \ {s} : job'[t] = job[t]
    BY <2>1 DEF WellTyped, TypeOK, JobPcs
  <2>3. QED
    BY <1>2, <2>1, <2>2, TableSend DEF Publish, callVars, busVars
<1>3. CASE Start(s) \/ HandlerEnds(s)
  <2>1. \A t \in Slots :
          \/ job'[t] = job[t]
          \/ job[t] \notin {"none", "spawned"} /\ job'[t] \notin {"none", "spawned"}
          \/ job[t] = "spawned" /\ job'[t] # "none"
    BY <1>3 DEF Start, HandlerEnds, HandlerReturns, HandlerPanics, InHandler, WellTyped, TypeOK
  <2>2. UNCHANGED <<slots, tasks, call, sent, log, bus, lost>>
    BY <1>3 DEF Start, HandlerEnds, HandlerReturns, HandlerPanics, callVars, busVars
  <2>3. QED
    BY <2>1, <2>2, TableSame
<1>4. QED
  BY <1>1, <1>2, <1>3 DEF JobStep

LEMMA TableBus ==
  ASSUME WellTyped, TableInv, BusStep
  PROVE  TableInv'
<1>1. bus.next \in Nat /\ bus.next <= Len(log) /\ Len(log) \in Nat
  BY DEF WellTyped, TypeOK, BusState
<1>2. UNCHANGED <<slots, call, job, sent, log>> /\ DOMAIN tasks' = DOMAIN tasks
  BY DEF BusStep, BusReceive, BusLag, BusLookup, BusRecord, Recording,
         callVars, jobVars, WellTyped, TypeOK
<1>3. SlotsOnce' /\ LogSound'
  BY <1>2 DEF TableInv, SlotsOnce, LogSound, Known
<1>4. ASSUME tasks' = tasks, \A t \in Slots : RecordedOf(t)' = RecordedOf(t)
      PROVE  LastRecorded'
  BY <1>4 DEF TableInv, LastRecorded, WellTyped, TypeOK
<1>5. CASE BusReceive
  <2>1. /\ bus.pc = "recv" /\ bus'.pc = "lookup" /\ bus'.next = bus.next + 1
        /\ bus'.slot = log[bus.next + 1].slot /\ bus'.n = log[bus.next + 1].n
        /\ bus.next + 1 <= Len(log) /\ lost' = lost /\ tasks' = tasks
    BY <1>1, <1>5 DEF BusReceive, Holding, Receivable, Pending
  <2>2. BusSound'
    BY <1>1, <1>2, <2>1 DEF TableInv, BusSound
  <2>3. Handled' = Handled
    BY <1>1, <2>1 DEF Handled
  <2>4. LastRecorded'
    BY <1>2, <1>4, <2>1, <2>3 DEF RecordedOf
  <2>5. QED
    BY <1>3, <2>2, <2>4 DEF TableInv
<1>6. CASE BusLag
  <2> DEFINE old == Oldest(log, Capacity)
  <2>1. /\ bus.pc = "recv" /\ bus'.pc = "recv" /\ bus'.next = old
        /\ lost' = lost \cup (bus.next + 1 .. old) /\ tasks' = tasks
    BY <1>6 DEF BusLag, Resume, WellTyped, TypeOK, BusState
  <2>2. old \in Nat /\ bus.next < old /\ old <= Len(log)
    BY <1>1, <1>6, CapacityAssumption DEF BusLag, Lagged, Oldest
  <2> HIDE DEF old
  <2>3. BusSound'
    <3>1. lost \subseteq 1 .. bus.next
      BY DEF TableInv, BusSound
    <3>2. lost' \subseteq 1 .. old
      <4>1. 1 .. bus.next \subseteq 1 .. old /\ bus.next + 1 .. old \subseteq 1 .. old
        BY <1>1, <2>2
      <4>2. QED
        BY <2>1, <3>1, <4>1
    <3>3. QED
      BY <2>1, <3>2 DEF BusSound
  <2>4. \A j : j \in Handled' /\ j \notin lost' <=> j \in Handled /\ j \notin lost
    BY <1>1, <2>1, <2>2 DEF Handled, TableInv, BusSound
  <2>5. \A t : RecordedOf(t)' = RecordedOf(t)
    BY <1>2, <2>4 DEF RecordedOf
  <2>6. QED
    BY <1>3, <1>4, <2>1, <2>3, <2>5 DEF TableInv
<1>7. CASE BusLookup
  <2>1. bus.pc = "lookup" /\ bus.slot = log[bus.next].slot /\ bus.next \in 1 .. Len(log)
    BY <1>7 DEF BusLookup, TableInv, BusSound
  <2>2. Known(bus.slot)
    BY <2>1 DEF TableInv, LogSound
  <2>3. bus' = [bus EXCEPT !.pc = "record"] /\ tasks' = tasks /\ lost' = lost
    BY <1>7, <2>2 DEF BusLookup
  <2>4. bus'.pc = "record" /\ bus'.next = bus.next /\ bus'.slot = bus.slot /\ bus'.n = bus.n
    BY <2>3 DEF WellTyped, TypeOK, BusState
  <2>5. BusSound'
    BY <1>2, <2>1, <2>3, <2>4 DEF TableInv, BusSound
  <2>6. \A t : RecordedOf(t)' = RecordedOf(t)
    BY <1>2, <2>1, <2>3, <2>4 DEF RecordedOf, Handled
  <2>7. QED
    BY <1>3, <1>4, <2>3, <2>5, <2>6 DEF TableInv
<1>8. CASE BusRecord
  <2> DEFINE s == bus.slot
             n == bus.n
             i == bus.next
  <2>1. /\ bus.pc = "record" /\ bus'.pc = "recv" /\ bus'.next = i /\ lost' = lost
        /\ tasks' = [tasks EXCEPT ![s] = n]
    BY <1>8 DEF BusRecord, Recording, WellTyped, TypeOK, BusState
  <2>2. i \in 1 .. Len(log) /\ i \notin lost /\ s = log[i].slot /\ n = log[i].n
    BY <2>1 DEF TableInv, BusSound
  <2>3. Known(s) /\ n \in Nat
    BY <2>2, LogType DEF TableInv, LogSound
  <2>4. tasks'[s] = n /\ \A t \in DOMAIN tasks \ {s} : tasks'[t] = tasks[t]
    BY <2>1, <2>3 DEF Known
  <2> HIDE DEF s, n, i
  <2>5. BusSound'
    BY <2>1, <2>2 DEF TableInv, BusSound, i
  <2>6. Handled' = 1 .. i /\ Handled = 1 .. i - 1
    BY <2>1 DEF Handled, i
  <2>7. \A j : j \in Handled' <=> j \in Handled \/ j = i
    BY <2>2, <2>6
  <2>8. \A t : RecordedOf(t)' = IF t = s THEN RecordedOf(t) \cup {n} ELSE RecordedOf(t)
    BY <1>2, <2>1, <2>2, <2>7 DEF RecordedOf
  <2>9. \A k \in RecordedOf(s) : k < n
    <3>1. ASSUME NEW j \in Handled, log[j].slot = s PROVE log[j].n < n
      BY <2>2, <2>6, <3>1 DEF TableInv, LogSound
    <3>2. QED
      BY <3>1 DEF RecordedOf
  <2>10. \A k \in RecordedOf(s) : k \in Nat
    <3>1. ASSUME NEW j \in Handled PROVE log[j].n \in Nat
      BY <2>2, <2>6, <3>1, LogType
    <3>2. QED
      BY <3>1 DEF RecordedOf
  <2>11. \A k \in RecordedOf(s) \cup {n} : k <= n
    BY <2>3, <2>9, <2>10
  <2>12. LastRecorded'
    BY <1>2, <2>4, <2>8, <2>11 DEF TableInv, LastRecorded
  <2>13. QED
    BY <1>3, <2>5, <2>12 DEF TableInv
<1>9. QED
  BY <1>5, <1>6, <1>7, <1>8 DEF BusStep

LEMMA TableNext == WellTyped /\ TableInv /\ [Next]_vars => TableInv'
<1> SUFFICES ASSUME WellTyped, TableInv, [Next]_vars PROVE TableInv'
  OBVIOUS
<1>1. CASE UNCHANGED vars
  BY <1>1, TableSame DEF vars
<1>2. CASE HandlerAdded \/ \E m \in Methods : AddHandler(m)
  BY <1>2, TableSame DEF HandlerAdded, AddHandler, callVars, jobVars, busVars
<1>3. CASE \E q \in Queries : QueryStep(q) \/ \E s \in Slots : Ask(q, s)
  BY <1>3, TableSame DEF QueryStep, Ask, AskTask, AskUnknown, Answer, callVars, jobVars, busVars
<1>4. CASE \E c \in Calls : CallStep(c) \/ OutOfSlots(c)
  BY <1>4, TableCallPc, TableInsert DEF CallStep
<1>5. CASE \E c \in Calls, m \in Methods, s \in Slots : AssignSlot(c, m, s)
  BY <1>5, TableAssign
<1>6. CASE \E s \in Slots : JobStep(s) \/ Update(s) \/ HandlerEnds(s)
  BY <1>6, TableJob
<1>7. CASE BusStep
  BY <1>7, TableBus
<1>8. CASE Idle
  BY <1>1, <1>8 DEF Idle
<1>9. QED
  BY <1>1, <1>2, <1>3, <1>4, <1>5, <1>6, <1>7, <1>8 DEF Next

(* Every message on the bus is about a task in the table, and no slot is   *)
(* given twice: the reader's error branch is never taken.                  *)
THEOREM SlotsAreKnown == Spec => []KnownSlot
<1>1. WellTyped /\ TableInv => KnownSlot
  <2> SUFFICES ASSUME WellTyped, TableInv PROVE KnownSlot
    OBVIOUS
  <2>1. bus.pc # "recv" => Known(bus.slot)
    BY DEF TableInv, BusSound, LogSound
  <2>2. \A i \in bus.next + 1 .. Len(log) : Known(log[i].slot)
    <3>1. bus.next \in Nat /\ Len(log) \in Nat
      BY DEF WellTyped, TypeOK, BusState
    <3>2. bus.next + 1 .. Len(log) \subseteq 1 .. Len(log)
      BY <3>1
    <3>3. QED
      BY <3>2 DEF TableInv, LogSound
  <2>3. \A c, d \in Calls : c # d /\ call[c].slot = call[d].slot => call[c].slot = NoSlot
    BY DEF TableInv, SlotsOnce, Busy, WellTyped, TypeOK, CallState, CallPcs
  <2>4. QED
    BY <2>1, <2>2, <2>3 DEF KnownSlot
<1>2. QED
  BY <1>1, TypeInitial, TypeNext, TableInitial, TableNext, PTL DEF Spec

(* A task always holds the latest message of its slot that reached the bus *)
(* reader, for any number of calls, updates and any overrun of the bus.    *)
THEOREM LastIsRecorded == Spec => []LastRecorded
<1>1. TableInv => LastRecorded
  BY DEF TableInv
<1>2. QED
  BY <1>1, TypeInitial, TypeNext, TableInitial, TableNext, PTL DEF Spec

----------------------------------------------------------------------------
(* Who is in the queue of a task's lock.                                   *)

LEMMA ActorsDistinct ==
  /\ \A s : JobOf(s) # BusReader
  /\ \A q : QueryOf(q) # BusReader
  /\ \A s, q : JobOf(s) # QueryOf(q)
  /\ \A p, q : QueryOf(p) = QueryOf(q) => p = q
  BY DEF JobOf, QueryOf, BusReader

\* The closure of a running handler, the bus reader and the queries are in the
\* queue of a task just when they are at that point, the reader as a writer,
\* and the reader is never ahead of the handler.
PlacesOf(s) ==
  /\ FirstComeFirstServed(taskLock[s])
  /\ JobOf(s) \in DOMAIN taskLock[s] <=> job[s] = "running"
  /\ job[s] = "running" => BusReader \notin taskLock[s][JobOf(s)].ahead
  /\ BusReader \in DOMAIN taskLock[s] <=> bus.pc = "record" /\ bus.slot = s
  /\ BusReader \in DOMAIN taskLock[s] => taskLock[s][BusReader].write
  /\ \A q \in Queries : QueryOf(q) \in DOMAIN taskLock[s] <=>
                          query[q].pc = "reading" /\ query[q].slot = s

TaskPlaces == \A s \in Slots : PlacesOf(s)

LEMMA PlacesInitial == Init => TaskPlaces
<1>1. FirstComeFirstServed(Free) /\ DOMAIN Free = {}
  BY DEF Free, FirstComeFirstServed
<1>2. QED
  BY <1>1 DEF Init, TaskPlaces, PlacesOf

\* A step that leaves the queue of s and its actors alone.
LEMMA PlacesSame ==
  ASSUME NEW s \in Slots, PlacesOf(s), taskLock'[s] = taskLock[s],
         job'[s] = "running" <=> job[s] = "running",
         bus'.pc = "record" /\ bus'.slot = s <=> bus.pc = "record" /\ bus.slot = s,
         \A q \in Queries : query'[q].pc = "reading" /\ query'[q].slot = s
                              <=> query[q].pc = "reading" /\ query[q].slot = s
  PROVE  PlacesOf(s)'
  BY DEF PlacesOf

LEMMA PlacesJob ==
  ASSUME WellTyped, TableInv, TaskPlaces, NEW s \in Slots,
         JobStep(s) \/ Update(s) \/ HandlerEnds(s)
  PROVE  TaskPlaces'
<1>1. /\ IsLock(taskLock[s], Actors) /\ FirstComeFirstServed(taskLock[s]) /\ PlacesOf(s)
      /\ UNCHANGED <<query, bus>>
  BY DEF WellTyped, TypeOK, TaskPlaces, PlacesOf, JobStep, Start, Publish, Update,
         HandlerEnds, HandlerReturns, HandlerPanics, busVars
<1>2. ASSUME NEW t \in Slots, t # s PROVE PlacesOf(t)'
  <2>1. job'[t] = job[t] /\ taskLock'[t] = taskLock[t]
    BY <1>2 DEF JobStep, Start, Publish, Update, HandlerEnds, HandlerReturns, HandlerPanics,
                WellTyped, TypeOK, lockVars
  <2>2. QED
    BY <1>1, <2>1, PlacesSame DEF TaskPlaces
<1>3. CASE Update(s) \/ Publish(s)
  <2>1. taskLock'[s] = taskLock[s] /\ (job'[s] = "running" <=> job[s] = "running")
    BY <1>3 DEF Publish, Update, WellTyped, TypeOK, lockVars
  <2>2. QED
    BY <1>1, <1>2, <2>1, PlacesSame DEF TaskPlaces
<1>4. CASE Start(s)
  <2>1. job[s] = "spawned" /\ job'[s] = "running"
        /\ taskLock'[s] = QueueRead(taskLock[s], JobOf(s))
    BY <1>4 DEF Start, WellTyped, TypeOK
  <2>2. JobOf(s) \notin DOMAIN taskLock[s]
    BY <1>1, <2>1 DEF PlacesOf
  <2>3. BusReader \notin DOMAIN taskLock[s]
    <3>1. SUFFICES ASSUME bus.pc = "record", bus.slot = s PROVE FALSE
      BY <1>1 DEF PlacesOf
    <3>2. bus.next \in 1 .. Len(log) /\ log[bus.next].slot = s
      BY <3>1 DEF TableInv, BusSound
    <3>3. 1 <= log[bus.next].n /\ log[bus.next].n <= sent[s] /\ log[bus.next].n \in Nat
      BY <3>2, LogType DEF TableInv, LogSound
    <3>4. sent[s] = 0
      BY <2>1 DEF TableInv, LogSound
    <3>5. QED
      BY <3>3, <3>4
  <2>4. LET lock == QueueRead(taskLock[s], JobOf(s)) IN
          /\ DOMAIN lock = DOMAIN taskLock[s] \cup {JobOf(s)}
          /\ lock[JobOf(s)].ahead = DOMAIN taskLock[s]
          /\ FirstComeFirstServed(lock)
    BY <1>1, <2>2, QueueReadPlaces
  <2>5. /\ DOMAIN taskLock'[s] = DOMAIN taskLock[s] \cup {JobOf(s)}
        /\ taskLock'[s][JobOf(s)].ahead = DOMAIN taskLock[s]
        /\ FirstComeFirstServed(taskLock'[s])
    BY <2>1, <2>4
  <2>6. \A b : b # JobOf(s) => (b \in DOMAIN taskLock'[s] <=> b \in DOMAIN taskLock[s])
    BY <2>5
  <2>7. BusReader \notin DOMAIN taskLock'[s]
    BY <2>3, <2>6, ActorsDistinct
  <2>8. \A q \in Queries : QueryOf(q) \in DOMAIN taskLock'[s] <=>
                            query'[q].pc = "reading" /\ query'[q].slot = s
    BY <1>1, <2>6, ActorsDistinct DEF PlacesOf
  <2>9. PlacesOf(s)'
    BY <1>1, <2>1, <2>3, <2>4, <2>5, <2>7, <2>8 DEF PlacesOf
  <2>10. QED
    BY <1>2, <2>9 DEF TaskPlaces
<1>5. CASE HandlerEnds(s)
  <2>1. job[s] = "running" /\ job'[s] # "running"
        /\ taskLock'[s] = Leave(taskLock[s], JobOf(s))
    BY <1>5 DEF HandlerEnds, HandlerReturns, HandlerPanics, InHandler, WellTyped, TypeOK
  <2>2. FirstComeFirstServed(taskLock'[s])
    BY <1>1, <2>1, LeaveKeepsOrder
  <2>3. /\ DOMAIN taskLock'[s] = DOMAIN taskLock[s] \ {JobOf(s)}
        /\ \A b \in DOMAIN taskLock[s] \ {JobOf(s)} :
             taskLock[s][b].write => taskLock'[s][b].write
    <3>1. LET lock == Leave(taskLock[s], JobOf(s)) IN
            /\ DOMAIN lock = DOMAIN taskLock[s] \ {JobOf(s)}
            /\ \A b \in DOMAIN taskLock[s] \ {JobOf(s)} : taskLock[s][b].write => lock[b].write
      BY <1>1, LeavePlaces
    <3>2. QED
      BY <2>1, <3>1
  <2>4. BusReader \in DOMAIN taskLock'[s] =>
          BusReader \in DOMAIN taskLock[s] /\ taskLock'[s][BusReader].write
    BY <1>1, <2>3, ActorsDistinct DEF PlacesOf
  <2>5. \A q \in Queries : QueryOf(q) \in DOMAIN taskLock'[s] <=>
                            query'[q].pc = "reading" /\ query'[q].slot = s
    BY <1>1, <2>3, ActorsDistinct DEF PlacesOf
  <2>6. BusReader \in DOMAIN taskLock'[s] <=> bus'.pc = "record" /\ bus'.slot = s
    BY <1>1, <2>3, ActorsDistinct DEF PlacesOf
  <2>7. PlacesOf(s)'
    BY <2>1, <2>2, <2>3, <2>4, <2>5, <2>6 DEF PlacesOf
  <2>8. QED
    BY <1>2, <2>7 DEF TaskPlaces
<1>6. QED
  BY <1>3, <1>4, <1>5 DEF JobStep

LEMMA PlacesBus ==
  ASSUME WellTyped, TableInv, TaskPlaces, BusStep
  PROVE  TaskPlaces'
<1>1. UNCHANGED <<job, query>>
  BY DEF BusStep, BusReceive, BusLag, BusLookup, BusRecord, jobVars
<1>2. CASE BusReceive \/ BusLag
  <2>1. taskLock' = taskLock /\ bus.pc # "record" /\ bus'.pc # "record"
    BY <1>2 DEF BusReceive, Holding, BusLag, lockVars, WellTyped, TypeOK, BusState
  <2>2. QED
    BY <1>1, <2>1, PlacesSame DEF TaskPlaces
<1>3. CASE BusLookup
  <2>0. PICK s \in Slots : s = bus.slot
    BY <1>3 DEF BusLookup, WellTyped, SlotsGiven
  <2>1. bus.pc = "lookup" /\ Known(s)
    BY <1>3, <2>0 DEF BusLookup, TableInv, BusSound, LogSound
  <2>2. /\ bus'.pc = "record" /\ bus'.slot = s
        /\ taskLock' = [taskLock EXCEPT ![s] = QueueWrite(@, BusReader)]
    BY <1>3, <2>0, <2>1 DEF BusLookup, BusQueues, WellTyped, TypeOK, BusState
  <2>3. /\ taskLock'[s] = QueueWrite(taskLock[s], BusReader)
        /\ \A t \in Slots \ {s} : taskLock'[t] = taskLock[t]
    BY <2>1, <2>2 DEF WellTyped, TypeOK
  <2>4. PlacesOf(s) /\ FirstComeFirstServed(taskLock[s]) /\ BusReader \notin DOMAIN taskLock[s]
    BY <2>1 DEF TaskPlaces, PlacesOf
  <2>5. LET lock == QueueWrite(taskLock[s], BusReader) IN
          /\ DOMAIN lock = DOMAIN taskLock[s] \cup {BusReader}
          /\ lock[BusReader].write
          /\ \A b \in DOMAIN taskLock[s] : lock[b] = taskLock[s][b]
          /\ FirstComeFirstServed(lock)
    BY <2>4, QueueWritePlaces
  <2>6. /\ DOMAIN taskLock'[s] = DOMAIN taskLock[s] \cup {BusReader}
        /\ taskLock'[s][BusReader].write
        /\ \A b \in DOMAIN taskLock[s] : taskLock'[s][b] = taskLock[s][b]
        /\ FirstComeFirstServed(taskLock'[s])
    BY <2>3, <2>5
  <2>7. /\ JobOf(s) \in DOMAIN taskLock'[s] <=> job[s] = "running"
        /\ job[s] = "running" => BusReader \notin taskLock'[s][JobOf(s)].ahead
    BY <2>4, <2>6, ActorsDistinct DEF PlacesOf
  <2>8. \A q \in Queries : QueryOf(q) \in DOMAIN taskLock'[s] <=>
                            query[q].pc = "reading" /\ query[q].slot = s
    BY <2>4, <2>6, ActorsDistinct DEF PlacesOf
  <2>9. PlacesOf(s)'
    BY <1>1, <2>2, <2>6, <2>7, <2>8 DEF PlacesOf
  <2>10. ASSUME NEW t \in Slots, t # s PROVE PlacesOf(t)'
    BY <1>1, <2>1, <2>2, <2>3, <2>10, PlacesSame DEF TaskPlaces
  <2>11. QED
    BY <2>9, <2>10 DEF TaskPlaces
<1>4. CASE BusRecord
  <2>0. PICK s \in Slots : s = bus.slot
    BY <1>4 DEF BusRecord, WellTyped, SlotsGiven
  <2>1. /\ bus.pc = "record" /\ bus'.pc = "recv"
        /\ taskLock' = [taskLock EXCEPT ![s] = Leave(@, BusReader)]
    BY <1>4, <2>0 DEF BusRecord, WellTyped, TypeOK, BusState
  <2>2. /\ taskLock'[s] = Leave(taskLock[s], BusReader)
        /\ \A t \in Slots \ {s} : taskLock'[t] = taskLock[t]
    BY <2>1 DEF WellTyped, TypeOK
  <2>3. PlacesOf(s) /\ FirstComeFirstServed(taskLock[s]) /\ IsLock(taskLock[s], Actors)
    BY <2>1 DEF TaskPlaces, PlacesOf, WellTyped, TypeOK
  <2>4. /\ DOMAIN Leave(taskLock[s], BusReader) = DOMAIN taskLock[s] \ {BusReader}
        /\ \A b \in DOMAIN taskLock[s] \ {BusReader} :
             Leave(taskLock[s], BusReader)[b].ahead = taskLock[s][b].ahead \ {BusReader}
    BY <2>3 DEF Leave, IsLock
  <2>5. /\ DOMAIN taskLock'[s] = DOMAIN taskLock[s] \ {BusReader}
        /\ \A b \in DOMAIN taskLock[s] \ {BusReader} :
             taskLock'[s][b].ahead = taskLock[s][b].ahead \ {BusReader}
        /\ FirstComeFirstServed(taskLock'[s])
    BY <2>2, <2>3, <2>4, LeaveKeepsOrder
  <2>6. /\ JobOf(s) \in DOMAIN taskLock'[s] <=> job[s] = "running"
        /\ job[s] = "running" => BusReader \notin taskLock'[s][JobOf(s)].ahead
    BY <2>3, <2>5, ActorsDistinct DEF PlacesOf
  <2>7. \A q \in Queries : QueryOf(q) \in DOMAIN taskLock'[s] <=>
                            query[q].pc = "reading" /\ query[q].slot = s
    BY <2>3, <2>5, ActorsDistinct DEF PlacesOf
  <2>8. PlacesOf(s)'
    BY <1>1, <2>1, <2>5, <2>6, <2>7 DEF PlacesOf
  <2>9. ASSUME NEW t \in Slots, t # s PROVE PlacesOf(t)'
    BY <1>1, <2>0, <2>1, <2>2, <2>9, PlacesSame DEF TaskPlaces
  <2>10. QED
    BY <2>8, <2>9 DEF TaskPlaces
<1>5. QED
  BY <1>2, <1>3, <1>4 DEF BusStep

LEMMA PlacesQuery ==
  ASSUME WellTyped, TableInv, TaskPlaces, NEW q \in Queries,
         QueryStep(q) \/ \E s \in Slots : Ask(q, s)
  PROVE  TaskPlaces'
<1>1. /\ UNCHANGED <<job, bus>>
      /\ \A p \in Queries \ {q} : query'[p] = query[p]
  BY DEF QueryStep, Ask, AskTask, AskUnknown, TellUnknown, Answer,
         jobVars, busVars, WellTyped, TypeOK
<1>2. CASE AskUnknown(q) \/ \E s \in Slots : Ask(q, s)
  <2>1. taskLock' = taskLock /\ query[q].pc # "reading" /\ query'[q].pc # "reading"
    BY <1>2 DEF AskUnknown, TellUnknown, Ask, WellTyped, TypeOK, QueryState
  <2>2. QED
    BY <1>1, <2>1, PlacesSame DEF TaskPlaces
<1>3. CASE AskTask(q)
  <2>0. PICK s \in Slots : s = query[q].slot
    BY <1>3 DEF AskTask, WellTyped, SlotsGiven, Known, TypeOK
  <2>1. /\ query[q].pc = "lookup" /\ query'[q].pc = "reading" /\ query'[q].slot = s
        /\ taskLock' = [taskLock EXCEPT ![s] = QueueRead(@, QueryOf(q))]
    BY <1>3, <2>0 DEF AskTask, WellTyped, TypeOK, QueryState
  <2>2. /\ taskLock'[s] = QueueRead(taskLock[s], QueryOf(q))
        /\ \A t \in Slots \ {s} : taskLock'[t] = taskLock[t]
    BY <2>1 DEF WellTyped, TypeOK
  <2>3. PlacesOf(s) /\ FirstComeFirstServed(taskLock[s]) /\ QueryOf(q) \notin DOMAIN taskLock[s]
    BY <2>1 DEF TaskPlaces, PlacesOf
  <2>4. LET lock == QueueRead(taskLock[s], QueryOf(q)) IN
          /\ DOMAIN lock = DOMAIN taskLock[s] \cup {QueryOf(q)}
          /\ \A b \in DOMAIN taskLock[s] : lock[b] = taskLock[s][b]
          /\ FirstComeFirstServed(lock)
    BY <2>3, QueueReadPlaces, ZenonT(30)
  <2>5. /\ DOMAIN taskLock'[s] = DOMAIN taskLock[s] \cup {QueryOf(q)}
        /\ \A b \in DOMAIN taskLock[s] : taskLock'[s][b] = taskLock[s][b]
        /\ FirstComeFirstServed(taskLock'[s])
    BY <2>2, <2>4
  <2>6. /\ JobOf(s) \in DOMAIN taskLock'[s] <=> job[s] = "running"
        /\ job[s] = "running" => BusReader \notin taskLock'[s][JobOf(s)].ahead
        /\ BusReader \in DOMAIN taskLock'[s] <=> bus.pc = "record" /\ bus.slot = s
        /\ BusReader \in DOMAIN taskLock'[s] => taskLock'[s][BusReader].write
    BY <2>3, <2>5, ActorsDistinct DEF PlacesOf
  <2>7. \A p \in Queries : QueryOf(p) \in DOMAIN taskLock'[s] <=>
                            query'[p].pc = "reading" /\ query'[p].slot = s
    BY <1>1, <2>1, <2>3, <2>5, ActorsDistinct DEF PlacesOf
  <2>8. PlacesOf(s)'
    BY <1>1, <2>5, <2>6, <2>7 DEF PlacesOf
  <2>9. ASSUME NEW t \in Slots, t # s PROVE PlacesOf(t)'
    BY <1>1, <2>1, <2>2, <2>9, PlacesSame DEF TaskPlaces
  <2>10. QED
    BY <2>8, <2>9 DEF TaskPlaces
<1>4. CASE Answer(q)
  <2>0. PICK s \in Slots : s = query[q].slot
    BY <1>4 DEF Answer, WellTyped, SlotsGiven
  <2>1. /\ query[q].pc = "reading" /\ query'[q].pc = "answered"
        /\ taskLock' = [taskLock EXCEPT ![s] = Leave(@, QueryOf(q))]
    BY <1>4, <2>0 DEF Answer, WellTyped, TypeOK, QueryState
  <2>2. /\ taskLock'[s] = Leave(taskLock[s], QueryOf(q))
        /\ \A t \in Slots \ {s} : taskLock'[t] = taskLock[t]
    BY <2>1 DEF WellTyped, TypeOK
  <2>3. PlacesOf(s) /\ FirstComeFirstServed(taskLock[s]) /\ IsLock(taskLock[s], Actors)
    BY <2>1 DEF TaskPlaces, PlacesOf, WellTyped, TypeOK
  <2>4. /\ DOMAIN Leave(taskLock[s], QueryOf(q)) = DOMAIN taskLock[s] \ {QueryOf(q)}
        /\ \A b \in DOMAIN taskLock[s] \ {QueryOf(q)} :
             /\ Leave(taskLock[s], QueryOf(q))[b].ahead = taskLock[s][b].ahead \ {QueryOf(q)}
             /\ Leave(taskLock[s], QueryOf(q))[b].write = taskLock[s][b].write
    <3>1. ASSUME NEW b \in DOMAIN taskLock[s] \ {QueryOf(q)}
          PROVE  Leave(taskLock[s], QueryOf(q))[b]
                   = [taskLock[s][b] EXCEPT !.ahead = @ \ {QueryOf(q)}]
      BY DEF Leave
    <3>2. \A b \in DOMAIN taskLock[s] : taskLock[s][b] \in [write : BOOLEAN, ahead : SUBSET Actors]
      BY <2>3 DEF IsLock
    <3>3. QED
      BY <3>1, <3>2 DEF Leave
  <2>5. /\ DOMAIN taskLock'[s] = DOMAIN taskLock[s] \ {QueryOf(q)}
        /\ \A b \in DOMAIN taskLock[s] \ {QueryOf(q)} :
             /\ taskLock'[s][b].ahead = taskLock[s][b].ahead \ {QueryOf(q)}
             /\ taskLock'[s][b].write = taskLock[s][b].write
        /\ FirstComeFirstServed(taskLock'[s])
    BY <2>2, <2>3, <2>4, LeaveKeepsOrder
  <2>6. /\ JobOf(s) \in DOMAIN taskLock'[s] <=> job[s] = "running"
        /\ job[s] = "running" => BusReader \notin taskLock'[s][JobOf(s)].ahead
    BY <2>3, <2>5, ActorsDistinct DEF PlacesOf
  <2>7. /\ BusReader \in DOMAIN taskLock'[s] <=> bus.pc = "record" /\ bus.slot = s
        /\ BusReader \in DOMAIN taskLock'[s] => taskLock'[s][BusReader].write
    BY <2>3, <2>5, ActorsDistinct DEF PlacesOf
  <2>8. \A p \in Queries : QueryOf(p) \in DOMAIN taskLock'[s] <=>
                            query'[p].pc = "reading" /\ query'[p].slot = s
    BY <1>1, <2>1, <2>3, <2>5, ActorsDistinct DEF PlacesOf
  <2>9. PlacesOf(s)'
    BY <1>1, <2>5, <2>6, <2>7, <2>8 DEF PlacesOf
  <2>10. ASSUME NEW t \in Slots, t # s PROVE PlacesOf(t)'
    BY <1>1, <2>0, <2>1, <2>2, <2>10, PlacesSame DEF TaskPlaces
  <2>11. QED
    BY <2>9, <2>10 DEF TaskPlaces
<1>5. QED
  BY <1>2, <1>3, <1>4 DEF QueryStep

\* A slot's task is inserted before its closure is spawned.
LEMMA InsertsNew ==
  ASSUME WellTyped, TableInv, NEW c \in Calls, Insert(c)
  PROVE  call[c].slot \in Slots /\ ~Known(call[c].slot) /\ job[call[c].slot] = "none"
  BY DEF Insert, TableInv, SlotsOnce, LogSound, Known, Busy, WellTyped, SlotsGiven, TypeOK

LEMMA PlacesNext == WellTyped /\ TableInv /\ TaskPlaces /\ [Next]_vars => TaskPlaces'
<1> SUFFICES ASSUME WellTyped, TableInv, TaskPlaces, [Next]_vars PROVE TaskPlaces'
  OBVIOUS
<1>0. ASSUME UNCHANGED <<taskLock, query, bus>>,
             \A s \in Slots : job'[s] = "running" <=> job[s] = "running"
      PROVE  TaskPlaces'
  BY <1>0, PlacesSame DEF TaskPlaces
<1>1. CASE UNCHANGED vars
  BY <1>0, <1>1 DEF vars
<1>2. CASE HandlerAdded \/ \E m \in Methods : AddHandler(m)
  BY <1>0, <1>2 DEF HandlerAdded, AddHandler, jobVars, busVars
<1>3. CASE \E q \in Queries : QueryStep(q) \/ \E s \in Slots : Ask(q, s)
  BY <1>3, PlacesQuery
<1>4. CASE \E c \in Calls : FindHandler(c) \/ NoHandler(c) \/ OutOfSlots(c)
  BY <1>0, <1>4 DEF FindHandler, NoHandler, OutOfSlots, lockVars, jobVars, busVars
<1>5. CASE \E c \in Calls : Insert(c)
  <2>1. PICK c \in Calls : Insert(c)
    BY <1>5
  <2>2. \A s \in Slots : job'[s] = "running" <=> job[s] = "running"
    BY <2>1, InsertsNew DEF Insert, WellTyped, TypeOK
  <2>3. QED
    BY <1>0, <2>1, <2>2 DEF Insert, busVars
<1>6. CASE \E c \in Calls, m \in Methods, s \in Slots : AssignSlot(c, m, s)
  BY <1>0, <1>6 DEF AssignSlot, jobVars, busVars
<1>7. CASE \E s \in Slots : JobStep(s) \/ Update(s) \/ HandlerEnds(s)
  BY <1>7, PlacesJob
<1>8. CASE BusStep
  BY <1>8, PlacesBus
<1>9. CASE Idle
  BY <1>1, <1>9 DEF Idle
<1>10. QED
  BY <1>1, <1>2, <1>3, <1>4, <1>5, <1>6, <1>7, <1>8, <1>9 DEF Next, CallStep

(* No result is written under a running handler: its read guard is in the  *)
(* queue before any of its messages, so the reader's write waits for it.   *)
THEOREM ShieldedByHandler == Spec => NoResultWhileRunning
<1>1. WellTyped /\ TableInv /\ TaskPlaces /\ [Next]_vars
        => [\A s \in DOMAIN tasks : tasks'[s] # tasks[s] => job[s] # "running"]_vars
  <2> SUFFICES ASSUME WellTyped, TableInv, TaskPlaces, Next,
                      NEW s \in DOMAIN tasks, tasks'[s] # tasks[s], job[s] = "running"
               PROVE  FALSE
    OBVIOUS
  <2>1. s \in Slots
    BY DEF WellTyped, TypeOK
  <2>2. CASE BusRecord
    <3>1. s = bus.slot
      BY <2>2 DEF BusRecord, Recording
    <3>2. Granted(taskLock[s], BusReader) /\ BusReader \in DOMAIN taskLock[s]
      BY <2>2, <3>1 DEF BusRecord, Granted
    <3>3. /\ FirstComeFirstServed(taskLock[s]) /\ taskLock[s][BusReader].write
          /\ JobOf(s) \in DOMAIN taskLock[s]
          /\ BusReader \notin taskLock[s][JobOf(s)].ahead
      BY <2>1, <3>2 DEF TaskPlaces, PlacesOf
    <3>4. JobOf(s) \in taskLock[s][BusReader].ahead
      BY <3>2, <3>3, ActorsDistinct DEF FirstComeFirstServed
    <3>5. QED
      BY <3>2, <3>3, <3>4 DEF Granted
  <2>3. CASE \E c \in Calls : Insert(c)
    <3>1. PICK c \in Calls : Insert(c)
      BY <2>3
    <3>2. tasks' = WithTask(call[c].slot) /\ call[c].slot # s
      BY <3>1, InsertsNew DEF Insert, Known
    <3>3. QED
      BY <3>2 DEF WithTask
  <2>4. CASE tasks' = tasks
    BY <2>4
  <2>5. QED
    BY <2>2, <2>3, <2>4 DEF Next, HandlerAdded, AddHandler, CallStep, FindHandler, NoHandler,
       OutOfSlots, AssignSlot, JobStep, Start, Publish, Update, HandlerEnds, HandlerReturns,
       HandlerPanics, BusStep, BusReceive, BusLag, BusLookup, QueryStep, Ask, AskTask,
       AskUnknown, Answer, Idle, vars
<1>2. QED
  BY <1>1, TypeInitial, TypeNext, TableInitial, TableNext, PlacesInitial, PlacesNext, PTL
     DEF Spec, NoResultWhileRunning

----------------------------------------------------------------------------
(* The executor does what Tasks says.                                      *)

Phase  == [s \in Slots |-> CASE job[s] = "none"            -> "free"
                             [] job[s] \in {"done", "dead"} -> "ended"
                             [] OTHER                       -> "open"]
Record == [s \in Slots |-> IF Known(s) THEN tasks[s] ELSE 0]

TasksStutter == UNCHANGED <<Phase, sent, log, Record>>

\* The phase of s moves with its closure.
LEMMA PhaseMoves ==
  ASSUME WellTyped, NEW s \in Slots, NEW pc \in JobPcs, job' = [job EXCEPT ![s] = pc]
  PROVE  Phase' = [Phase EXCEPT ![s] = CASE pc = "none"            -> "free"
                                         [] pc \in {"done", "dead"} -> "ended"
                                         [] OTHER                  -> "open"]
  BY DEF Phase, WellTyped, TypeOK, JobPcs

LEMMA InsertImplements ==
  ASSUME WellTyped, TableInv, NEW c \in Calls, Insert(c)
  PROVE  \E s \in Slots : Abstract!Accept(s)
<1> DEFINE s == call[c].slot
<1>1. s \in Slots /\ ~Known(s) /\ job[s] = "none"
  BY InsertsNew
<1>2. Phase[s] = "free" /\ Phase' = [Phase EXCEPT ![s] = "open"]
  <2>1. job' = [job EXCEPT ![s] = "spawned"]
    BY DEF Insert
  <2> HIDE DEF s
  <2>2. QED
    BY <1>1, <2>1 DEF Phase, WellTyped, TypeOK, JobPcs
<1>3. Record' = Record /\ UNCHANGED <<sent, log>>
  <2>1. tasks' = WithTask(s) /\ UNCHANGED <<sent, log>>
    BY DEF Insert
  <2> HIDE DEF s
  <2>2. QED
    BY <1>1, <2>1 DEF Record, WithTask, Known
<1>4. Abstract!Accept(s)
  BY <1>2, <1>3 DEF Abstract!Accept, Phase, Record
<1> HIDE DEF s
<1>5. QED
  BY <1>1, <1>4 DEF Abstract!Accept

LEMMA JobImplements ==
  ASSUME WellTyped, NEW s \in Slots, JobStep(s) \/ Update(s) \/ HandlerEnds(s)
  PROVE  \/ Abstract!ReportUpdate(s) \/ Abstract!ReportResult(s) \/ Abstract!Die(s)
         \/ TasksStutter
<1>1. UNCHANGED tasks /\ Record' = Record
  BY DEF JobStep, Start, Publish, Update, HandlerEnds, HandlerReturns, HandlerPanics, Record, Known
<1>2. job \in [Slots -> JobPcs]
  BY DEF WellTyped, TypeOK
<1>3. CASE Start(s) \/ HandlerReturns(s)
  <2>1. Phase' = Phase
    BY <1>2, <1>3 DEF Start, HandlerReturns, InHandler, Phase, JobPcs
  <2>2. QED
    BY <1>1, <1>3, <2>1 DEF Start, HandlerReturns, TasksStutter
<1>4. CASE Update(s)
  <2>1. Phase[s] = "open" /\ Phase' = Phase
    BY <1>2, <1>4 DEF Update, MayReport, InHandler, Phase, JobPcs
  <2>2. Abstract!SendReport(s)
    BY <1>1, <1>4 DEF Update, Send, Abstract!SendReport, Record
  <2>3. Abstract!ReportUpdate(s)
    BY <1>4, <2>1, <2>2 DEF Update, MayReport, Abstract!ReportUpdate, Phase
  <2>4. QED
    BY <2>3
<1>5. CASE Publish(s)
  <2>1. Phase[s] = "open" /\ Phase' = [Phase EXCEPT ![s] = "ended"]
    BY <1>2, <1>5 DEF Publish, Phase, JobPcs
  <2>2. Abstract!SendReport(s)
    BY <1>1, <1>5 DEF Publish, Send, Abstract!SendReport, Record
  <2>3. Abstract!ReportResult(s)
    BY <2>1, <2>2 DEF Abstract!ReportResult, Phase
  <2>4. QED
    BY <2>3
<1>6. CASE HandlerPanics(s)
  <2>1. Phase[s] = "open" /\ Phase' = [Phase EXCEPT ![s] = "ended"]
    BY <1>2, <1>6 DEF HandlerPanics, InHandler, Phase, JobPcs
  <2>2. Abstract!Die(s)
    BY <1>1, <1>6, <2>1 DEF HandlerPanics, Abstract!Die, Phase, Record
  <2>3. QED
    BY <2>2
<1>7. QED
  BY <1>3, <1>4, <1>5, <1>6 DEF JobStep, HandlerEnds

\* The message that is recorded is later than what the task holds.
LEMMA RecordImplements ==
  ASSUME WellTyped, TableInv, BusRecord
  PROVE  \E s \in Slots : \E n \in 1 .. sent[s] : Abstract!Record(s, n)
<1>1. /\ bus.pc = "record" /\ bus.next \in 1 .. Len(log)
      /\ bus.slot = log[bus.next].slot /\ bus.n = log[bus.next].n
  BY DEF BusRecord, TableInv, BusSound
<1>2. /\ bus.slot \in Slots /\ bus.n \in Nat /\ log[bus.next] \in Message
      /\ sent[bus.slot] \in Nat
  BY <1>1, LogType, ElementOfSeq DEF WellTyped, TypeOK
<1>3. Known(bus.slot) /\ bus.n \in 1 .. sent[bus.slot]
  BY <1>1, <1>2 DEF TableInv, LogSound
<1>4. log[bus.next] = [slot |-> bus.slot, n |-> bus.n]
  BY <1>1, <1>2 DEF Message
<1>5. tasks[bus.slot] \in RecordedOf(bus.slot) \cup {0}
  BY <1>3 DEF TableInv, LastRecorded, Known
<1>6. bus.n > tasks[bus.slot]
  <2>1. CASE tasks[bus.slot] = 0
    BY <1>3, <2>1
  <2>2. CASE tasks[bus.slot] \in RecordedOf(bus.slot)
    <3>1. PICK i \in Handled : log[i].slot = bus.slot /\ tasks[bus.slot] = log[i].n
      BY <2>2 DEF RecordedOf
    <3>2. i \in 1 .. Len(log) /\ i < bus.next
      BY <1>1, <3>1 DEF Handled
    <3>3. log[i].n < log[bus.next].n /\ log[i].n \in Nat /\ log[bus.next].n \in Nat
      BY <1>1, <3>1, <3>2, LogType DEF TableInv, LogSound
    <3>4. QED
      BY <1>1, <3>1, <3>3
  <2>3. QED
    BY <1>5, <2>1, <2>2
<1>7. tasks' = [tasks EXCEPT ![bus.slot] = bus.n] /\ UNCHANGED <<job, sent, log>>
  BY DEF BusRecord, Recording, jobVars
<1>8. /\ Record' = [Record EXCEPT ![bus.slot] = bus.n] /\ Record[bus.slot] = tasks[bus.slot]
      /\ Phase' = Phase
  BY <1>2, <1>3, <1>7 DEF Record, Known, Phase
<1>9. Abstract!Record(bus.slot, bus.n)
  BY <1>1, <1>4, <1>6, <1>7, <1>8 DEF Abstract!Record, Record, Phase
<1>10. QED
  BY <1>2, <1>3, <1>9 DEF Abstract!Record

\* ImplementsTasks: with its locks, tasks and bus the executor is what the connections
\* of a server take it for.
THEOREM ExecutorImplementsTasks == Spec => ImplementsTasks
<1>1. Init => Abstract!TasksInit
  BY DEF Init, Known, Abstract!TasksInit
<1>2. WellTyped /\ TableInv /\ [Next]_vars => [Abstract!TasksNext]_(Abstract!tasksVars)
  <2> SUFFICES ASSUME WellTyped, TableInv, [Next]_vars
               PROVE  Abstract!TasksNext \/ TasksStutter
    BY DEF Abstract!tasksVars, TasksStutter, Phase, Record
  <2>1. CASE \E c \in Calls : Insert(c)
    BY <2>1, InsertImplements DEF Abstract!TasksNext
  <2>2. CASE \E s \in Slots : JobStep(s) \/ Update(s) \/ HandlerEnds(s)
    BY <2>2, JobImplements DEF Abstract!TasksNext, Abstract!TaskStep
  <2>3. CASE BusRecord
    BY <2>3, RecordImplements DEF Abstract!TasksNext, Abstract!TaskStep
  <2>4. CASE UNCHANGED <<tasks, job, sent, log>>
    BY <2>4 DEF TasksStutter, Phase, Record, Known
  <2>5. QED
    BY <2>1, <2>2, <2>3, <2>4 DEF Next, HandlerAdded, AddHandler, CallStep, FindHandler, NoHandler,
       OutOfSlots, AssignSlot, BusStep, BusReceive, BusLag, BusLookup, QueryStep, Ask, AskTask,
       AskUnknown, Answer, Idle, vars, jobVars
<1>3. QED
  BY <1>1, <1>2, TypeInitial, TypeNext, TableInitial, TableNext, PTL
     DEF Spec, ImplementsTasks, Abstract!TasksSpec
============================================================================
