------------------------------ MODULE Executor ------------------------------
(***************************************************************************)
(* BoxcarExecutor (executor.rs): the table of running and finished RPCs,   *)
(* the tasks that run their handlers, the bus on which handlers report,    *)
(* and the bus reader that records the last report of each RPC.  Queries   *)
(* are handle_rpc_req_result (server.rs), the one outside reader of the    *)
(* table.                                                                  *)
(*                                                                         *)
(* An action ends where the code awaits a lock or a message.  A wait for a *)
(* lock is a place in its queue, taken by the step before; what a task     *)
(* does once let in, up to its next wait, is one step.                     *)
(***************************************************************************)
EXTENDS Naturals, Sequences, RwLock, Broadcast

CONSTANTS
  Calls,       \* calls of execute_task, each in a task of its own
  Queries,     \* calls of handle_rpc_req_result
  Slots,       \* the s_slots there are: all of u16 in the code
  Methods,     \* method names; a handler serves one
  Capacity,    \* what the bus keeps: 32 in the code
  MaxUpdates   \* bound on the updates a handler sends

ASSUME CapacityAssumption   == Capacity \in Nat \ {0}
ASSUME MaxUpdatesAssumption == MaxUpdates \in Nat

NoSlot   == "no slot"
NoMethod == "no method"

ASSUME MethodsAssumption == NoMethod \notin Methods

VARIABLES
  slots,         \* BoxcarExecutor.slots
  handlers,      \* BoxcarExecutor.handlers, as the methods they serve
  handlersLock,  \* ... and its lock
  tasks,         \* BoxcarExecutor.tasks: slot -> RPCTask.result
  tasksLock,     \* ... and its lock
  taskLock,      \* slot -> the lock of its RPCTask
  call,          \* call -> where execute_task is, its method and slot
  query,         \* query -> where it is, its slot and what it read
  admin,         \* the method of the add_handler under way, if any
  job,           \* slot -> where the spawned closure is
  sent,          \* slot -> number of messages its closure has sent
  log,           \* all messages sent on the bus
  bus,           \* the bus reader: where it is, its message, its position
  lost           \* history: positions of the log the reader skipped

vars == <<slots, handlers, handlersLock, tasks, tasksLock, taskLock, call, query,
          admin, job, sent, log, bus, lost>>

callVars  == <<slots, call>>
lockVars  == <<handlersLock, tasksLock, taskLock>>
jobVars   == <<job, sent, log>>
busVars   == <<bus, lost>>
adminVars == <<handlers, admin>>

----------------------------------------------------------------------------
(* A message of slot s is numbered: the n-th that s sent.  What RPCTask    *)
(* records is that number, with 0 for None.                                *)
Message == [slot : Slots, n : Nat]

CallOf(c)  == <<"call", c>>
JobOf(s)   == <<"job", s>>
QueryOf(q) == <<"query", q>>
BusReader  == <<"bus">>
Admin      == <<"admin">>

Actors == {CallOf(c) : c \in Calls} \cup {JobOf(s) : s \in Slots}
            \cup {QueryOf(q) : q \in Queries} \cup {BusReader, Admin}

CallPcs  == {"idle", "seeking", "inserting", "accepted", "refused", "panicked"}
QueryPcs == {"idle", "lookup", "reading", "answered", "unknown"}
JobPcs   == {"none", "spawned", "running", "returned", "done", "dead"}
BusPcs   == {"recv", "lookup", "record"}

Known(s) == s \in DOMAIN tasks

----------------------------------------------------------------------------
Init ==
  /\ slots        = {}
  /\ handlers     = {}
  /\ handlersLock = Free
  /\ tasks        = [s \in {} |-> 0]
  /\ tasksLock    = Free
  /\ taskLock     = [s \in Slots |-> Free]
  /\ call         = [c \in Calls |-> [pc |-> "idle", method |-> NoMethod, slot |-> NoSlot]]
  /\ query        = [q \in Queries |-> [pc |-> "idle", slot |-> NoSlot, n |-> 0]]
  /\ admin        = NoMethod
  /\ job          = [s \in Slots |-> "none"]
  /\ sent         = [s \in Slots |-> 0]
  /\ log          = <<>>
  /\ bus          = [pc |-> "recv", slot |-> NoSlot, n |-> 0, next |-> 0]
  /\ lost         = {}

----------------------------------------------------------------------------
(* add_handler.                                                            *)

\* handlers.write() is polled.
AddHandler(m) ==
  /\ admin = NoMethod
  /\ m \notin handlers
  /\ admin' = m
  /\ handlersLock' = QueueWrite(handlersLock, Admin)
  /\ UNCHANGED <<handlers, tasks, tasksLock, taskLock, query, callVars, jobVars, busVars>>

\* The guard is there: push, and drop it.
HandlerAdded ==
  /\ admin # NoMethod
  /\ Granted(handlersLock, Admin)
  /\ handlers' = handlers \cup {admin}
  /\ admin' = NoMethod
  /\ handlersLock' = Leave(handlersLock, Admin)
  /\ UNCHANGED <<tasks, tasksLock, taskLock, query, callVars, jobVars, busVars>>

----------------------------------------------------------------------------
(* execute_task.                                                           *)

\* Mutated: any number drawn is taken.
AnySlot(s) == TRUE

FreeSlot(s) == s \notin slots

\* assign_slot draws numbers until one is free; then handlers.read() is polled.
AssignSlot(c, m, s) ==
  /\ call[c].pc = "idle"
  /\ FreeSlot(s)
  /\ slots' = slots \cup {s}
  /\ call' = [call EXCEPT ![c] = [pc |-> "seeking", method |-> m, slot |-> s]]
  /\ handlersLock' = QueueRead(handlersLock, CallOf(c))
  /\ UNCHANGED <<tasks, tasksLock, taskLock, query, adminVars, jobVars, busVars>>

\* All 1026 numbers drawn were taken: "oh no".
OutOfSlots(c) ==
  /\ call[c].pc = "idle"
  /\ slots # {}
  /\ call' = [call EXCEPT ![c].pc = "panicked"]
  /\ UNCHANGED <<slots, tasks, lockVars, query, adminVars, jobVars, busVars>>

\* A handler serves the method.  handlers.read() stays held, tasks.write() is
\* polled.
FindHandler(c) ==
  /\ call[c].pc = "seeking"
  /\ Granted(handlersLock, CallOf(c))
  /\ call[c].method \in handlers
  /\ call' = [call EXCEPT ![c].pc = "inserting"]
  /\ tasksLock' = QueueWrite(tasksLock, CallOf(c))
  /\ UNCHANGED <<slots, tasks, handlersLock, taskLock, query, adminVars, jobVars, busVars>>

\* "no such handler".  The slot stays allocated.
NoHandler(c) ==
  /\ call[c].pc = "seeking"
  /\ Granted(handlersLock, CallOf(c))
  /\ call[c].method \notin handlers
  /\ call' = [call EXCEPT ![c].pc = "refused"]
  /\ handlersLock' = Leave(handlersLock, CallOf(c))
  /\ UNCHANGED <<slots, tasks, tasksLock, taskLock, query, adminVars, jobVars, busVars>>

\* The table with a fresh task in slot s.
WithTask(s) == [t \in DOMAIN tasks \cup {s} |-> IF t = s THEN 0 ELSE tasks[t]]

\* The task is inserted, its closure spawned, Ok(s_slot) returned; both guards
\* are gone by then.
Insert(c) ==
  /\ call[c].pc = "inserting"
  /\ Granted(tasksLock, CallOf(c))
  /\ tasks' = WithTask(call[c].slot)
  /\ job' = [job EXCEPT ![call[c].slot] = "spawned"]
  /\ call' = [call EXCEPT ![c].pc = "accepted"]
  /\ tasksLock' = Leave(tasksLock, CallOf(c))
  /\ handlersLock' = Leave(handlersLock, CallOf(c))
  /\ UNCHANGED <<slots, taskLock, query, adminVars, sent, log, busVars>>

----------------------------------------------------------------------------
(* The spawned closure.                                                    *)

\* task.read() is polled, and held until the handler is through.
Start(s) ==
  /\ job[s] = "spawned"
  /\ job' = [job EXCEPT ![s] = "running"]
  /\ taskLock' = [taskLock EXCEPT ![s] = QueueRead(@, JobOf(s))]
  /\ UNCHANGED <<tasks, handlersLock, tasksLock, query, callVars, adminVars, sent, log, busVars>>

InHandler(s) == job[s] = "running" /\ Granted(taskLock[s], JobOf(s))

\* The next message of s goes out on the bus.
Send(s) ==
  /\ sent' = [sent EXCEPT ![s] = @ + 1]
  /\ log'  = Append(log, [slot |-> s, n |-> sent[s] + 1])

\* Mutated: a handler reports on after it has ended.
MayReportLate(s) == (InHandler(s) \/ job[s] = "done") /\ sent[s] <= MaxUpdates

MayReport(s) == InHandler(s) /\ sent[s] < MaxUpdates

\* BusWrapper::send, by the handler.
Update(s) ==
  /\ MayReport(s)
  /\ Send(s)
  /\ UNCHANGED <<tasks, lockVars, query, callVars, adminVars, job, busVars>>

\* The handler returns and `task` is dropped.
HandlerReturns(s) ==
  /\ InHandler(s)
  /\ job' = [job EXCEPT ![s] = "returned"]
  /\ taskLock' = [taskLock EXCEPT ![s] = Leave(@, JobOf(s))]
  /\ UNCHANGED <<tasks, handlersLock, tasksLock, query, callVars, adminVars, sent, log, busVars>>

\* The handler panics: the closure unwinds and there is no result.
HandlerPanics(s) ==
  /\ InHandler(s)
  /\ job' = [job EXCEPT ![s] = "dead"]
  /\ taskLock' = [taskLock EXCEPT ![s] = Leave(@, JobOf(s))]
  /\ UNCHANGED <<tasks, handlersLock, tasksLock, query, callVars, adminVars, sent, log, busVars>>

\* The result of the handler is sent on the bus.
Publish(s) ==
  /\ job[s] = "returned"
  /\ job' = [job EXCEPT ![s] = "done"]
  /\ Send(s)
  /\ UNCHANGED <<tasks, lockVars, query, callVars, adminVars, busVars>>

----------------------------------------------------------------------------
(* The bus reader.                                                         *)

\* Mutated: the position moves past the message after it, there or not.
Skipping(m) == [pc |-> "lookup", slot |-> m.slot, n |-> m.n, next |-> bus.next + 2]

\* The reader with message m.
Holding(m) == [pc |-> "lookup", slot |-> m.slot, n |-> m.n, next |-> bus.next + 1]

\* A message is received; tasks.read() is polled.
BusReceive ==
  /\ bus.pc = "recv"
  /\ Receivable(log, bus.next, Capacity)
  /\ bus' = Holding(log[bus.next + 1])
  /\ tasksLock' = QueueRead(tasksLock, BusReader)
  /\ UNCHANGED <<tasks, handlersLock, taskLock, query, callVars, adminVars, jobVars, lost>>

\* Mutated: the reader tries again from where it was.
Stay == bus.next

\* Where `loop` goes on.
Resume == Oldest(log, Capacity)

\* recv() fails with Lagged: `while let` ends and `loop` enters it again.
BusLag ==
  /\ bus.pc = "recv"
  /\ Lagged(log, bus.next, Capacity)
  /\ bus' = [bus EXCEPT !.next = Resume]
  /\ lost' = lost \cup (bus.next + 1 .. Resume)
  /\ UNCHANGED <<tasks, lockVars, query, callVars, adminVars, jobVars>>

\* Mutated: the task is locked as if to be read.
BusQueuesToRead(s) == taskLock' = [taskLock EXCEPT ![s] = QueueRead(@, BusReader)]

\* task_ref.write() is polled.
BusQueues(s) == taskLock' = [taskLock EXCEPT ![s] = QueueWrite(@, BusReader)]

\* The task is in the table: it is to be written, with tasks.read() held.
\* It is not: the message is dropped.
BusLookup ==
  /\ bus.pc = "lookup"
  /\ Granted(tasksLock, BusReader)
  /\ IF Known(bus.slot)
     THEN /\ bus' = [bus EXCEPT !.pc = "record"]
          /\ BusQueues(bus.slot)
          /\ UNCHANGED tasksLock
     ELSE /\ bus' = [bus EXCEPT !.pc = "recv"]
          /\ tasksLock' = Leave(tasksLock, BusReader)
          /\ UNCHANGED taskLock
  /\ UNCHANGED <<tasks, handlersLock, query, callVars, adminVars, jobVars, lost>>

\* Mutated: the first message stays.
RecordingFirst(s, n) == [tasks EXCEPT ![s] = IF @ = 0 THEN n ELSE @]

\* What a task holds after message n.
Recording(s, n) == [tasks EXCEPT ![s] = n]

\* The message becomes the task's result; both guards go.
BusRecord ==
  /\ bus.pc = "record"
  /\ Granted(taskLock[bus.slot], BusReader)
  /\ tasks' = Recording(bus.slot, bus.n)
  /\ taskLock' = [taskLock EXCEPT ![bus.slot] = Leave(@, BusReader)]
  /\ tasksLock' = Leave(tasksLock, BusReader)
  /\ bus' = [bus EXCEPT !.pc = "recv"]
  /\ UNCHANGED <<handlersLock, query, callVars, adminVars, jobVars, lost>>

----------------------------------------------------------------------------
(* handle_rpc_req_result.                                                  *)

\* A client asks for any slot it likes; tasks.read() is polled.
Ask(q, s) ==
  /\ query[q].pc = "idle"
  /\ query' = [query EXCEPT ![q] = [pc |-> "lookup", slot |-> s, n |-> 0]]
  /\ tasksLock' = QueueRead(tasksLock, QueryOf(q))
  /\ UNCHANGED <<tasks, handlersLock, taskLock, callVars, adminVars, jobVars, busVars>>

\* The task is there: task.read() is polled, with tasks.read() held.
AskTask(q) ==
  /\ query[q].pc = "lookup"
  /\ Granted(tasksLock, QueryOf(q))
  /\ Known(query[q].slot)
  /\ query' = [query EXCEPT ![q].pc = "reading"]
  /\ taskLock' = [taskLock EXCEPT ![query[q].slot] = QueueRead(@, QueryOf(q))]
  /\ UNCHANGED <<tasks, handlersLock, tasksLock, callVars, adminVars, jobVars, busVars>>

\* Mutated: the client is not told.
Untold(q) == UNCHANGED query

TellUnknown(q) == query' = [query EXCEPT ![q].pc = "unknown"]

\* "no such s_slot".
AskUnknown(q) ==
  /\ query[q].pc = "lookup"
  /\ Granted(tasksLock, QueryOf(q))
  /\ ~Known(query[q].slot)
  /\ TellUnknown(q)
  /\ tasksLock' = Leave(tasksLock, QueryOf(q))
  /\ UNCHANGED <<tasks, handlersLock, taskLock, callVars, adminVars, jobVars, busVars>>

\* The result is cloned; both guards go.
Answer(q) ==
  /\ query[q].pc = "reading"
  /\ Granted(taskLock[query[q].slot], QueryOf(q))
  /\ query' = [query EXCEPT ![q].pc = "answered", ![q].n = tasks[query[q].slot]]
  /\ taskLock' = [taskLock EXCEPT ![query[q].slot] = Leave(@, QueryOf(q))]
  /\ tasksLock' = Leave(tasksLock, QueryOf(q))
  /\ UNCHANGED <<tasks, handlersLock, callVars, adminVars, jobVars, busVars>>

----------------------------------------------------------------------------
\* Nothing is under way.
Quiescent ==
  /\ admin = NoMethod
  /\ \A c \in Calls : call[c].pc \notin {"seeking", "inserting"}
  /\ \A s \in Slots : job[s] \in {"none", "done", "dead"}
  /\ \A q \in Queries : query[q].pc \notin {"lookup", "reading"}
  /\ bus.pc = "recv" /\ ~Pending(log, bus.next)

\* The server waits for work.
Idle == Quiescent /\ UNCHANGED vars

CallStep(c)  == FindHandler(c) \/ NoHandler(c) \/ Insert(c)
QueryStep(q) == AskTask(q) \/ AskUnknown(q) \/ Answer(q)
BusStep      == BusReceive \/ BusLag \/ BusLookup \/ BusRecord
JobStep(s)   == Start(s) \/ Publish(s)
HandlerEnds(s) == HandlerReturns(s) \/ HandlerPanics(s)

Next ==
  \/ HandlerAdded
  \/ \E m \in Methods : AddHandler(m)
  \/ \E c \in Calls : CallStep(c) \/ OutOfSlots(c)
  \/ \E c \in Calls, m \in Methods, s \in Slots : AssignSlot(c, m, s)
  \/ \E s \in Slots : JobStep(s) \/ Update(s) \/ HandlerEnds(s)
  \/ BusStep
  \/ \E q \in Queries : QueryStep(q)
  \/ \E q \in Queries, s \in Slots : Ask(q, s)
  \/ Idle

(***************************************************************************)
(* The runtime polls every task that can go on.  A place in a fair lock is *)
(* kept once granted, so weak fairness is enough.  Nothing is assumed of   *)
(* clients, and nothing of handlers, which may run for ever.               *)
(***************************************************************************)
Fairness ==
  /\ WF_vars(HandlerAdded)
  /\ \A c \in Calls : WF_vars(CallStep(c))
  /\ \A s \in Slots : WF_vars(JobStep(s))
  /\ WF_vars(BusStep)
  /\ \A q \in Queries : WF_vars(QueryStep(q))

Spec == Init /\ [][Next]_vars /\ Fairness

\* The same when every handler that has reported returns or panics in the end;
\* others may run on for ever.
EndingSpec == Spec /\ \A s \in Slots : WF_vars(sent[s] > 0 /\ HandlerEnds(s))
----------------------------------------------------------------------------
CallState  == [pc : CallPcs, method : Methods \cup {NoMethod}, slot : Slots \cup {NoSlot}]
QueryState == [pc : QueryPcs, slot : Slots \cup {NoSlot}, n : Nat]
BusState   == [pc : BusPcs, slot : Slots \cup {NoSlot}, n : Nat, next : Nat]

TypeOK ==
  /\ slots \subseteq Slots
  /\ handlers \subseteq Methods
  /\ IsLock(handlersLock, Actors)
  /\ DOMAIN tasks \subseteq Slots /\ tasks \in [DOMAIN tasks -> Nat]
  /\ IsLock(tasksLock, Actors)
  /\ DOMAIN taskLock = Slots /\ \A s \in Slots : IsLock(taskLock[s], Actors)
  /\ call \in [Calls -> CallState]
  /\ query \in [Queries -> QueryState]
  /\ admin \in Methods \cup {NoMethod}
  /\ job \in [Slots -> JobPcs]
  /\ sent \in [Slots -> Nat]
  /\ log \in Seq(Message)
  /\ bus \in BusState /\ bus.next <= Len(log)
  /\ lost \subseteq Nat

\* KnownSlot: a message the bus reader holds, or will receive, is about a task
\* that is in the table ("which it should", says the reader), and each slot is
\* the slot of one call at most.
KnownSlot ==
  /\ bus.pc # "recv" => Known(bus.slot)
  /\ \A i \in bus.next + 1 .. Len(log) : Known(log[i].slot)
  /\ \A c, d \in Calls : c # d /\ call[c].slot = call[d].slot => call[c].slot = NoSlot

\* Positions of the log the reader is through with.
Handled == 1 .. IF bus.pc = "recv" THEN bus.next ELSE bus.next - 1

\* The messages of slot s that the reader has received and recorded.
RecordedOf(s) == {log[i].n : i \in {j \in Handled : log[j].slot = s /\ j \notin lost}}

\* LastRecorded: whatever the order in which handlers, calls and queries reach
\* the locks, a task holds the latest message of its slot that reached the
\* reader, or None when none has.
LastRecorded ==
  \A s \in DOMAIN tasks :
    /\ tasks[s] \in RecordedOf(s) \cup {0}
    /\ \A n \in RecordedOf(s) : n <= tasks[s]

\* NoResultWhileRunning: a result is never written under a running handler; its
\* updates reach the table only once it has ended.
NoResultWhileRunning ==
  [][\A s \in DOMAIN tasks : tasks'[s] # tasks[s] => job[s] # "running"]_vars

\* The task of s holds the last message s sent.
Recorded(s) == Known(s) /\ tasks[s] = sent[s]

\* The final message of slot s is one the reader skipped.
FinalLost(s) ==
  \E i \in lost : log[i].slot = s /\ log[i].n = sent[s]

\* FinalRecorded: the result of a handler that returned reaches the table,
\* unless the bus had overrun the reader.
FinalRecorded ==
  \A s \in Slots : job[s] = "done" ~> Recorded(s) \/ FinalLost(s)

\* Answered: every call and every query is answered, though both queue behind
\* the bus reader, which waits for handlers with the table locked.
Answered ==
  /\ \A c \in Calls : call[c].pc = "seeking" ~> call[c].pc \in {"accepted", "refused"}
  /\ \A q \in Queries : query[q].pc = "lookup" ~> query[q].pc \in {"answered", "unknown"}

\* ImplementsTasks: with its locks, tasks and bus the executor does what Tasks
\* says: one RPC to a slot, no report before it is accepted or after it ended,
\* and a record that only moves forward through the reports of its own slot.
Abstract == INSTANCE Tasks WITH
  phase    <- [s \in Slots |-> CASE job[s] = "none"            -> "free"
                                 [] job[s] \in {"done", "dead"} -> "ended"
                                 [] OTHER                       -> "open"],
  recorded <- [s \in Slots |-> IF Known(s) THEN tasks[s] ELSE 0]

ImplementsTasks == Abstract!TasksSpec

\* ResultRecorded: when nothing is under way, the result of a handler that
\* returned is in its RPCTask ("take the result of the handler and write it
\* into the RPCTask").
ResultRecorded ==
  Quiescent => \A s \in Slots : job[s] = "done" => Recorded(s)
============================================================================
