----------------------------- MODULE Connection -----------------------------
(***************************************************************************)
(* The server's side of its connections (server.rs): connection_handler    *)
(* with the tasks it spawns, one that reads requests, one per request, one *)
(* that relays the executor's bus to the subscribed client, and one that   *)
(* flushes the outbox.  The executor is what Tasks says it is.             *)
(*                                                                         *)
(* What the executor does for a request it may do late, or never: it has   *)
(* the request wait for its locks.  A step that follows such a wait        *)
(* (ExecutorStep) is taken at the moment the last guard is there.          *)
(***************************************************************************)
EXTENDS Wire, Broadcast, SequencesExt, FiniteSets

CONSTANT Capacity   \* what the bus keeps: 32 in the code

ASSUME CapacityAssumption == Capacity \in Nat \ {0}

VARIABLES
  slots,       \* how many s_slots the executor has assigned; none comes back
  subscribed,  \* client -> its subscriptions, s_slot -> c_slot
  work,        \* client -> the tasks that handle its requests
  relay,       \* client -> the relay: where it is, its place on the bus, its message
  outbox       \* client -> the outbox channel, of size one

connectionVars == <<slots, subscribed, work, relay, outbox>>

NoMessage == [kind |-> "none"]
RelayPcs  == {"off", "recv", "sending", "ended"}

ConnectionInit ==
  /\ TasksInit
  /\ slots      = 0
  /\ subscribed = [k \in Clients |-> [s \in {} |-> 0]]
  /\ work       = [k \in Clients |-> <<>>]
  /\ relay      = [k \in Clients |-> [pc |-> "off", next |-> 0, out |-> NoMessage]]
  /\ outbox     = [k \in Clients |-> <<>>]

\* serve accepts the connection, and connection_handler listens to the bus.
AcceptConnection(k) ==
  /\ relay[k].pc = "off"
  /\ relay' = [relay EXCEPT ![k].pc = "recv", ![k].next = Len(log)]
  /\ UNCHANGED <<slots, subscribed, work, outbox, tasksVars>>

\* A request is read, and a task spawned to handle it.
ReadRequest(k) ==
  /\ toServer[k] # <<>>
  /\ toServer' = [toServer EXCEPT ![k] = Tail(@)]
  /\ LET m == Head(toServer[k]) IN
       work' = [work EXCEPT ![k] = Append(@, [step |-> "handle", c_slot |-> m.c_slot,
                                              inner |-> m.inner])]
  /\ UNCHANGED <<link, toClient, slots, subscribed, relay, outbox, tasksVars>>

----------------------------------------------------------------------------
(* message_handler, by the i-th task of client k.  What a task holds is    *)
(* first the request, then the reply.                                      *)

Handles(k, i, kind) ==
  /\ work[k][i].step = "handle"
  /\ work[k][i].inner.kind = kind

\* The task holds this message now, and is at this step.
Proceed(k, i, step, message) ==
  work' = [work EXCEPT ![k][i] = [step |-> step, c_slot |-> @.c_slot, inner |-> message]]

\* Mutated: the relay takes its guard along when it ends.
MapFreeOfRelay(k) == relay[k].pc = "recv"

\* Nobody holds the map of subscriptions but the relay, while it sends.
MapFree(k) == relay[k].pc # "sending"

\* The claims cannot be had.
Refuse(k, i) ==
  /\ Handles(k, i, "RpcReq")
  /\ Proceed(k, i, "reply", Error)
  /\ UNCHANGED <<wireVars, slots, subscribed, relay, outbox, tasksVars>>

\* They are had, and execute_task begins: assign_slot draws numbers until one is
\* free.  Which it is shows when the RPC starts.
AssignSlot(k, i) ==
  /\ Handles(k, i, "RpcReq")
  /\ slots < Cardinality(Slots)
  /\ slots' = slots + 1
  /\ Proceed(k, i, "executing", work[k][i].inner)
  /\ UNCHANGED <<wireVars, subscribed, relay, outbox, tasksVars>>

\* All 1026 numbers drawn were taken: "oh no".  The panic ends the task, and
\* nobody replies.
OutOfSlots(k, i) ==
  /\ Handles(k, i, "RpcReq")
  /\ slots > 0
  /\ Proceed(k, i, "panicked", work[k][i].inner)
  /\ UNCHANGED <<wireVars, slots, subscribed, relay, outbox, tasksVars>>

\* handlers.read() is there, and "no such handler" in it.  The slot stays assigned.
NoHandler(k, i) ==
  /\ work[k][i].step = "executing"
  /\ Proceed(k, i, "reply", Error)
  /\ UNCHANGED <<wireVars, slots, subscribed, relay, outbox, tasksVars>>

\* tasks.write() is there: execute_task starts the RPC, and returns its slot.
Execute(k, i, s) ==
  /\ work[k][i].step = "executing"
  /\ Accept(s)
  /\ Proceed(k, i, IF work[k][i].inner.subscribe THEN "subscribe" ELSE "reply", RpcReqRslt(s))
  /\ UNCHANGED <<wireVars, slots, subscribed, relay, outbox>>

\* "request subscribed, registering subscription", once the RPC has started.
SubscribeCaller(k, i) ==
  /\ work[k][i].step = "subscribe"
  /\ MapFree(k)
  /\ LET w == work[k][i] IN
       subscribed' = [subscribed EXCEPT ![k] =
         [s \in DOMAIN @ \cup {w.inner.slot} |-> IF s = w.inner.slot THEN w.c_slot ELSE @[s]]]
  /\ Proceed(k, i, "reply", work[k][i].inner)
  /\ UNCHANGED <<wireVars, slots, relay, outbox, tasksVars>>

\* Mutated: it waits until the RPC has reported.
AwaitReport(k, i) ==
  /\ Handles(k, i, "RpcReqRslt")
  /\ LET s == work[k][i].inner.slot IN
       /\ recorded[s] # 0
       /\ Proceed(k, i, "reply", RpcRslt(s, recorded[s], TRUE))
  /\ UNCHANGED <<wireVars, slots, subscribed, relay, outbox, tasksVars>>

\* handle_rpc_req_result: tasks.read() is there and, if the slot is known, the read
\* guard of its task.
HandleRpcReqResult(k, i) ==
  /\ Handles(k, i, "RpcReqRslt")
  /\ LET s == work[k][i].inner.slot IN
       Proceed(k, i, "reply", IF phase[s] = "free" THEN Error
                                                   ELSE RpcRslt(s, recorded[s], TRUE))
  /\ UNCHANGED <<wireVars, slots, subscribed, relay, outbox, tasksVars>>

\* handle_sub: a slot that is subscribed already keeps its c_slot.
HandleSub(k, i) ==
  /\ Handles(k, i, "Sub")
  /\ MapFree(k)
  /\ LET w   == work[k][i]
         new == {w.inner.slot} \ DOMAIN subscribed[k] IN
       /\ subscribed' = [subscribed EXCEPT ![k] =
            [s \in DOMAIN @ \cup new |-> IF s \in new THEN w.c_slot ELSE @[s]]]
       /\ Proceed(k, i, "reply", SubOpFin)
  /\ UNCHANGED <<wireVars, slots, relay, outbox, tasksVars>>

\* handle_unsub.
HandleUnsub(k, i) ==
  /\ Handles(k, i, "UnSub")
  /\ MapFree(k)
  /\ LET gone == work[k][i].inner.slots \cap DOMAIN subscribed[k] IN
       /\ subscribed' = [subscribed EXCEPT ![k] = [s \in DOMAIN @ \ gone |-> @[s]]]
       /\ Proceed(k, i, "reply", SubOpFin)
  /\ UNCHANGED <<wireVars, slots, relay, outbox, tasksVars>>

\* The outbox has room for a message.
Room(k) == outbox[k] = <<>>

\* Mutated: a message that finds the outbox full is dropped.
TryEnqueue(k, m) == outbox' = IF Room(k) THEN [outbox EXCEPT ![k] = <<m>>] ELSE outbox

\* The outbox takes the message when it has room.
Enqueue(k, m) ==
  /\ Room(k)
  /\ outbox' = [outbox EXCEPT ![k] = <<m>>]

\* Mutated: the task starts over.
TaskRepeats(k, i) == UNCHANGED work

TaskEnds(k, i) == work' = [work EXCEPT ![k] = RemoveAt(@, i)]

\* The reply goes to the outbox and the task ends.
Reply(k, i) ==
  /\ work[k][i].step = "reply"
  /\ Enqueue(k, WireMessage(work[k][i].c_slot, work[k][i].inner))
  /\ TaskEnds(k, i)
  /\ UNCHANGED <<wireVars, slots, subscribed, relay, tasksVars>>

----------------------------------------------------------------------------
(* The relay, and the outbox task.                                         *)

\* A report comes; if the client is subscribed to its slot, it is to be sent,
\* and the map stays locked until then.
RelayReceive(k) ==
  /\ relay[k].pc = "recv"
  /\ Receivable(log, relay[k].next, Capacity)
  /\ LET next == relay[k].next + 1
         m    == log[next] IN
       relay' = [relay EXCEPT ![k] =
         IF m.slot \in DOMAIN subscribed[k]
         THEN [pc |-> "sending", next |-> next,
               out |-> WireMessage(subscribed[k][m.slot], RpcRslt(m.slot, m.n, FALSE))]
         ELSE [@ EXCEPT !.next = next]]
  /\ UNCHANGED <<wireVars, slots, subscribed, work, outbox, tasksVars>>

\* The bus has overrun the relay: `while let Ok` ends, for good.
RelayLag(k) ==
  /\ relay[k].pc = "recv"
  /\ Lagged(log, relay[k].next, Capacity)
  /\ relay' = [relay EXCEPT ![k].pc = "ended"]
  /\ UNCHANGED <<wireVars, slots, subscribed, work, outbox, tasksVars>>

\* Mutated: the report stays in hand, and the map locked ...
RelayRepeats(k) == UNCHANGED relay

\* ... or the report alone.
RelayKeepsMessage(k) == relay' = [relay EXCEPT ![k].pc = "recv"]

\* The relay listens again; the map is free.
RelayListens(k) == relay' = [relay EXCEPT ![k].pc = "recv", ![k].out = NoMessage]

\* The report goes to the outbox.
RelaySend(k) ==
  /\ relay[k].pc = "sending"
  /\ Enqueue(k, relay[k].out)
  /\ RelayListens(k)
  /\ UNCHANGED <<wireVars, slots, subscribed, work, tasksVars>>

\* The outbox task writes to the socket, or logs that it cannot.
Flush(k) ==
  /\ ~Room(k)
  /\ outbox' = [outbox EXCEPT ![k] = <<>>]
  /\ toClient' = IF link[k] = "up" THEN [toClient EXCEPT ![k] = @ \o outbox[k]] ELSE toClient
  /\ UNCHANGED <<link, toServer, slots, subscribed, work, relay, tasksVars>>

----------------------------------------------------------------------------
\* What the i-th task of client k does by itself ...
OwnStep(k, i) ==
  \/ Refuse(k, i) \/ AssignSlot(k, i) \/ OutOfSlots(k, i)
  \/ SubscribeCaller(k, i) \/ HandleSub(k, i) \/ HandleUnsub(k, i) \/ Reply(k, i)

\* ... and what it does once the executor's locks let it through.
ExecutorStep(k, i) ==
  NoHandler(k, i) \/ (\E s \in Slots : Execute(k, i, s)) \/ HandleRpcReqResult(k, i)

WorkStep(k, i) == OwnStep(k, i) \/ ExecutorStep(k, i)

RelayStep(k) == RelayReceive(k) \/ RelayLag(k) \/ RelaySend(k)

ConnectionStep(k) ==
  \/ ReadRequest(k)
  \/ \E i \in 1 .. Len(work[k]) : WorkStep(k, i)
  \/ RelayStep(k)
  \/ Flush(k)
============================================================================
