--------------------------------- MODULE Rpc --------------------------------
(***************************************************************************)
(* Clients and a server: Client and Connection over Wire, with the RPCs    *)
(* of Tasks.  Clients share nothing but the slots of the server.           *)
(***************************************************************************)
EXTENDS Connection, Client

vars == <<wireVars, tasksVars, connectionVars, clientVars>>

Init ==
  /\ WireInit
  /\ ConnectionInit
  /\ ClientInit

\* Client::new meets Server::serve.
Connect(k) == Open(k) /\ AcceptConnection(k)

ClientSide == UNCHANGED <<tasksVars, connectionVars>>
ServerSide == UNCHANGED clientVars

Next ==
  \/ \E k \in Clients :
       \/ Connect(k)
       \/ Disconnect(k) /\ UNCHANGED <<tasksVars, connectionVars, clientVars>>
       \/ Deliver(k) /\ ClientSide
       \/ Write(k) /\ ClientSide
       \/ (\E c \in CSlots : DropCSlot(k, c)) /\ ClientSide
       \/ ConnectionStep(k) /\ ServerSide
       \/ (\E u \in Users : UserStarts(u, k)) /\ ClientSide
  \/ \E u \in Users : UserStep(u) /\ ClientSide
  \/ \E s \in Slots : TaskStep(s) /\ UNCHANGED <<wireVars, connectionVars, clientVars>>

\* A handler that has reported runs on: the executor's bus reader waits for it with
\* the table of tasks locked, and calls and queries wait behind the reader.
Stalled == \E s \in Slots : phase[s] = "open" /\ sent[s] > 0

(***************************************************************************)
(* The runtimes poll every task that can go on.  The executor's locks let  *)
(* a task through once it is not stalled (Executor's Answered), and        *)
(* perhaps before.  Nothing is assumed of users, handlers or the network.  *)
(***************************************************************************)
Fairness ==
  /\ \A k \in Clients :
       /\ WF_vars(Deliver(k) /\ ClientSide)
       /\ WF_vars(Write(k) /\ ClientSide)
       /\ WF_vars(ReadRequest(k) /\ ServerSide)
       /\ WF_vars((\E i \in 1 .. Len(work[k]) : OwnStep(k, i)) /\ ServerSide)
       /\ WF_vars(~Stalled /\ (\E i \in 1 .. Len(work[k]) : ExecutorStep(k, i)) /\ ServerSide)
       /\ WF_vars(RelayStep(k) /\ ServerSide)
       /\ WF_vars(Flush(k) /\ ServerSide)
  /\ \A u \in Users : WF_vars(UserStep(u) /\ ClientSide)

Spec == Init /\ [][Next]_vars /\ Fairness

----------------------------------------------------------------------------
\* x is a function from part of S to T.
PartialFunction(x, S, T) == DOMAIN x \subseteq S /\ x \in [DOMAIN x -> T]

\* Messages of this sort, addressed to c_slots in D.
Addressed(D, messages) == [c_slot : D, inner : messages]

Reports == [kind : {"RpcRslt"}, slot : Slots, n : Nat, asked : {FALSE}]

WorkState(D) ==
  [step : {"handle"}, c_slot : D, inner : Requests]
    \cup [step : {"executing", "panicked"}, c_slot : D, inner : {RpcReq(b) : b \in BOOLEAN}]
    \cup [step : {"subscribe"}, c_slot : D, inner : {RpcReqRslt(s) : s \in Slots}]
    \cup [step : {"reply"}, c_slot : D, inner : Replies]

RelayState(D) == [pc : RelayPcs, next : Nat, out : {NoMessage} \cup Addressed(D, Reports)]

\* The c_slots on either side of connection k are those that have a queue.
ConnectionTypeOK(k) ==
  LET D == DOMAIN inbox[k] IN
    /\ PartialFunction(inbox[k], CSlots, Seq(Replies))
    /\ PartialFunction(slot_map[k], Slots, D)
    /\ PartialFunction(subscribed[k], Slots, D)
    /\ outgoing[k] \in Seq(Addressed(D, Requests)) /\ Len(outgoing[k]) <= 1
    /\ toServer[k] \in Seq(Addressed(D, Requests))
    /\ work[k] \in Seq(WorkState(D))
    /\ relay[k] \in RelayState(D) /\ relay[k].next <= Len(log)
    /\ relay[k].pc = "sending" <=> relay[k].out # NoMessage
    /\ outbox[k] \in Seq(Addressed(D, Replies)) /\ Len(outbox[k]) <= 1
    /\ toClient[k] \in Seq(Addressed(D, Replies))

UserState == [pc : UserPcs, client : Clients \cup {NoClient},
              c_slot : CSlots \cup {Nothing}, slot : Slots \cup {Nothing}]

\* A user in an operation is on a client, with the slots that the operation has by then.
UserTypeOK(u) ==
  /\ user[u] \in UserState
  /\ user[u].pc # "idle" => user[u].client \in Clients
  /\ user[u].pc \in {"calling", "subscribing", "receiving"}
       => user[u].c_slot \in DOMAIN inbox[user[u].client]
  /\ user[u].pc \in {"subscribing", "looking", "receiving"} => user[u].slot \in Slots

TypeOK ==
  /\ phase \in [Slots -> Phases] /\ sent \in [Slots -> Nat] /\ recorded \in [Slots -> Nat]
  /\ log \in Seq(Message)
  /\ slots \in Nat
  /\ link \in [Clients -> Links] /\ drops \in [Clients -> [CSlots -> Nat]]
  /\ DOMAIN toServer = Clients /\ DOMAIN toClient = Clients
  /\ DOMAIN subscribed = Clients /\ DOMAIN work = Clients
  /\ DOMAIN relay = Clients /\ DOMAIN outbox = Clients
  /\ DOMAIN inbox = Clients /\ DOMAIN slot_map = Clients /\ DOMAIN outgoing = Clients
  /\ DOMAIN user = Users
  /\ \A k \in Clients : ConnectionTypeOK(k)
  /\ \A u \in Users : UserTypeOK(u)

----------------------------------------------------------------------------
\* What the relay has in hand.
InHand(k) == IF relay[k].pc = "sending" THEN <<relay[k].out>> ELSE <<>>

\* The messages of a queue, as they came to c.
Tagged(c, queue) == [i \in 1 .. Len(queue) |-> WireMessage(c, queue[i])]

\* What is on the way to client k, or in its queue for c, oldest first.
Path(k, c) == Tagged(c, inbox[k][c]) \o toClient[k] \o outbox[k] \o InHand(k)

\* What client k has under way before that: in a task, on the wire, or at the client.
Requested(k) == work[k] \o toServer[k] \o outgoing[k]

\* The positions of what is addressed to c.
Of(c, messages) == {i \in 1 .. Len(messages) : messages[i].c_slot = c}

\* The s_slots that messages to c are about.
Mentioned(c, messages) ==
  {messages[i].inner.slot :
     i \in {j \in Of(c, messages) : messages[j].inner.kind \in {"Sub", "RpcReqRslt", "RpcRslt"}}}

\* The s_slots that c is about.
About(k, c) ==
  Mentioned(c, Path(k, c)) \cup Mentioned(c, Requested(k))
    \cup {s \in DOMAIN slot_map[k] : slot_map[k][s] = c}
    \cup {s \in DOMAIN subscribed[k] : subscribed[k][s] = c}

\* OneSlotPerQueue: what arrives for different RPCs never mixes in a queue, nor do
\* server and client map two of them to it, whoever calls, subscribes, refreshes or
\* receives at the same time.
OneSlotPerQueue ==
  \A k \in Clients : \A c \in DOMAIN inbox[k] : Cardinality(About(k, c)) <= 1

Waiting(u, k) == user[u].pc \in {"calling", "subscribing"} /\ user[u].client = k

\* Replies to c that are not results.
Answers(k, c) == {i \in Of(c, Path(k, c)) : Path(k, c)[i].inner.kind # "RpcRslt"}

\* Those of its tasks for c that have panicked.
Panicked(k, c) == {i \in Of(c, work[k]) : work[k][i].step = "panicked"}

\* OneAnswer: for a user that waits there is its request or its answer, once, as
\* long as the connection is up, or else the task that had its request has
\* panicked; and no other answer reaches its queue.
OneAnswer ==
  \A k \in Clients, u \in Users :
    Waiting(u, k) /\ link[k] = "up" =>
      LET c     == user[u].c_slot
          alive == Of(c, Requested(k)) \ Panicked(k, c) IN
        Cardinality(alive) + Cardinality(Answers(k, c)) = IF Panicked(k, c) = {} THEN 1 ELSE 0

\* The user waits, its connection is up, and no task has panicked over its request.
KeepsWaiting(u, k) ==
  Waiting(u, k) /\ link[k] = "up" /\ Panicked(k, user[u].c_slot) = {}

\* CallsReturn: no call and no subscription waits for ever, unless the connection
\* goes, the executor panics over the call for want of a slot, or a handler stalls
\* it for ever; though the server's relay may stop, handlers report while calls
\* come in, and other users may close the client.
CallsReturn ==
  \A k \in Clients, u \in Users :
    <>[]KeepsWaiting(u, k) => <>[](Stalled /\ user[u].pc = "calling")

\* A request with c_slot c is under way or being handled, and its task has not panicked.
UnderWay(k, c) == Of(c, Requested(k)) \ Panicked(k, c) # {}

\* RequestsHandled: no request stays under way for ever, a refresh or UnSub that
\* nobody need wait for no more than others, unless the connection goes or a
\* handler stalls the executor for ever.
RequestsHandled ==
  \A k \in Clients, c \in CSlots :
    <>[](UnderWay(k, c) /\ link[k] = "up") => <>[]Stalled

\* RelayedInOrder: the reports that the relay sends reach a queue in the order of
\* the bus, each once, however replies and refreshes come between them.
RelayedInOrder ==
  \A k \in Clients : \A c \in DOMAIN inbox[k] :
    LET path    == Path(k, c)
        reports == {i \in Of(c, path) : path[i].inner.kind = "RpcRslt" /\ ~path[i].inner.asked} IN
      \A i, j \in reports : i < j => path[i].inner.n < path[j].inner.n

\* The n-th report of s is in a queue of client k.
Queued(k, s, n) ==
  \E c \in DOMAIN inbox[k] : RpcRslt(s, n, FALSE) \in ToSet(inbox[k][c])

\* The n-th report of s is before the relay of k, which is subscribed to s.
Due(k, s, n) ==
  /\ \E i \in relay[k].next + 1 .. Len(log) : log[i] = [slot |-> s, n |-> n]
  /\ s \in DOMAIN subscribed[k]

\* ReportsArrive: once the client is subscribed to a slot, each of its reports
\* comes to a queue, unless the bus overruns the relay, the client unsubscribes
\* or the connection goes; a full outbox loses nothing.
ReportsArrive ==
  \A k \in Clients, s \in Slots : \A n \in 1 .. MaxUpdates + 1 :
    Due(k, s, n) ~> \/ Queued(k, s, n)
                    \/ relay[k].pc = "ended" \/ s \notin DOMAIN subscribed[k] \/ link[k] # "up"

----------------------------------------------------------------------------
\* A call that asked for its result is accepted and about to be subscribed.
ToBeSubscribed(k, s) ==
  \E i \in 1 .. Len(work[k]) : work[k][i].step = "subscribe" /\ work[k][i].inner.slot = s

\* ResultSent: a call that sets `subscribe` asks the server "to automatically send
\* a response to the client when it happens".
ResultSent ==
  \A k \in Clients, s \in Slots :
    [](ToBeSubscribed(k, s) /\ <>(phase[s] = "ended" /\ sent[s] > 0)
         => <>(link[k] # "up" \/ \E n \in 1 .. MaxUpdates + 1 : Queued(k, s, n)))

\* CallUnderstood: the reply to a call is the message call waits for; a call that
\* the server accepts is Ok.
CallUnderstood ==
  \A u \in Users :
    user[u].pc = "calling" /\ inbox[user[u].client][user[u].c_slot] # <<>> =>
      Head(inbox[user[u].client][user[u].c_slot]).kind # "RpcRslt"

\* CloseUnsubscribes: close is to "un-subscribe from all slots".
CloseUnsubscribes ==
  \A k \in Clients : link[k] = "closed" ~> DOMAIN subscribed[k] = {}
============================================================================
