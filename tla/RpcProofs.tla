------------------------------ MODULE RpcProofs ------------------------------
(***************************************************************************)
(* The types of clients and connections, for any clients, users, c_slots,  *)
(* s_slots, bounds and capacity of the bus: whatever either side names is  *)
(* a c_slot that has a queue.                                              *)
(***************************************************************************)
EXTENDS Rpc, SequenceTheorems, TLAPS

----------------------------------------------------------------------------
(* Messages.                                                               *)

LEMMA RequestShapes ==
  ASSUME NEW m \in Requests
  PROVE  /\ m.kind = "RpcReq" => m.subscribe \in BOOLEAN
         /\ m.kind = "RpcReqRslt" => m.slot \in Slots /\ m = RpcReqRslt(m.slot)
         /\ m.kind = "Sub" => m.slot \in Slots /\ m = Sub(m.slot)
         /\ m.kind \in {"RpcReq", "RpcReqRslt", "Sub", "UnSub"}
  BY DEF Requests, RpcReq, RpcReqRslt, Sub, UnSub

LEMMA ReplyShapes ==
  ASSUME NEW m \in Replies
  PROVE  /\ m.kind = "RpcReqRslt" => m.slot \in Slots /\ m = RpcReqRslt(m.slot)
         /\ m.kind = "RpcRslt" => m.slot \in Slots /\ m.n \in Nat
         /\ m.kind \in {"Error", "SubOpFin", "RpcReqRslt", "RpcRslt"}
  BY DEF Replies, RpcReqRslt, Error, SubOpFin

LEMMA MadeRequests ==
  /\ \A b \in BOOLEAN : RpcReq(b) \in Requests
  /\ \A s \in Slots : RpcReqRslt(s) \in Requests /\ Sub(s) \in Requests
  /\ \A set \in SUBSET Slots : UnSub(set) \in Requests
  BY DEF Requests

LEMMA MadeReplies ==
  /\ Error \in Replies /\ SubOpFin \in Replies
  /\ \A s \in Slots : RpcReqRslt(s) \in Replies
  /\ \A s \in Slots, n \in Nat, b \in BOOLEAN : RpcRslt(s, n, b) \in Replies
  /\ \A s \in Slots, n \in Nat : RpcRslt(s, n, FALSE) \in Reports
  /\ Reports \subseteq Replies
  BY DEF Replies, Reports, RpcRslt

----------------------------------------------------------------------------
(* One connection.                                                         *)

\* Nothing of connection j changes, but that reports may be added to the bus.
LEMMA Untouched ==
  ASSUME NEW j \in Clients, ConnectionTypeOK(j), Len(log) <= Len(log)',
         Len(log) \in Nat, Len(log)' \in Nat,
         inbox'[j] = inbox[j], slot_map'[j] = slot_map[j], subscribed'[j] = subscribed[j],
         outgoing'[j] = outgoing[j], toServer'[j] = toServer[j], work'[j] = work[j],
         relay'[j] = relay[j], outbox'[j] = outbox[j], toClient'[j] = toClient[j]
  PROVE  ConnectionTypeOK(j)'
  BY SMTT(30) DEF ConnectionTypeOK, PartialFunction, Addressed, WorkState, RelayState

\* What a queue is added to, or only its contents change.
LEMMA WithMoreQueues ==
  ASSUME NEW j \in Clients, ConnectionTypeOK(j), log' = log,
         DOMAIN inbox[j] \subseteq DOMAIN inbox'[j],
         PartialFunction(inbox'[j], CSlots, Seq(Replies)),
         slot_map'[j] = slot_map[j], subscribed'[j] = subscribed[j],
         toServer'[j] = toServer[j], work'[j] = work[j],
         relay'[j] = relay[j], outbox'[j] = outbox[j], toClient'[j] = toClient[j],
         outgoing'[j] \in Seq(Addressed(DOMAIN inbox'[j], Requests)), Len(outgoing'[j]) <= 1
  PROVE  ConnectionTypeOK(j)'
<1> DEFINE D == DOMAIN inbox[j]
           E == DOMAIN inbox'[j]
<1>1. /\ Addressed(D, Requests) \subseteq Addressed(E, Requests)
      /\ Addressed(D, Replies) \subseteq Addressed(E, Replies)
      /\ WorkState(D) \subseteq WorkState(E)
      /\ RelayState(D) \subseteq RelayState(E)
  BY DEF Addressed, WorkState, RelayState
<1>2. /\ toServer[j] \in Seq(Addressed(E, Requests))
      /\ work[j] \in Seq(WorkState(E))
      /\ outbox[j] \in Seq(Addressed(E, Replies))
      /\ toClient[j] \in Seq(Addressed(E, Replies))
      /\ relay[j] \in RelayState(E)
  BY <1>1, SeqMonotonic DEF ConnectionTypeOK
<1>3. PartialFunction(slot_map[j], Slots, E) /\ PartialFunction(subscribed[j], Slots, E)
  BY DEF ConnectionTypeOK, PartialFunction
<1>4. QED
  BY <1>2, <1>3 DEF ConnectionTypeOK

\* A task of the connection is in another step with another message.
LEMMA TaskUpdate ==
  ASSUME NEW D, NEW tasks \in Seq(WorkState(D)), NEW i \in 1 .. Len(tasks),
         NEW step, NEW message,
         \/ step \in {"executing", "panicked"} /\ message \in {RpcReq(b) : b \in BOOLEAN}
         \/ step = "subscribe" /\ message \in {RpcReqRslt(s) : s \in Slots}
         \/ step = "reply" /\ message \in Replies
  PROVE  [tasks EXCEPT ![i] = [step |-> step, c_slot |-> tasks[i].c_slot, inner |-> message]]
           \in Seq(WorkState(D))
<1>1. tasks[i] \in WorkState(D)
  BY ElementOfSeq
<1>2. [step |-> step, c_slot |-> tasks[i].c_slot, inner |-> message] \in WorkState(D)
  BY <1>1 DEF WorkState
<1>3. QED
  BY <1>2, ExceptSeq

LEMMA RemoveAtType ==
  ASSUME NEW T, NEW s \in Seq(T), NEW i \in 1 .. Len(s)
  PROVE  RemoveAt(s, i) \in Seq(T)
<1>1. Len(s) \in Nat
  BY LenProperties
<1>2. SubSeq(s, 1, i - 1) \in Seq(T) /\ SubSeq(s, i + 1, Len(s)) \in Seq(T)
  BY <1>1, SubSeqProperties, ElementOfSeq
<1>3. QED
  BY <1>2, ConcatProperties DEF RemoveAt

----------------------------------------------------------------------------
(* What an action on connection k leaves alone.                            *)

Domains ==
  /\ DOMAIN toServer = Clients /\ DOMAIN toClient = Clients
  /\ DOMAIN subscribed = Clients /\ DOMAIN work = Clients
  /\ DOMAIN relay = Clients /\ DOMAIN outbox = Clients
  /\ DOMAIN inbox = Clients /\ DOMAIN slot_map = Clients /\ DOMAIN outgoing = Clients

\* The other connections.
Elsewhere(k) ==
  \A j \in Clients \ {k} :
    /\ inbox'[j] = inbox[j] /\ slot_map'[j] = slot_map[j] /\ subscribed'[j] = subscribed[j]
    /\ outgoing'[j] = outgoing[j] /\ toServer'[j] = toServer[j] /\ work'[j] = work[j]
    /\ relay'[j] = relay[j] /\ outbox'[j] = outbox[j] /\ toClient'[j] = toClient[j]

LEMMA ElsewhereTypes ==
  ASSUME TypeOK, NEW k \in Clients, Elsewhere(k), log' = log, ConnectionTypeOK(k)'
  PROVE  \A j \in Clients : ConnectionTypeOK(j)'
<1> SUFFICES ASSUME NEW j \in Clients, j # k PROVE ConnectionTypeOK(j)'
  OBVIOUS
<1>1. Len(log) \in Nat /\ Len(log)' = Len(log)
  BY LenProperties DEF TypeOK
<1>2. QED
  BY <1>1, Untouched DEF TypeOK, Elsewhere

LEMMA UsersUntouched ==
  ASSUME TypeOK, user' = user, \A k \in Clients : DOMAIN inbox[k] \subseteq DOMAIN inbox'[k]
  PROVE  DOMAIN user' = Users /\ \A u \in Users : UserTypeOK(u)'
  BY DEF TypeOK, UserTypeOK

\* What the server does, with one of its connections.
LEMMA ServerSideTypes ==
  ASSUME TypeOK, NEW k \in Clients, Elsewhere(k), Domains', UNCHANGED clientVars,
         log' = log, sent' = sent, recorded' = recorded, phase' \in [Slots -> Phases],
         slots' \in Nat, link' = link, ConnectionTypeOK(k)'
  PROVE  TypeOK'
<1>1. \A j \in Clients : ConnectionTypeOK(j)'
  BY ElsewhereTypes
<1>2. DOMAIN user' = Users /\ \A u \in Users : UserTypeOK(u)'
  BY UsersUntouched DEF clientVars
<1>3. QED
  BY <1>1, <1>2 DEF TypeOK, Domains, clientVars

LEMMA ReadRequestTypes ==
  ASSUME TypeOK, NEW k \in Clients, ReadRequest(k), ServerSide
  PROVE  TypeOK'
<1> DEFINE D == DOMAIN inbox[k]
           m == Head(toServer[k])
           w == [step |-> "handle", c_slot |-> m.c_slot, inner |-> m.inner]
<1>1. m \in Addressed(D, Requests) /\ Tail(toServer[k]) \in Seq(Addressed(D, Requests))
  BY HeadTailProperties DEF TypeOK, ConnectionTypeOK, ReadRequest
<1>2. w \in WorkState(D)
  BY <1>1 DEF Addressed, WorkState
<1>3. Append(work[k], w) \in Seq(WorkState(D))
  BY <1>2, AppendProperties DEF TypeOK, ConnectionTypeOK
<1>4. Elsewhere(k) /\ Domains'
  BY DEF ReadRequest, ServerSide, clientVars, Elsewhere, Domains, TypeOK
<1>5. toServer'[k] = Tail(toServer[k]) /\ work'[k] = Append(work[k], w)
  BY DEF ReadRequest, TypeOK
<1>6. ConnectionTypeOK(k)'
  BY <1>1, <1>3, <1>5 DEF ReadRequest, ServerSide, clientVars, tasksVars, ConnectionTypeOK, TypeOK
<1>7. QED
  BY <1>4, <1>6, ServerSideTypes DEF ReadRequest, ServerSide, tasksVars, TypeOK

\* g is f, but for its value e at k.
Updates(f, g, k, e) == DOMAIN g = DOMAIN f /\ \A j \in DOMAIN f : g[j] = IF j = k THEN e ELSE f[j]

\* A task of connection k goes on, and the subscriptions stay well typed.
LEMMA HandlerTypes ==
  ASSUME TypeOK, NEW k \in Clients, ServerSide, UNCHANGED <<wireVars, relay, outbox, log>>,
         NEW tasks \in Seq(WorkState(DOMAIN inbox[k])), Updates(work, work', k, tasks),
         NEW subs, PartialFunction(subs, Slots, DOMAIN inbox[k]),
         Updates(subscribed, subscribed', k, subs),
         sent' = sent, recorded' = recorded, phase' \in [Slots -> Phases], slots' \in Nat
  PROVE  TypeOK'
<1>1. Elsewhere(k) /\ Domains'
  BY DEF ServerSide, clientVars, wireVars, Elsewhere, Domains, TypeOK, Updates
<1>2. work'[k] = tasks /\ subscribed'[k] = subs
  BY DEF TypeOK, Updates
<1>3. ConnectionTypeOK(k)'
  BY <1>2 DEF ServerSide, clientVars, wireVars, ConnectionTypeOK, TypeOK
<1>4. QED
  BY <1>1, <1>3, ServerSideTypes DEF wireVars, ServerSide

LEMMA ProceedTypes ==
  ASSUME TypeOK, NEW k \in Clients, NEW i \in 1 .. Len(work[k]), NEW step, NEW message,
         \/ step \in {"executing", "panicked"} /\ message \in {RpcReq(b) : b \in BOOLEAN}
         \/ step = "subscribe" /\ message \in {RpcReqRslt(s) : s \in Slots}
         \/ step = "reply" /\ message \in Replies,
         Proceed(k, i, step, message)
  PROVE  \E tasks \in Seq(WorkState(DOMAIN inbox[k])) : Updates(work, work', k, tasks)
<1> DEFINE w     == [step |-> step, c_slot |-> work[k][i].c_slot, inner |-> message]
           tasks == [work[k] EXCEPT ![i] = w]
<1>1. tasks \in Seq(WorkState(DOMAIN inbox[k]))
  BY TaskUpdate DEF TypeOK, ConnectionTypeOK
<1>2. Updates(work, work', k, tasks)
  BY DEF Proceed, TypeOK, Updates
<1>3. QED
  BY <1>1, <1>2

LEMMA SubscriptionsStay ==
  ASSUME TypeOK, NEW k \in Clients, subscribed' = subscribed
  PROVE  /\ PartialFunction(subscribed[k], Slots, DOMAIN inbox[k])
         /\ Updates(subscribed, subscribed', k, subscribed[k])
  BY DEF TypeOK, ConnectionTypeOK, Updates

LEMMA TaskTypes ==
  ASSUME TypeOK, NEW k \in Clients, NEW i \in 1 .. Len(work[k])
  PROVE  /\ work[k][i] \in WorkState(DOMAIN inbox[k])
         /\ work[k][i].c_slot \in DOMAIN inbox[k]
         /\ work[k][i].step = "handle" => work[k][i].inner \in Requests
         /\ work[k][i].inner \in Requests \cup Replies
         /\ work[k][i].step \in {"executing", "panicked"}
              => work[k][i].inner \in {RpcReq(b) : b \in BOOLEAN}
         /\ work[k][i].step = "subscribe"
              => work[k][i].inner \in Replies /\ work[k][i].inner.slot \in Slots
         /\ work[k][i].step = "reply" => work[k][i].inner \in Replies
<1>1. work[k][i] \in WorkState(DOMAIN inbox[k])
  BY ElementOfSeq DEF TypeOK, ConnectionTypeOK
<1>2. {RpcReq(b) : b \in BOOLEAN} \subseteq Requests
  BY DEF Requests
<1>3. QED
  BY <1>1, <1>2 DEF WorkState, Replies, RpcReqRslt

LEMMA RefuseTypes ==
  ASSUME TypeOK, NEW k \in Clients, NEW i \in 1 .. Len(work[k]), Refuse(k, i), ServerSide
  PROVE  TypeOK'
<1>1. PICK tasks \in Seq(WorkState(DOMAIN inbox[k])) : Updates(work, work', k, tasks)
  BY ProceedTypes, MadeReplies DEF Refuse
<1>2. QED
  BY <1>1, SubscriptionsStay, HandlerTypes DEF Refuse, tasksVars, TypeOK

\* A request that is handled has the kind of message it asks for.
LEMMA RequestKinds ==
  ASSUME NEW m \in Requests, m.kind = "RpcReq"
  PROVE  m \in {RpcReq(b) : b \in BOOLEAN}
  BY DEF Requests, RpcReq, Sub, RpcReqRslt, UnSub

LEMMA AssignSlotTypes ==
  ASSUME TypeOK, NEW k \in Clients, NEW i \in 1 .. Len(work[k]),
         AssignSlot(k, i) \/ OutOfSlots(k, i), ServerSide
  PROVE  TypeOK'
<1>1. work[k][i].inner \in {RpcReq(b) : b \in BOOLEAN}
  BY TaskTypes, RequestKinds DEF AssignSlot, OutOfSlots, Handles
<1>2. PICK step \in {"executing", "panicked"} : Proceed(k, i, step, work[k][i].inner)
  BY DEF AssignSlot, OutOfSlots
<1>3. PICK tasks \in Seq(WorkState(DOMAIN inbox[k])) : Updates(work, work', k, tasks)
  BY <1>1, <1>2, ProceedTypes
<1>4. slots' \in Nat
  BY DEF AssignSlot, OutOfSlots, TypeOK
<1>5. QED
  BY <1>3, <1>4, SubscriptionsStay, HandlerTypes DEF AssignSlot, OutOfSlots, tasksVars, TypeOK

LEMMA NoHandlerTypes ==
  ASSUME TypeOK, NEW k \in Clients, NEW i \in 1 .. Len(work[k]), NoHandler(k, i), ServerSide
  PROVE  TypeOK'
<1>1. PICK tasks \in Seq(WorkState(DOMAIN inbox[k])) : Updates(work, work', k, tasks)
  BY ProceedTypes, MadeReplies DEF NoHandler
<1>2. QED
  BY <1>1, SubscriptionsStay, HandlerTypes DEF NoHandler, tasksVars, TypeOK

LEMMA ExecuteTypes ==
  ASSUME TypeOK, NEW k \in Clients, NEW i \in 1 .. Len(work[k]), NEW s \in Slots,
         Execute(k, i, s), ServerSide
  PROVE  TypeOK'
<1> DEFINE step == IF work[k][i].inner.subscribe THEN "subscribe" ELSE "reply"
<1>1. RpcReqRslt(s) \in Replies /\ Proceed(k, i, step, RpcReqRslt(s))
  BY MadeReplies DEF Execute
<1>2. PICK tasks \in Seq(WorkState(DOMAIN inbox[k])) : Updates(work, work', k, tasks)
  BY <1>1, ProceedTypes
<1>3. phase' \in [Slots -> Phases]
  BY DEF Execute, Accept, TypeOK, Phases
<1>4. QED
  BY <1>2, <1>3, SubscriptionsStay, HandlerTypes DEF Execute, Accept, TypeOK

LEMMA SubscribeCallerTypes ==
  ASSUME TypeOK, NEW k \in Clients, NEW i \in 1 .. Len(work[k]), SubscribeCaller(k, i), ServerSide
  PROVE  TypeOK'
<1> DEFINE D     == DOMAIN inbox[k]
           w     == work[k][i]
           subs  == [s \in DOMAIN subscribed[k] \cup {w.inner.slot} |->
                       IF s = w.inner.slot THEN w.c_slot ELSE subscribed[k][s]]
<1>1. w.c_slot \in D /\ w.inner \in Replies /\ w.inner.slot \in Slots
  BY TaskTypes DEF SubscribeCaller
<1>2. Proceed(k, i, "reply", w.inner)
  BY DEF SubscribeCaller
<1>3. PICK tasks \in Seq(WorkState(D)) : Updates(work, work', k, tasks)
  BY <1>1, <1>2, ProceedTypes
<1>4. PartialFunction(subs, Slots, D)
  BY <1>1 DEF TypeOK, ConnectionTypeOK, PartialFunction
<1>5. Updates(subscribed, subscribed', k, subs)
  BY DEF SubscribeCaller, TypeOK, Updates
<1>6. QED
  BY <1>3, <1>4, <1>5, HandlerTypes DEF SubscribeCaller, tasksVars, TypeOK

LEMMA HandleRpcReqResultTypes ==
  ASSUME TypeOK, NEW k \in Clients, NEW i \in 1 .. Len(work[k]),
         HandleRpcReqResult(k, i), ServerSide
  PROVE  TypeOK'
<1> DEFINE s     == work[k][i].inner.slot
           reply == IF phase[s] = "free" THEN Error ELSE RpcRslt(s, recorded[s], TRUE)
<1>1. s \in Slots
  BY TaskTypes, RequestShapes DEF HandleRpcReqResult, Handles
<1>2. reply \in Replies
  BY <1>1, MadeReplies DEF TypeOK
<1>3. Proceed(k, i, "reply", reply)
  BY DEF HandleRpcReqResult
<1>4. PICK tasks \in Seq(WorkState(DOMAIN inbox[k])) : Updates(work, work', k, tasks)
  BY <1>2, <1>3, ProceedTypes
<1>5. QED
  BY <1>4, SubscriptionsStay, HandlerTypes DEF HandleRpcReqResult, tasksVars, TypeOK

LEMMA HandleSubTypes ==
  ASSUME TypeOK, NEW k \in Clients, NEW i \in 1 .. Len(work[k]), HandleSub(k, i), ServerSide
  PROVE  TypeOK'
<1> DEFINE D    == DOMAIN inbox[k]
           w    == work[k][i]
           new  == {w.inner.slot} \ DOMAIN subscribed[k]
           subs == [s \in DOMAIN subscribed[k] \cup new |->
                      IF s \in new THEN w.c_slot ELSE subscribed[k][s]]
<1>1. w.c_slot \in D /\ w.inner.slot \in Slots
  BY TaskTypes, RequestShapes DEF HandleSub, Handles
<1>2. PartialFunction(subs, Slots, D)
  BY <1>1 DEF TypeOK, ConnectionTypeOK, PartialFunction
<1>3. Updates(subscribed, subscribed', k, subs)
  BY DEF HandleSub, TypeOK, Updates
<1>4. PICK tasks \in Seq(WorkState(D)) : Updates(work, work', k, tasks)
  BY ProceedTypes, MadeReplies DEF HandleSub
<1>5. QED
  BY <1>2, <1>3, <1>4, HandlerTypes DEF HandleSub, tasksVars, TypeOK

LEMMA HandleUnsubTypes ==
  ASSUME TypeOK, NEW k \in Clients, NEW i \in 1 .. Len(work[k]), HandleUnsub(k, i), ServerSide
  PROVE  TypeOK'
<1> DEFINE gone == work[k][i].inner.slots \cap DOMAIN subscribed[k]
           subs == [s \in DOMAIN subscribed[k] \ gone |-> subscribed[k][s]]
<1>1. PartialFunction(subs, Slots, DOMAIN inbox[k])
  BY DEF TypeOK, ConnectionTypeOK, PartialFunction
<1>2. Updates(subscribed, subscribed', k, subs)
  BY DEF HandleUnsub, TypeOK, Updates
<1>3. PICK tasks \in Seq(WorkState(DOMAIN inbox[k])) : Updates(work, work', k, tasks)
  BY ProceedTypes, MadeReplies DEF HandleUnsub
<1>4. QED
  BY <1>1, <1>2, <1>3, HandlerTypes DEF HandleUnsub, tasksVars, TypeOK

\* A reply takes a task's place in the outbox.
LEMMA ReplyTypes ==
  ASSUME TypeOK, NEW k \in Clients, NEW i \in 1 .. Len(work[k]), Reply(k, i), ServerSide
  PROVE  TypeOK'
<1> DEFINE D == DOMAIN inbox[k]
           m == WireMessage(work[k][i].c_slot, work[k][i].inner)
<1>1. m \in Addressed(D, Replies)
  BY TaskTypes DEF Reply, WireMessage, Addressed
<1>2. outbox'[k] = <<m>> /\ work'[k] = RemoveAt(work[k], i)
  BY DEF Reply, Enqueue, TaskEnds, TypeOK
<1>3. <<m>> \in Seq(Addressed(D, Replies)) /\ Len(<<m>>) = 1
  BY <1>1
<1>4. work'[k] \in Seq(WorkState(D))
  BY <1>2, RemoveAtType DEF TypeOK, ConnectionTypeOK
<1>5. Elsewhere(k) /\ Domains'
  BY DEF Reply, Enqueue, TaskEnds, ServerSide, clientVars, wireVars, Elsewhere, Domains, TypeOK
<1>6. ConnectionTypeOK(k)'
  BY <1>2, <1>3, <1>4 DEF Reply, ServerSide, clientVars, wireVars, tasksVars, ConnectionTypeOK, TypeOK
<1>7. QED
  BY <1>5, <1>6, ServerSideTypes DEF Reply, ServerSide, wireVars, tasksVars, TypeOK

LEMMA ConnectionTypes ==
  ASSUME TypeOK, NEW k \in Clients
  PROVE  /\ relay[k] \in RelayState(DOMAIN inbox[k]) /\ relay[k].next \in Nat
         /\ relay[k].pc = "sending" <=> relay[k].out # NoMessage
         /\ relay[k].next <= Len(log) /\ Len(log) \in Nat
         /\ outbox[k] \in Seq(Addressed(DOMAIN inbox[k], Replies)) /\ Len(outbox[k]) <= 1
         /\ toClient[k] \in Seq(Addressed(DOMAIN inbox[k], Replies))
         /\ toServer[k] \in Seq(Addressed(DOMAIN inbox[k], Requests))
         /\ outgoing[k] \in Seq(Addressed(DOMAIN inbox[k], Requests)) /\ Len(outgoing[k]) <= 1
         /\ work[k] \in Seq(WorkState(DOMAIN inbox[k]))
  BY LenProperties DEF TypeOK, ConnectionTypeOK, RelayState

\* The relay goes on.
LEMMA RelayTypes ==
  ASSUME TypeOK, NEW k \in Clients, ServerSide, UNCHANGED <<wireVars, slots, subscribed, work, tasksVars>>,
         \A j \in Clients \ {k} : relay'[j] = relay[j] /\ outbox'[j] = outbox[j],
         DOMAIN relay' = Clients, DOMAIN outbox' = Clients,
         relay'[k] \in RelayState(DOMAIN inbox[k]), relay'[k].next <= Len(log),
         relay'[k].pc = "sending" <=> relay'[k].out # NoMessage,
         outbox'[k] \in Seq(Addressed(DOMAIN inbox[k], Replies)), Len(outbox'[k]) <= 1
  PROVE  TypeOK'
<1>1. Elsewhere(k) /\ Domains'
  BY DEF ServerSide, clientVars, wireVars, Elsewhere, Domains, TypeOK
<1>2. ConnectionTypeOK(k)'
  BY DEF ServerSide, clientVars, wireVars, tasksVars, ConnectionTypeOK, TypeOK
<1>3. QED
  BY <1>1, <1>2, ServerSideTypes DEF ServerSide, wireVars, tasksVars, TypeOK

LEMMA RelayReceiveTypes ==
  ASSUME TypeOK, NEW k \in Clients, RelayReceive(k), ServerSide
  PROVE  TypeOK'
<1> DEFINE D    == DOMAIN inbox[k]
           next == relay[k].next + 1
           m    == log[next]
           out  == WireMessage(subscribed[k][m.slot], RpcRslt(m.slot, m.n, FALSE))
<1>1. relay[k] \in RelayState(D) /\ relay[k].next \in Nat /\ Len(log) \in Nat
  BY LenProperties DEF TypeOK, ConnectionTypeOK, RelayState
<1>2. next \in Nat /\ next <= Len(log) /\ m \in Message
  BY <1>1, ElementOfSeq DEF RelayReceive, Receivable, Pending, TypeOK
<1>3. /\ DOMAIN relay' = Clients /\ DOMAIN outbox' = Clients
      /\ \A j \in Clients \ {k} : relay'[j] = relay[j] /\ outbox'[j] = outbox[j]
  BY DEF RelayReceive, TypeOK
<1>4. CASE m.slot \in DOMAIN subscribed[k]
  <2>1. relay'[k] = [pc |-> "sending", next |-> next, out |-> out]
    BY <1>4 DEF RelayReceive, TypeOK
  <2>2. subscribed[k][m.slot] \in D
    BY <1>4 DEF TypeOK, ConnectionTypeOK, PartialFunction
  <2>3. out \in Addressed(D, Reports)
    BY <1>2, <2>2, MadeReplies DEF Message, WireMessage, Addressed
  <2>4. out # NoMessage
    BY DEF WireMessage, NoMessage
  <2> HIDE DEF next, m, out
  <2>5. relay'[k] \in RelayState(D) /\ relay'[k].next = next
        /\ relay'[k].pc = "sending" /\ relay'[k].out # NoMessage
    BY <1>2, <2>1, <2>3, <2>4 DEF RelayState, RelayPcs
  <2>6. QED
    BY <1>2, <1>3, <2>5, ConnectionTypes, RelayTypes DEF RelayReceive
<1>5. CASE m.slot \notin DOMAIN subscribed[k]
  <2>1. relay'[k] = [relay[k] EXCEPT !.next = next]
    BY <1>5 DEF RelayReceive, TypeOK
  <2>2. relay'[k] \in RelayState(D) /\ relay'[k].next = next
        /\ relay'[k].pc = relay[k].pc /\ relay'[k].out = relay[k].out
    BY <1>1, <1>2, <2>1 DEF RelayState
  <2>3. QED
    BY <1>2, <1>3, <2>2, ConnectionTypes, RelayTypes DEF RelayReceive
<1>6. QED
  BY <1>4, <1>5

LEMMA RelayLagTypes ==
  ASSUME TypeOK, NEW k \in Clients, RelayLag(k), ServerSide
  PROVE  TypeOK'
<1>1. relay'[k] = [relay[k] EXCEPT !.pc = "ended"]
  BY DEF RelayLag, TypeOK
<1>2. /\ relay'[k] \in RelayState(DOMAIN inbox[k]) /\ relay'[k].next = relay[k].next
      /\ relay'[k].pc = "ended" /\ relay'[k].out = relay[k].out
  BY <1>1 DEF TypeOK, ConnectionTypeOK, RelayState, RelayPcs
<1>3. QED
  BY <1>2, RelayTypes DEF RelayLag, TypeOK, ConnectionTypeOK

LEMMA RelaySendTypes ==
  ASSUME TypeOK, NEW k \in Clients, RelaySend(k), ServerSide
  PROVE  TypeOK'
<1> DEFINE D == DOMAIN inbox[k]
           m == relay[k].out
<1>1. m \in Addressed(D, Replies)
  BY MadeReplies DEF RelaySend, TypeOK, ConnectionTypeOK, RelayState, Addressed
<1>2. outbox'[k] = <<m>>
  BY DEF RelaySend, Enqueue, TypeOK
<1>3. <<m>> \in Seq(Addressed(D, Replies)) /\ Len(<<m>>) = 1
  BY <1>1
<1>4. relay'[k] = [relay[k] EXCEPT !.pc = "recv", !.out = NoMessage]
  BY DEF RelaySend, RelayListens, TypeOK
<1>5. /\ relay'[k] \in RelayState(D) /\ relay'[k].next = relay[k].next
      /\ relay'[k].pc = "recv" /\ relay'[k].out = NoMessage
  BY <1>4 DEF TypeOK, ConnectionTypeOK, RelayState, RelayPcs
<1>6. /\ DOMAIN relay' = Clients /\ DOMAIN outbox' = Clients
      /\ \A j \in Clients \ {k} : relay'[j] = relay[j] /\ outbox'[j] = outbox[j]
  BY DEF RelaySend, RelayListens, Enqueue, TypeOK
<1> HIDE DEF m
<1>7. outbox'[k] \in Seq(Addressed(D, Replies)) /\ Len(outbox'[k]) <= 1
  BY <1>2, <1>3
<1>8. relay'[k].next <= Len(log) /\ (relay'[k].pc = "sending" <=> relay'[k].out # NoMessage)
  BY <1>5, ConnectionTypes
<1>9. QED
  BY <1>5, <1>6, <1>7, <1>8, RelayTypes DEF RelaySend

LEMMA FlushTypes ==
  ASSUME TypeOK, NEW k \in Clients, Flush(k), ServerSide
  PROVE  TypeOK'
<1> DEFINE D == DOMAIN inbox[k]
<1>1. outbox'[k] = <<>> /\ (toClient'[k] = toClient[k] \o outbox[k] \/ toClient'[k] = toClient[k])
  BY DEF Flush, TypeOK
<1>2. toClient[k] \o outbox[k] \in Seq(Addressed(D, Replies))
  BY ConcatProperties DEF TypeOK, ConnectionTypeOK
<1>3. outbox'[k] \in Seq(Addressed(D, Replies)) /\ Len(outbox'[k]) = 0
  BY <1>1
<1>4. Elsewhere(k) /\ Domains'
  BY DEF Flush, ServerSide, clientVars, Elsewhere, Domains, TypeOK
<1>5. ConnectionTypeOK(k)'
  <2>1. toClient'[k] \in Seq(Addressed(D, Replies))
    BY <1>1, <1>2, ConnectionTypes
  <2>2. QED
    BY <1>3, <2>1 DEF Flush, ServerSide, clientVars, tasksVars, ConnectionTypeOK, TypeOK
<1>6. QED
  BY <1>4, <1>5, ServerSideTypes DEF Flush, ServerSide, tasksVars, TypeOK

----------------------------------------------------------------------------
(* The pieces of what clients do.                                          *)

LEMMA QueueTypes ==
  ASSUME TypeOK, NEW k \in Clients, NEW c \in DOMAIN inbox[k]
  PROVE  c \in CSlots /\ inbox[k][c] \in Seq(Replies)
  BY DEF TypeOK, ConnectionTypeOK, PartialFunction

LEMMA PopTypes ==
  ASSUME TypeOK, NEW k \in Clients, NEW c \in DOMAIN inbox[k], Pop(k, c)
  PROVE  /\ Head(inbox[k][c]) \in Replies
         /\ DOMAIN inbox' = Clients /\ DOMAIN inbox'[k] = DOMAIN inbox[k]
         /\ \A j \in Clients \ {k} : inbox'[j] = inbox[j]
         /\ \A d \in DOMAIN inbox[k] :
              inbox'[k][d] = IF d = c THEN Tail(inbox[k][c]) ELSE inbox[k][d]
         /\ PartialFunction(inbox'[k], CSlots, Seq(Replies))
<1>1. Head(inbox[k][c]) \in Replies /\ Tail(inbox[k][c]) \in Seq(Replies)
  BY QueueTypes, HeadTailProperties DEF Pop
<1>2. inbox'[k] = [inbox[k] EXCEPT ![c] = Tail(inbox[k][c])]
  BY DEF Pop, TypeOK
<1>3. PartialFunction(inbox'[k], CSlots, Seq(Replies)) /\ DOMAIN inbox'[k] = DOMAIN inbox[k]
  BY <1>1, <1>2 DEF PartialFunction, TypeOK, ConnectionTypeOK
<1>4. QED
  BY <1>1, <1>2, <1>3 DEF Pop, TypeOK

LEMMA AllocateTypes ==
  ASSUME TypeOK, NEW k \in Clients, NEW c \in CSlots, Allocate(k, c)
  PROVE  /\ DOMAIN inbox' = Clients /\ DOMAIN inbox'[k] = DOMAIN inbox[k] \cup {c}
         /\ \A j \in Clients \ {k} : inbox'[j] = inbox[j]
         /\ \A d \in DOMAIN inbox[k] : inbox'[k][d] = inbox[k][d]
         /\ c \notin DOMAIN inbox[k] /\ inbox'[k][c] = <<>>
         /\ PartialFunction(inbox'[k], CSlots, Seq(Replies))
<1>1. inbox'[k] = [d \in DOMAIN inbox[k] \cup {c} |-> IF d = c THEN <<>> ELSE inbox[k][d]]
  BY DEF Allocate, TypeOK
<1>2. <<>> \in Seq(Replies)
  BY EmptySeq
<1>3. PartialFunction(inbox'[k], CSlots, Seq(Replies))
  BY <1>1, <1>2 DEF PartialFunction, TypeOK, ConnectionTypeOK
<1>4. QED
  BY <1>1, <1>3 DEF Allocate, TypeOK

LEMMA SendTypes ==
  ASSUME TypeOK, NEW k \in Clients, NEW D, NEW c \in D, NEW message \in Requests,
         Send(k, c, message)
  PROVE  /\ DOMAIN outgoing' = Clients /\ outgoing'[k] = <<WireMessage(c, message)>>
         /\ \A j \in Clients \ {k} : outgoing'[j] = outgoing[j]
         /\ outgoing'[k] \in Seq(Addressed(D, Requests)) /\ Len(outgoing'[k]) <= 1
<1> DEFINE m == WireMessage(c, message)
<1>1. m \in Addressed(D, Requests)
  BY DEF WireMessage, Addressed
<1>2. outgoing'[k] = <<m>> /\ DOMAIN outgoing' = Clients
      /\ \A j \in Clients \ {k} : outgoing'[j] = outgoing[j]
  BY DEF Send, TypeOK
<1> HIDE DEF m
<1>3. <<m>> \in Seq(Addressed(D, Requests)) /\ Len(<<m>>) <= 1
  BY <1>1
<1>4. QED
  BY <1>2, <1>3 DEF m

LEMMA MapTypes ==
  ASSUME TypeOK, NEW k \in Clients, NEW s \in Slots, NEW c \in DOMAIN inbox[k], Map(k, s, c)
  PROVE  /\ DOMAIN slot_map' = Clients /\ \A j \in Clients \ {k} : slot_map'[j] = slot_map[j]
         /\ slot_map'[k] = [t \in DOMAIN slot_map[k] \cup {s} |-> IF t = s THEN c ELSE slot_map[k][t]]
         /\ PartialFunction(slot_map'[k], Slots, DOMAIN inbox[k])
<1>1. slot_map'[k] = [t \in DOMAIN slot_map[k] \cup {s} |-> IF t = s THEN c ELSE slot_map[k][t]]
  BY DEF Map, TypeOK
<1>2. PartialFunction(slot_map'[k], Slots, DOMAIN inbox[k])
  BY <1>1 DEF PartialFunction, TypeOK, ConnectionTypeOK
<1>3. QED
  BY <1>1, <1>2 DEF Map, TypeOK

LEMMA DroppingTypes ==
  ASSUME TypeOK, NEW k \in Clients, NEW set, Dropping(k, set)
  PROVE  drops' \in [Clients -> [CSlots -> Nat]]
<1> DEFINE new == [c \in CSlots |-> drops[k][c] + IF c \in set \cap Slots THEN 1 ELSE 0]
<1>1. new \in [CSlots -> Nat]
  BY DEF TypeOK
<1>2. drops' = [drops EXCEPT ![k] = new]
  BY DEF Dropping, TypeOK
<1>3. QED
  BY <1>1, <1>2 DEF TypeOK

\* A slot that is mapped has a queue.
LEMMA MappedTypes ==
  ASSUME TypeOK, NEW k \in Clients, NEW s \in DOMAIN slot_map[k]
  PROVE  s \in Slots /\ slot_map[k][s] \in DOMAIN inbox[k]
  BY DEF TypeOK, ConnectionTypeOK, PartialFunction

\* One user goes on; queues are never taken away.
LEMMA UserTypes ==
  ASSUME TypeOK, NEW u \in Users, DOMAIN user' = Users,
         \A v \in Users \ {u} : user'[v] = user[v],
         \A k \in Clients : DOMAIN inbox[k] \subseteq DOMAIN inbox'[k],
         UserTypeOK(u)'
  PROVE  \A v \in Users : UserTypeOK(v)'
  BY DEF TypeOK, UserTypeOK

LEMMA EndTypes ==
  ASSUME TypeOK, NEW u \in Users, End(u),
         \A k \in Clients : DOMAIN inbox[k] \subseteq DOMAIN inbox'[k]
  PROVE  DOMAIN user' = Users /\ \A v \in Users : UserTypeOK(v)'
<1>1. /\ user'[u] = Resting /\ DOMAIN user' = Users
      /\ \A v \in Users \ {u} : user'[v] = user[v]
  BY DEF End, TypeOK
<1>2. UserTypeOK(u)'
  BY <1>1 DEF UserTypeOK, UserState, UserPcs, Resting
<1>3. QED
  BY <1>1, <1>2, UserTypes

LEMMA BeginTypes ==
  ASSUME TypeOK, NEW u \in Users, NEW pc, NEW k \in Clients, NEW c, NEW s, Begin(u, pc, k, c, s),
         \A j \in Clients : DOMAIN inbox[j] \subseteq DOMAIN inbox'[j],
         \/ pc = "calling" /\ c \in CSlots /\ c \in DOMAIN inbox'[k] /\ s = Nothing
         \/ pc = "subscribing" /\ c \in CSlots /\ c \in DOMAIN inbox'[k] /\ s \in Slots
         \/ pc = "looking" /\ c = Nothing /\ s \in Slots
         \/ pc = "closing" /\ c = Nothing /\ s = Nothing
  PROVE  DOMAIN user' = Users /\ \A v \in Users : UserTypeOK(v)'
<1>1. /\ user'[u] = [pc |-> pc, client |-> k, c_slot |-> c, slot |-> s] /\ DOMAIN user' = Users
      /\ \A v \in Users \ {u} : user'[v] = user[v]
  BY DEF Begin, TypeOK
<1>2. UserTypeOK(u)'
  BY <1>1 DEF UserTypeOK, UserState, UserPcs
<1>3. QED
  BY <1>1, <1>2, UserTypes

\* What a client does.
LEMMA ClientSideTypes ==
  ASSUME TypeOK, NEW k \in Clients, Elsewhere(k), Domains', UNCHANGED <<slots, tasksVars>>,
         link' \in [Clients -> Links], drops' \in [Clients -> [CSlots -> Nat]],
         ConnectionTypeOK(k)', DOMAIN user' = Users, \A u \in Users : UserTypeOK(u)'
  PROVE  TypeOK'
<1>1. \A j \in Clients : ConnectionTypeOK(j)'
  BY ElsewhereTypes DEF tasksVars
<1>2. QED
  BY <1>1 DEF TypeOK, Domains, tasksVars

----------------------------------------------------------------------------
(* Connections come and go, and messages move.                             *)

LEMMA ConnectTypes ==
  ASSUME TypeOK, NEW k \in Clients, Connect(k)
  PROVE  TypeOK'
<1>1. relay'[k] = [relay[k] EXCEPT !.pc = "recv", !.next = Len(log)]
  BY DEF Connect, AcceptConnection, TypeOK
<1>2. relay[k].pc = "off" /\ relay[k] \in RelayState(DOMAIN inbox[k]) /\ Len(log) \in Nat
      /\ (relay[k].pc = "sending" <=> relay[k].out # NoMessage)
  BY ConnectionTypes DEF Connect, AcceptConnection
<1>3. /\ relay'[k] \in RelayState(DOMAIN inbox[k]) /\ relay'[k].next = Len(log)
      /\ relay'[k].pc = "recv" /\ relay'[k].out = NoMessage
  BY <1>1, <1>2 DEF RelayState, RelayPcs
<1>4. Elsewhere(k) /\ Domains' /\ link' \in [Clients -> Links]
  BY DEF Connect, Open, AcceptConnection, clientVars, Elsewhere, Domains, TypeOK, Links
<1>5. ConnectionTypeOK(k)'
  BY <1>2, <1>3 DEF Connect, Open, AcceptConnection, clientVars, tasksVars, ConnectionTypeOK, TypeOK
<1>6. DOMAIN user' = Users /\ \A u \in Users : UserTypeOK(u)'
  BY UsersUntouched DEF Connect, Open, clientVars
<1>7. QED
  BY <1>4, <1>5, <1>6, ClientSideTypes DEF Connect, Open, AcceptConnection, clientVars, TypeOK

LEMMA DisconnectTypes ==
  ASSUME TypeOK, NEW k \in Clients, Disconnect(k), UNCHANGED <<tasksVars, connectionVars, clientVars>>
  PROVE  TypeOK'
<1>1. toServer'[k] = <<>> /\ toClient'[k] = <<>>
  BY DEF Disconnect, TypeOK
<1>2. /\ toServer'[k] \in Seq(Addressed(DOMAIN inbox[k], Requests))
      /\ toClient'[k] \in Seq(Addressed(DOMAIN inbox[k], Replies))
  BY <1>1
<1>3. Elsewhere(k) /\ Domains' /\ link' \in [Clients -> Links]
  BY DEF Disconnect, connectionVars, clientVars, Elsewhere, Domains, TypeOK, Links
<1>4. ConnectionTypeOK(k)'
  BY <1>2 DEF connectionVars, clientVars, tasksVars, ConnectionTypeOK, TypeOK
<1>5. DOMAIN user' = Users /\ \A u \in Users : UserTypeOK(u)'
  BY UsersUntouched DEF clientVars
<1>6. QED
  BY <1>3, <1>4, <1>5, ClientSideTypes DEF clientVars, connectionVars, TypeOK

LEMMA DeliverTypes ==
  ASSUME TypeOK, NEW k \in Clients, Deliver(k), ClientSide
  PROVE  TypeOK'
<1> DEFINE D == DOMAIN inbox[k]
           m == Head(toClient[k])
<1>1. m \in Addressed(D, Replies) /\ Tail(toClient[k]) \in Seq(Addressed(D, Replies))
  BY HeadTailProperties, ConnectionTypes DEF Deliver
<1>2. inbox'[k] = [c \in D |-> IF c = m.c_slot THEN Append(inbox[k][c], m.inner) ELSE inbox[k][c]]
  BY DEF Deliver, TypeOK
<1>3. PartialFunction(inbox'[k], CSlots, Seq(Replies)) /\ DOMAIN inbox'[k] = D
  <2>1. m.inner \in Replies
    BY <1>1 DEF Addressed
  <2> HIDE DEF m
  <2>2. \A c \in D : inbox[k][c] \in Seq(Replies) /\ Append(inbox[k][c], m.inner) \in Seq(Replies)
    BY <2>1, AppendProperties, QueueTypes
  <2>3. QED
    BY <1>2, <2>2 DEF PartialFunction, TypeOK, ConnectionTypeOK
<1>4. toClient'[k] = Tail(toClient[k])
  BY DEF Deliver, TypeOK
<1>5. Elsewhere(k) /\ Domains'
  BY DEF Deliver, ClientSide, connectionVars, Elsewhere, Domains, TypeOK
<1>6. ConnectionTypeOK(k)'
  BY <1>1, <1>3, <1>4 DEF Deliver, ClientSide, tasksVars, connectionVars, ConnectionTypeOK, TypeOK
<1>7. \A j \in Clients : DOMAIN inbox[j] \subseteq DOMAIN inbox'[j]
  BY <1>3, <1>5 DEF Elsewhere
<1>8. DOMAIN user' = Users /\ \A u \in Users : UserTypeOK(u)'
  BY <1>7, UsersUntouched DEF Deliver
<1>9. QED
  BY <1>5, <1>6, <1>8, ClientSideTypes DEF Deliver, ClientSide, connectionVars, TypeOK

LEMMA WriteTypes ==
  ASSUME TypeOK, NEW k \in Clients, Write(k), ClientSide
  PROVE  TypeOK'
<1> DEFINE D == DOMAIN inbox[k]
<1>1. outgoing'[k] = <<>>
      /\ (toServer'[k] = toServer[k] \o outgoing[k] \/ toServer'[k] = toServer[k])
  BY DEF Write, TypeOK
<1>2. toServer[k] \o outgoing[k] \in Seq(Addressed(D, Requests))
  BY ConcatProperties, ConnectionTypes
<1>3. /\ outgoing'[k] \in Seq(Addressed(D, Requests)) /\ Len(outgoing'[k]) <= 1
      /\ toServer'[k] \in Seq(Addressed(D, Requests))
  <2>1. <<>> \in Seq(Addressed(D, Requests)) /\ Len(<<>>) <= 1
    BY EmptySeq
  <2>2. QED
    BY <1>1, <1>2, <2>1, ConnectionTypes
<1>4. Elsewhere(k) /\ Domains'
  BY DEF Write, ClientSide, connectionVars, Elsewhere, Domains, TypeOK
<1>5. ConnectionTypeOK(k)'
  BY <1>3 DEF Write, ClientSide, tasksVars, connectionVars, ConnectionTypeOK, TypeOK
<1>6. DOMAIN user' = Users /\ \A u \in Users : UserTypeOK(u)'
  BY UsersUntouched DEF Write
<1>7. QED
  BY <1>4, <1>5, <1>6, ClientSideTypes DEF Write, ClientSide, connectionVars, TypeOK

LEMMA DropCSlotTypes ==
  ASSUME TypeOK, NEW k \in Clients, NEW c \in CSlots, DropCSlot(k, c), ClientSide
  PROVE  TypeOK'
<1> DEFINE left == [d \in CSlots |-> drops[k][d] - (IF d = c THEN 1 ELSE 0)
                                  + (IF d \in Replaced(k, c) \cap Slots THEN 1 ELSE 0)]
<1>1. slot_map'[k] = [s \in DOMAIN slot_map[k] \ {c} |-> slot_map[k][s]]
  BY DEF DropCSlot, TypeOK
<1>2. PartialFunction(slot_map'[k], Slots, DOMAIN inbox[k])
  BY <1>1 DEF PartialFunction, TypeOK, ConnectionTypeOK
<1>3. drops' = [drops EXCEPT ![k] = left]
  BY DEF DropCSlot, TypeOK
<1>4. left \in [CSlots -> Nat]
  BY DEF DropCSlot, TypeOK
<1>5. drops' \in [Clients -> [CSlots -> Nat]]
  BY <1>3, <1>4 DEF TypeOK
<1>6. Elsewhere(k) /\ Domains'
  BY DEF DropCSlot, ClientSide, wireVars, connectionVars, Elsewhere, Domains, TypeOK
<1>7. ConnectionTypeOK(k)'
  BY <1>2 DEF DropCSlot, ClientSide, wireVars, tasksVars, connectionVars, ConnectionTypeOK, TypeOK
<1>8. DOMAIN user' = Users /\ \A u \in Users : UserTypeOK(u)'
  BY UsersUntouched DEF DropCSlot
<1>9. QED
  BY <1>5, <1>6, <1>7, <1>8, ClientSideTypes DEF DropCSlot, ClientSide, connectionVars, wireVars, TypeOK

----------------------------------------------------------------------------
(* What users do.                                                          *)

\* A connection changes in what its users keep of it, and in no other part.
LEMMA UserSideTypes ==
  ASSUME TypeOK, NEW k \in Clients, ClientSide, UNCHANGED wireVars,
         DOMAIN inbox' = Clients, DOMAIN slot_map' = Clients, DOMAIN outgoing' = Clients,
         \A j \in Clients \ {k} :
           inbox'[j] = inbox[j] /\ slot_map'[j] = slot_map[j] /\ outgoing'[j] = outgoing[j],
         DOMAIN inbox[k] \subseteq DOMAIN inbox'[k],
         PartialFunction(inbox'[k], CSlots, Seq(Replies)),
         PartialFunction(slot_map'[k], Slots, DOMAIN inbox[k]),
         outgoing'[k] \in Seq(Addressed(DOMAIN inbox'[k], Requests)), Len(outgoing'[k]) <= 1,
         drops' \in [Clients -> [CSlots -> Nat]],
         DOMAIN user' = Users, \A u \in Users : UserTypeOK(u)'
  PROVE  TypeOK'
<1> DEFINE D == DOMAIN inbox[k]
           E == DOMAIN inbox'[k]
<1>1. Elsewhere(k) /\ Domains' /\ link' = link
  BY DEF ClientSide, wireVars, connectionVars, Elsewhere, Domains, TypeOK
<1>2. /\ Addressed(D, Requests) \subseteq Addressed(E, Requests)
      /\ Addressed(D, Replies) \subseteq Addressed(E, Replies)
      /\ WorkState(D) \subseteq WorkState(E)
      /\ RelayState(D) \subseteq RelayState(E)
  BY DEF Addressed, WorkState, RelayState
<1>3. /\ toServer[k] \in Seq(Addressed(E, Requests))
      /\ work[k] \in Seq(WorkState(E))
      /\ outbox[k] \in Seq(Addressed(E, Replies))
      /\ toClient[k] \in Seq(Addressed(E, Replies))
      /\ relay[k] \in RelayState(E)
  BY <1>2, SeqMonotonic, ConnectionTypes
<1>4. PartialFunction(slot_map'[k], Slots, E) /\ PartialFunction(subscribed[k], Slots, E)
  BY DEF TypeOK, ConnectionTypeOK, PartialFunction
<1>5. ConnectionTypeOK(k)'
  BY <1>3, <1>4, ConnectionTypes
    DEF ClientSide, wireVars, tasksVars, connectionVars, ConnectionTypeOK
<1>6. QED
  BY <1>1, <1>5, ClientSideTypes DEF ClientSide, connectionVars, TypeOK

\* The parts that an operation leaves alone.
LEMMA KeptTypes ==
  ASSUME TypeOK, NEW k \in Clients
  PROVE  /\ PartialFunction(inbox[k], CSlots, Seq(Replies))
         /\ PartialFunction(slot_map[k], Slots, DOMAIN inbox[k])
         /\ outgoing[k] \in Seq(Addressed(DOMAIN inbox[k], Requests)) /\ Len(outgoing[k]) <= 1
         /\ DOMAIN inbox = Clients /\ DOMAIN slot_map = Clients /\ DOMAIN outgoing = Clients
         /\ drops \in [Clients -> [CSlots -> Nat]]
  BY DEF TypeOK, ConnectionTypeOK

LEMMA CallTypes ==
  ASSUME TypeOK, NEW u \in Users, NEW k \in Clients, NEW c \in CSlots, NEW subscribe \in BOOLEAN,
         Call(u, k, c, subscribe), ClientSide
  PROVE  TypeOK'
<1>1. Allocate(k, c) /\ Send(k, c, RpcReq(subscribe)) /\ Begin(u, "calling", k, c, Nothing)
      /\ UNCHANGED <<wireVars, slot_map, drops>>
  BY DEF Call
<1>2. DOMAIN inbox'[k] = DOMAIN inbox[k] \cup {c} /\ DOMAIN inbox' = Clients
      /\ PartialFunction(inbox'[k], CSlots, Seq(Replies))
      /\ \A j \in Clients \ {k} : inbox'[j] = inbox[j]
  BY <1>1, AllocateTypes
<1>3. DOMAIN outgoing' = Clients /\ Len(outgoing'[k]) <= 1
      /\ outgoing'[k] \in Seq(Addressed(DOMAIN inbox'[k], Requests))
      /\ \A j \in Clients \ {k} : outgoing'[j] = outgoing[j]
  BY <1>1, <1>2, SendTypes, MadeRequests
<1>4. DOMAIN user' = Users /\ \A v \in Users : UserTypeOK(v)'
  BY <1>1, <1>2, BeginTypes
<1>5. QED
  BY <1>1, <1>2, <1>3, <1>4, KeptTypes, UserSideTypes

LEMMA SubscribeTypes ==
  ASSUME TypeOK, NEW u \in Users, NEW k \in Clients, NEW c \in CSlots, NEW s \in Slots,
         Subscribe(u, k, c, s), ClientSide
  PROVE  TypeOK'
<1>1. Allocate(k, c) /\ Send(k, c, Sub(s)) /\ Begin(u, "subscribing", k, c, s)
      /\ UNCHANGED <<wireVars, slot_map, drops>>
  BY DEF Subscribe
<1>2. DOMAIN inbox'[k] = DOMAIN inbox[k] \cup {c} /\ DOMAIN inbox' = Clients
      /\ PartialFunction(inbox'[k], CSlots, Seq(Replies))
      /\ \A j \in Clients \ {k} : inbox'[j] = inbox[j]
  BY <1>1, AllocateTypes
<1>3. DOMAIN outgoing' = Clients /\ Len(outgoing'[k]) <= 1
      /\ outgoing'[k] \in Seq(Addressed(DOMAIN inbox'[k], Requests))
      /\ \A j \in Clients \ {k} : outgoing'[j] = outgoing[j]
  BY <1>1, <1>2, SendTypes, MadeRequests
<1>4. DOMAIN user' = Users /\ \A v \in Users : UserTypeOK(v)'
  BY <1>1, <1>2, BeginTypes
<1>5. QED
  BY <1>1, <1>2, <1>3, <1>4, KeptTypes, UserSideTypes

LEMMA RefreshTypes ==
  ASSUME TypeOK, NEW u \in Users, NEW k \in Clients, NEW s \in Slots, Refresh(u, k, s), ClientSide
  PROVE  TypeOK'
<1>1. Send(k, slot_map[k][s], RpcReqRslt(s)) /\ Dropping(k, {slot_map[k][s]})
      /\ s \in DOMAIN slot_map[k] /\ UNCHANGED <<wireVars, inbox, slot_map, user>>
  BY DEF Refresh
<1>2. slot_map[k][s] \in DOMAIN inbox[k]
  BY <1>1, MappedTypes
<1>3. DOMAIN outgoing' = Clients /\ Len(outgoing'[k]) <= 1
      /\ outgoing'[k] \in Seq(Addressed(DOMAIN inbox[k], Requests))
      /\ \A j \in Clients \ {k} : outgoing'[j] = outgoing[j]
  BY <1>1, <1>2, SendTypes, MadeRequests
<1>4. DOMAIN user' = Users /\ \A v \in Users : UserTypeOK(v)'
  BY <1>1, UsersUntouched
<1>5. drops' \in [Clients -> [CSlots -> Nat]]
  BY <1>1, DroppingTypes
<1>6. QED
  BY <1>1, <1>3, <1>4, <1>5, KeptTypes, UserSideTypes

LEMMA TryReceiveTypes ==
  ASSUME TypeOK, NEW u \in Users, NEW k \in Clients, NEW s \in Slots, TryReceive(u, k, s), ClientSide
  PROVE  TypeOK'
<1>1. Pop(k, slot_map[k][s]) /\ Dropping(k, {slot_map[k][s]})
      /\ s \in DOMAIN slot_map[k] /\ UNCHANGED <<wireVars, slot_map, outgoing, user>>
  BY DEF TryReceive
<1>2. slot_map[k][s] \in DOMAIN inbox[k]
  BY <1>1, MappedTypes
<1>3. DOMAIN inbox' = Clients /\ DOMAIN inbox'[k] = DOMAIN inbox[k]
      /\ PartialFunction(inbox'[k], CSlots, Seq(Replies))
      /\ \A j \in Clients \ {k} : inbox'[j] = inbox[j]
  BY <1>1, <1>2, PopTypes
<1>4. DOMAIN user' = Users /\ \A v \in Users : UserTypeOK(v)'
  BY <1>1, <1>3, UsersUntouched
<1>5. drops' \in [Clients -> [CSlots -> Nat]]
  BY <1>1, DroppingTypes
<1>6. QED
  BY <1>1, <1>3, <1>4, <1>5, KeptTypes, UserSideTypes

\* Operations that only the user itself takes note of.
LEMMA UserOnlyTypes ==
  ASSUME TypeOK, ClientSide, UNCHANGED <<wireVars, othersVars>>,
         DOMAIN user' = Users, \A v \in Users : UserTypeOK(v)'
  PROVE  TypeOK'
<1>1. \A j \in Clients : ConnectionTypeOK(j)'
  BY DEF TypeOK, ConnectionTypeOK, ClientSide, wireVars, othersVars, tasksVars, connectionVars
<1>2. QED
  BY <1>1 DEF TypeOK, ClientSide, wireVars, othersVars, tasksVars, connectionVars

LEMMA ReceiveTypes ==
  ASSUME TypeOK, NEW u \in Users, NEW k \in Clients, NEW s \in Slots, Receive(u, k, s), ClientSide
  PROVE  TypeOK'
<1>1. DOMAIN user' = Users /\ \A v \in Users : UserTypeOK(v)'
  BY BeginTypes DEF Receive, othersVars
<1>2. QED
  BY <1>1, UserOnlyTypes DEF Receive

LEMMA CloseTypes ==
  ASSUME TypeOK, NEW u \in Users, NEW k \in Clients, Close(u, k), ClientSide
  PROVE  TypeOK'
<1>1. DOMAIN user' = Users /\ \A v \in Users : UserTypeOK(v)'
  BY BeginTypes DEF Close, othersVars
<1>2. QED
  BY <1>1, UserOnlyTypes DEF Close

LEMMA EngagedTypes ==
  ASSUME TypeOK, NEW u \in Users, user[u].pc # "idle"
  PROVE  /\ user[u].client \in Clients
         /\ user[u].pc \in {"calling", "subscribing", "receiving"}
              => user[u].c_slot \in DOMAIN inbox[user[u].client]
         /\ user[u].pc \in {"subscribing", "looking", "receiving"} => user[u].slot \in Slots
  BY DEF TypeOK, UserTypeOK

\* The reply is popped; the slot is mapped or not.
LEMMA ReturnTypes ==
  ASSUME TypeOK, NEW u \in Users, user[u].pc \in {"calling", "subscribing"},
         NEW k, k = user[u].client, NEW c, c = user[u].c_slot, NEW set,
         Pop(k, c), UNCHANGED slot_map \/ \E s \in Slots : Map(k, s, c), Dropping(k, set), End(u),
         UNCHANGED <<wireVars, outgoing>>, ClientSide
  PROVE  TypeOK'
<1>1. k \in Clients /\ c \in DOMAIN inbox[k]
  BY EngagedTypes
<1>2. DOMAIN inbox' = Clients /\ DOMAIN inbox'[k] = DOMAIN inbox[k]
      /\ PartialFunction(inbox'[k], CSlots, Seq(Replies))
      /\ \A j \in Clients \ {k} : inbox'[j] = inbox[j]
  BY <1>1, PopTypes
<1>3. DOMAIN slot_map' = Clients /\ PartialFunction(slot_map'[k], Slots, DOMAIN inbox[k])
      /\ \A j \in Clients \ {k} : slot_map'[j] = slot_map[j]
  BY <1>1, MapTypes, KeptTypes
<1>4. DOMAIN user' = Users /\ \A v \in Users : UserTypeOK(v)'
  BY <1>1, <1>2, EndTypes
<1>5. drops' \in [Clients -> [CSlots -> Nat]]
  BY <1>1, DroppingTypes
<1>6. QED
  BY <1>1, <1>2, <1>3, <1>4, <1>5, KeptTypes, UserSideTypes

LEMMA CallReturnsTypes ==
  ASSUME TypeOK, NEW u \in Users, CallReturns(u), ClientSide
  PROVE  TypeOK'
<1> DEFINE k == user[u].client
           c == user[u].c_slot
           m == Head(inbox[k][c])
<1>1. user[u].pc = "calling" /\ Pop(k, c) /\ End(u) /\ UNCHANGED <<wireVars, outgoing>>
  BY DEF CallReturns
<1>2. m \in Replies
  BY <1>1, EngagedTypes, PopTypes
<1>3. CASE m.kind = "RpcReqRslt"
  <2>1. m.slot \in Slots
    BY <1>2, <1>3, ReplyShapes
  <2>2. Map(k, m.slot, c) /\ Dropping(k, {c} \cup Replaced(k, m.slot))
    BY <1>3 DEF CallReturns
  <2>3. QED
    BY <1>1, <2>1, <2>2, ReturnTypes
<1>4. CASE m.kind # "RpcReqRslt"
  <2>1. UNCHANGED slot_map /\ Dropping(k, {c})
    BY <1>4 DEF CallReturns
  <2>2. QED
    BY <1>1, <2>1, ReturnTypes
<1>5. QED
  BY <1>3, <1>4

LEMMA SubscribeReturnsTypes ==
  ASSUME TypeOK, NEW u \in Users, SubscribeReturns(u), ClientSide
  PROVE  TypeOK'
<1> DEFINE k == user[u].client
           c == user[u].c_slot
           s == user[u].slot
<1>1. user[u].pc = "subscribing" /\ Pop(k, c) /\ End(u) /\ UNCHANGED <<wireVars, outgoing>>
  BY DEF SubscribeReturns
<1>2. s \in Slots
  BY <1>1, EngagedTypes
<1>3. \/ Map(k, s, c) /\ Dropping(k, Replaced(k, s))
      \/ UNCHANGED slot_map /\ Dropping(k, {c})
  BY DEF SubscribeReturns
<1>4. QED
  BY <1>1, <1>2, <1>3, ReturnTypes

LEMMA LookUpTypes ==
  ASSUME TypeOK, NEW u \in Users, LookUp(u), ClientSide
  PROVE  TypeOK'
<1> DEFINE k == user[u].client
           s == user[u].slot
<1>1. k \in Clients /\ s \in Slots /\ s \in DOMAIN slot_map[k] /\ user[u] \in UserState
  BY EngagedTypes DEF LookUp, TypeOK, UserTypeOK
<1>2. slot_map[k][s] \in DOMAIN inbox[k] /\ slot_map[k][s] \in CSlots
  BY <1>1, MappedTypes, QueueTypes
<1>3. user'[u] = [user[u] EXCEPT !.pc = "receiving", !.c_slot = slot_map[k][s]]
      /\ DOMAIN user' = Users /\ \A v \in Users \ {u} : user'[v] = user[v]
  BY DEF LookUp, TypeOK
<1>4. /\ user'[u] \in UserState /\ user'[u].pc = "receiving" /\ user'[u].client = k
      /\ user'[u].c_slot = slot_map[k][s] /\ user'[u].slot = s
  BY <1>1, <1>2, <1>3 DEF UserState, UserPcs
<1>5. inbox' = inbox
  BY DEF LookUp, othersVars
<1>6. UserTypeOK(u)'
  BY <1>1, <1>2, <1>4, <1>5 DEF UserTypeOK
<1>7. QED
  BY <1>3, <1>5, <1>6, UserTypes, UserOnlyTypes DEF LookUp

LEMMA NotSubscribedTypes ==
  ASSUME TypeOK, NEW u \in Users, NotSubscribed(u) \/ ClosePanics(u), ClientSide
  PROVE  TypeOK'
<1>1. End(u) /\ UNCHANGED <<wireVars, othersVars>>
  BY DEF NotSubscribed, ClosePanics
<1>2. DOMAIN user' = Users /\ \A v \in Users : UserTypeOK(v)'
  BY <1>1, EndTypes DEF othersVars
<1>3. QED
  BY <1>1, <1>2, UserOnlyTypes

LEMMA ReceivedTypes ==
  ASSUME TypeOK, NEW u \in Users, Received(u), ClientSide
  PROVE  TypeOK'
<1> DEFINE k == user[u].client
           c == user[u].c_slot
<1>1. Pop(k, c) /\ Dropping(k, {c}) /\ UNCHANGED <<wireVars, slot_map, outgoing>>
      /\ user[u].pc = "receiving"
  BY DEF Received
<1>2. k \in Clients /\ c \in DOMAIN inbox[k] /\ user[u].slot \in Slots
  BY <1>1, EngagedTypes
<1>3. DOMAIN inbox' = Clients /\ DOMAIN inbox'[k] = DOMAIN inbox[k]
      /\ PartialFunction(inbox'[k], CSlots, Seq(Replies))
      /\ \A j \in Clients \ {k} : inbox'[j] = inbox[j]
  BY <1>1, <1>2, PopTypes
<1>4. drops' \in [Clients -> [CSlots -> Nat]]
  BY <1>1, <1>2, DroppingTypes
<1>5. DOMAIN user' = Users /\ \A v \in Users : UserTypeOK(v)'
  <2>1. CASE End(u)
    BY <1>3, <2>1, EndTypes
  <2>2. CASE user' = [user EXCEPT ![u].pc = "looking", ![u].c_slot = Nothing]
    <3>1. user'[u] = [user[u] EXCEPT !.pc = "looking", !.c_slot = Nothing]
          /\ DOMAIN user' = Users /\ \A v \in Users \ {u} : user'[v] = user[v]
      BY <2>2 DEF TypeOK
    <3>2. user[u] \in UserState
      BY DEF TypeOK, UserTypeOK
    <3>3. /\ user'[u] \in UserState /\ user'[u].pc = "looking" /\ user'[u].client = k
          /\ user'[u].slot = user[u].slot
      BY <3>1, <3>2 DEF UserState, UserPcs
    <3>4. UserTypeOK(u)'
      BY <1>2, <3>3 DEF UserTypeOK
    <3>5. QED
      BY <1>3, <3>1, <3>4, UserTypes
  <2>3. QED
    BY <2>1, <2>2 DEF Received
<1>6. QED
  BY <1>1, <1>2, <1>3, <1>4, <1>5, KeptTypes, UserSideTypes

LEMMA CloseSendTypes ==
  ASSUME TypeOK, NEW u \in Users, NEW c \in CSlots, CloseSend(u, c), ClientSide
  PROVE  TypeOK'
<1> DEFINE k == user[u].client
           d == IF link[k] = "closed" THEN Nothing ELSE c
<1>1. k \in Clients /\ user[u] \in UserState
  BY EngagedTypes DEF CloseSend, TypeOK, UserTypeOK
<1>2. /\ user'[u] = [user[u] EXCEPT !.pc = "aborting", !.c_slot = d]
      /\ DOMAIN user' = Users /\ \A v \in Users \ {u} : user'[v] = user[v]
      /\ UNCHANGED <<wireVars, slot_map, drops>>
  BY DEF CloseSend, TypeOK
<1>3. user'[u] \in UserState /\ user'[u].pc = "aborting" /\ user'[u].client = k
  BY <1>1, <1>2 DEF UserState, UserPcs
<1>4. UserTypeOK(u)'
  BY <1>1, <1>3 DEF UserTypeOK
<1>5. CASE link[k] = "closed"
  <2>1. UNCHANGED <<inbox, outgoing>>
    BY <1>5 DEF CloseSend
  <2>2. \A v \in Users : UserTypeOK(v)'
    BY <1>2, <1>4, <2>1, UserTypes
  <2>3. QED
    BY <1>1, <1>2, <2>1, <2>2, KeptTypes, UserSideTypes
<1>6. CASE link[k] # "closed"
  <2>1. Allocate(k, c) /\ Send(k, c, UnSub(DOMAIN slot_map[k]))
    BY <1>6 DEF CloseSend
  <2>2. UnSub(DOMAIN slot_map[k]) \in Requests
    BY <1>1, MadeRequests, KeptTypes DEF PartialFunction
  <2>3. DOMAIN inbox'[k] = DOMAIN inbox[k] \cup {c} /\ DOMAIN inbox' = Clients
        /\ PartialFunction(inbox'[k], CSlots, Seq(Replies))
        /\ \A j \in Clients \ {k} : inbox'[j] = inbox[j]
    BY <1>1, <2>1, AllocateTypes
  <2>4. DOMAIN outgoing' = Clients /\ Len(outgoing'[k]) <= 1
        /\ outgoing'[k] \in Seq(Addressed(DOMAIN inbox'[k], Requests))
        /\ \A j \in Clients \ {k} : outgoing'[j] = outgoing[j]
    BY <1>1, <2>1, <2>2, <2>3, SendTypes
  <2>5. \A v \in Users : UserTypeOK(v)'
    BY <1>2, <1>4, <2>3, UserTypes
  <2>6. QED
    BY <1>1, <1>2, <2>3, <2>4, <2>5, KeptTypes, UserSideTypes
<1>7. QED
  BY <1>5, <1>6

LEMMA CloseAbortTypes ==
  ASSUME TypeOK, NEW u \in Users, CloseAbort(u), ClientSide
  PROVE  TypeOK'
<1>1. PICK k \in Clients : k = user[u].client
  BY EngagedTypes DEF CloseAbort
<1> DEFINE D == DOMAIN inbox[k]
<1>2. /\ toClient'[k] = <<>> /\ outgoing'[k] = <<>> /\ UNCHANGED <<toServer, inbox, slot_map>>
      /\ link' = [link EXCEPT ![k] = "closed"] /\ Dropping(k, {user[u].c_slot}) /\ End(u)
  BY <1>1 DEF CloseAbort, TypeOK
<1>3. /\ <<>> \in Seq(Addressed(D, Requests)) /\ Len(<<>>) <= 1
      /\ <<>> \in Seq(Addressed(D, Replies))
  BY EmptySeq
<1>4. Elsewhere(k) /\ Domains'
  BY <1>1 DEF CloseAbort, ClientSide, connectionVars, Elsewhere, Domains, TypeOK
<1>5. ConnectionTypeOK(k)'
  BY <1>1, <1>2, <1>3 DEF ClientSide, tasksVars, connectionVars, ConnectionTypeOK, TypeOK
<1>6. DOMAIN user' = Users /\ \A v \in Users : UserTypeOK(v)'
  BY <1>2, EndTypes
<1>7. link' \in [Clients -> Links] /\ drops' \in [Clients -> [CSlots -> Nat]]
  BY <1>1, <1>2, DroppingTypes DEF Links, TypeOK
<1>8. QED
  BY <1>1, <1>4, <1>5, <1>6, <1>7, ClientSideTypes DEF ClientSide, connectionVars

LEMMA TaskStepTypes ==
  ASSUME TypeOK, NEW s \in Slots, TaskStep(s), UNCHANGED <<wireVars, connectionVars, clientVars>>
  PROVE  TypeOK'
<1>1. Len(log) \in Nat
  BY LenProperties DEF TypeOK
<1>2. /\ phase' \in [Slots -> Phases] /\ sent' \in [Slots -> Nat] /\ recorded' \in [Slots -> Nat]
      /\ log' \in Seq(Message) /\ Len(log) <= Len(log')
  <2>1. CASE SendReport(s) /\ phase' \in [Slots -> Phases]
    <3>1. sent[s] + 1 \in Nat /\ [slot |-> s, n |-> sent[s] + 1] \in Message
      BY DEF TypeOK, Message
    <3>2. log' \in Seq(Message) /\ Len(log') = Len(log) + 1
      BY <2>1, <3>1, AppendProperties DEF SendReport, TypeOK
    <3>3. QED
      BY <1>1, <2>1, <3>1, <3>2 DEF SendReport, TypeOK
  <2>2. CASE Die(s)
    BY <1>1, <2>2 DEF Die, TypeOK, Phases
  <2>3. CASE \E n \in 1 .. sent[s] : Record(s, n)
    BY <1>1, <2>3 DEF Record, TypeOK
  <2>4. QED
    BY <2>1, <2>2, <2>3 DEF TaskStep, ReportUpdate, ReportResult, TypeOK, Phases
<1>3. Len(log)' \in Nat
  BY <1>2, LenProperties
<1>4. \A j \in Clients : ConnectionTypeOK(j)'
  BY <1>1, <1>2, <1>3, Untouched DEF TypeOK, wireVars, connectionVars, clientVars
<1>5. \A u \in Users : UserTypeOK(u)'
  BY UsersUntouched DEF clientVars
<1>6. QED
  BY <1>2, <1>4, <1>5 DEF TypeOK, wireVars, connectionVars, clientVars

----------------------------------------------------------------------------
LEMMA TypeInitial == Init => TypeOK
<1> SUFFICES ASSUME Init PROVE TypeOK
  OBVIOUS
<1>1. \A k \in Clients : ConnectionTypeOK(k)
  <2> SUFFICES ASSUME NEW k \in Clients PROVE ConnectionTypeOK(k)
    OBVIOUS
  <2> USE DEF Init, WireInit, ConnectionInit, TasksInit, ClientInit
  <2>1. /\ inbox[k] = [c \in {} |-> <<>>] /\ slot_map[k] = [s \in {} |-> 0]
        /\ subscribed[k] = [s \in {} |-> 0] /\ outgoing[k] = <<>> /\ toServer[k] = <<>>
        /\ work[k] = <<>> /\ outbox[k] = <<>> /\ toClient[k] = <<>> /\ log = <<>>
        /\ relay[k] = [pc |-> "off", next |-> 0, out |-> NoMessage]
    OBVIOUS
  <2>2. \A T : <<>> \in Seq(T) /\ Len(<<>>) = 0
    BY EmptySeq
  <2>3. /\ PartialFunction(inbox[k], CSlots, Seq(Replies))
        /\ PartialFunction(slot_map[k], Slots, DOMAIN inbox[k])
        /\ PartialFunction(subscribed[k], Slots, DOMAIN inbox[k])
    BY <2>1 DEF PartialFunction
  <2>4. relay[k] \in RelayState(DOMAIN inbox[k]) /\ relay[k].pc = "off" /\ relay[k].next = 0
        /\ relay[k].out = NoMessage
    BY <2>1 DEF RelayState, RelayPcs
  <2>5. QED
    BY <2>1, <2>2, <2>3, <2>4 DEF ConnectionTypeOK
<1>2. \A u \in Users : UserTypeOK(u)
  BY DEF Init, ClientInit, UserTypeOK, UserState, UserPcs, Resting
<1>3. log \in Seq(Message)
  BY EmptySeq DEF Init, ConnectionInit, TasksInit
<1>4. QED
  BY <1>1, <1>2, <1>3
    DEF Init, WireInit, ConnectionInit, TasksInit, ClientInit, TypeOK, Phases, Links

LEMMA TypeStep == TypeOK /\ [Next]_vars => TypeOK'
<1> SUFFICES ASSUME TypeOK, [Next]_vars PROVE TypeOK'
  OBVIOUS
<1>1. ASSUME NEW k \in Clients, ConnectionStep(k), ServerSide PROVE TypeOK'
  <2>1. CASE \E i \in 1 .. Len(work[k]) : WorkStep(k, i)
    BY <1>1, <2>1, RefuseTypes, AssignSlotTypes, NoHandlerTypes, ExecuteTypes,
       SubscribeCallerTypes, HandleRpcReqResultTypes, HandleSubTypes, HandleUnsubTypes, ReplyTypes
       DEF WorkStep, OwnStep, ExecutorStep
  <2>2. CASE RelayStep(k)
    BY <1>1, <2>2, RelayReceiveTypes, RelayLagTypes, RelaySendTypes DEF RelayStep
  <2>3. QED
    BY <1>1, <2>1, <2>2, ReadRequestTypes, FlushTypes DEF ConnectionStep
<1>2. ASSUME NEW k \in Clients, NEW u \in Users, UserStarts(u, k), ClientSide PROVE TypeOK'
  BY <1>2, CallTypes, SubscribeTypes, RefreshTypes, ReceiveTypes, TryReceiveTypes, CloseTypes
    DEF UserStarts
<1>3. ASSUME NEW u \in Users, UserStep(u), ClientSide PROVE TypeOK'
  BY <1>3, CallReturnsTypes, SubscribeReturnsTypes, LookUpTypes, NotSubscribedTypes, ReceivedTypes,
     CloseSendTypes, CloseAbortTypes DEF UserStep
<1>4. CASE UNCHANGED vars
  <2>1. \A j \in Clients : ConnectionTypeOK(j)'
    BY <1>4 DEF vars, wireVars, tasksVars, connectionVars, clientVars, TypeOK, ConnectionTypeOK
  <2>2. QED
    BY <1>4, <2>1
      DEF vars, wireVars, tasksVars, connectionVars, clientVars, TypeOK, UserTypeOK
<1>5. QED
  BY <1>1, <1>2, <1>3, <1>4, ConnectTypes, DisconnectTypes, DeliverTypes, WriteTypes,
     DropCSlotTypes, TaskStepTypes DEF Next

\* Whatever clients and server send, map and keep is well typed, and every c_slot
\* that either side names has a queue at the client.
THEOREM TypeCorrect == Spec => []TypeOK
  BY TypeInitial, TypeStep, PTL DEF Spec
============================================================================
