------------------------------- MODULE Client -------------------------------
(***************************************************************************)
(* The client (client.rs): its inbox of one queue per c_slot, its map from *)
(* s_slots to c_slots, the two tasks between them and the socket, and the  *)
(* users that call, subscribe, refresh, receive and close, each on a clone *)
(* of the client and one operation at a time.                              *)
(*                                                                         *)
(* slot_map.read() is held over an await by close only, so its writers     *)
(* wait for close; the lock of inbox is never held over an await.          *)
(***************************************************************************)
EXTENDS Wire, FiniteSets

CONSTANTS
  Users,       \* the tasks that use the clients
  MaxOps       \* bound on the operations of all users together

ASSUME MaxOpsAssumption == MaxOps \in Nat

VARIABLES
  inbox,       \* client -> c_slot -> queue of messages
  slot_map,    \* client -> s_slot -> c_slot
  outgoing,    \* client -> the channel to outbox_handler, of size one
  drops,       \* client -> c_slot -> number of drops of a CSlot still to run
  user,        \* user -> where it is, on which client, with which slots
  ops          \* number of operations that users have started

clientVars == <<inbox, slot_map, outgoing, drops, user, ops>>
othersVars == <<inbox, slot_map, outgoing, drops>>

NoClient == "no client"
Nothing  == "none"      \* no slot

UserPcs == {"idle", "calling", "subscribing", "looking", "receiving", "closing", "aborting"}

\* A user between operations.
Resting == [pc |-> "idle", client |-> NoClient, c_slot |-> Nothing, slot |-> Nothing]

ClientInit ==
  /\ inbox    = [k \in Clients |-> [c \in {} |-> <<>>]]
  /\ slot_map = [k \in Clients |-> [s \in {} |-> 0]]
  /\ outgoing = [k \in Clients |-> <<>>]
  /\ drops    = [k \in Clients |-> [c \in CSlots |-> 0]]
  /\ user     = [u \in Users |-> Resting]
  /\ ops      = 0

----------------------------------------------------------------------------
\* The user is free to start an operation on client k, which nobody has closed.
Ready(u, k) == user[u].pc = "idle" /\ ops < MaxOps /\ link[k] \in {"up", "lost"}

\* It starts, and is through.
Begin(u, pc, k, c, s) ==
  /\ user' = [user EXCEPT ![u] = [pc |-> pc, client |-> k, c_slot |-> c, slot |-> s]]
  /\ ops' = ops + 1
End(u) ==
  /\ user' = [user EXCEPT ![u] = Resting]
  /\ UNCHANGED ops

\* Mutated: the queue of a returned call is given to the next.
AllocateReturned(k, c) ==
  /\ \A u \in Users : user[u].client = k => user[u].c_slot # c
  /\ inbox' = [inbox EXCEPT ![k] = [d \in DOMAIN @ \cup {c} |-> IF d = c THEN <<>> ELSE @[d]]]

\* allocate_slot: a number that nobody has gets a queue.  It is never freed.
\* When all 1026 numbers drawn are taken the user panics: "oh no".  For call and
\* subscribe nothing has happened by then.
Allocate(k, c) ==
  /\ c \notin DOMAIN inbox[k]
  /\ inbox' = [inbox EXCEPT ![k] = [d \in DOMAIN @ \cup {c} |-> IF d = c THEN <<>> ELSE @[d]]]

\* outbox.send(): the channel takes the message when it has room.
Send(k, c, message) ==
  /\ outgoing[k] = <<>>
  /\ outgoing' = [outgoing EXCEPT ![k] = <<WireMessage(c, message)>>]

\* The head of the queue of c is popped.
Pop(k, c) ==
  /\ inbox[k][c] # <<>>
  /\ inbox' = [inbox EXCEPT ![k][c] = Tail(@)]

\* Some user holds slot_map.read(), in close.
MapHeld(k) == \E u \in Users : user[u].client = k /\ user[u].pc \in {"closing", "aborting"}

\* s is mapped to c.
Map(k, s, c) ==
  /\ ~MapHeld(k)
  /\ slot_map' = [slot_map EXCEPT ![k] = [t \in DOMAIN @ \cup {s} |-> IF t = s THEN c ELSE @[t]]]

\* The CSlot that this takes out of the map.
Replaced(k, s) == {slot_map[k][t] : t \in {s} \cap DOMAIN slot_map[k]}

\* CSlots of these numbers are dropped: each spawns a task that will remove its
\* number from slot_map.  Numbers that no s_slot can have are left out.
Dropping(k, set) ==
  drops' = [drops EXCEPT ![k] = [c \in CSlots |-> @[c] + IF c \in set \cap Slots THEN 1 ELSE 0]]

----------------------------------------------------------------------------
(* Client::new, and its two tasks.                                         *)

Open(k) ==
  /\ link[k] = "unused"
  /\ link' = [link EXCEPT ![k] = "up"]
  /\ UNCHANGED <<toServer, toClient, clientVars>>

\* inbox_handler: a message goes to the queue of its c_slot.
Deliver(k) ==
  /\ link[k] = "up"
  /\ toClient[k] # <<>>
  /\ toClient' = [toClient EXCEPT ![k] = Tail(@)]
  /\ LET m == Head(toClient[k]) IN
       inbox' = [inbox EXCEPT ![k] = [c \in DOMAIN @ |->
                  IF c = m.c_slot THEN Append(@[c], m.inner) ELSE @[c]]]
  /\ UNCHANGED <<link, toServer, slot_map, outgoing, drops, user, ops>>

\* outbox_handler: a message goes to the socket, if it is still there.
Write(k) ==
  /\ outgoing[k] # <<>>
  /\ outgoing' = [outgoing EXCEPT ![k] = <<>>]
  /\ toServer' = IF link[k] = "up" THEN [toServer EXCEPT ![k] = @ \o outgoing[k]] ELSE toServer
  /\ UNCHANGED <<link, toClient, inbox, slot_map, drops, user, ops>>

\* A drop of CSlot c removes the key c, which is the number of an s_slot, from
\* slot_map, and so drops the CSlot it finds there.
DropCSlot(k, c) ==
  /\ drops[k][c] > 0
  /\ ~MapHeld(k)
  /\ slot_map' = [slot_map EXCEPT ![k] = [s \in DOMAIN @ \ {c} |-> @[s]]]
  /\ drops' = [drops EXCEPT ![k] =
       [d \in CSlots |-> @[d] - (IF d = c THEN 1 ELSE 0)
                              + (IF d \in Replaced(k, c) \cap Slots THEN 1 ELSE 0)]]
  /\ UNCHANGED <<wireVars, inbox, outgoing, user, ops>>

----------------------------------------------------------------------------
(* call.                                                                   *)

Call(u, k, c, subscribe) ==
  /\ Ready(u, k)
  /\ Allocate(k, c)
  /\ Send(k, c, RpcReq(subscribe))
  /\ Begin(u, "calling", k, c, Nothing)
  /\ UNCHANGED <<wireVars, slot_map, drops>>

\* The first message in the queue is taken for the reply.  With RpcReqRslt the
\* slot is mapped to the queue; with anything else the call fails.
CallReturns(u) ==
  LET k == user[u].client
      c == user[u].c_slot
      m == Head(inbox[k][c]) IN
  /\ user[u].pc = "calling"
  /\ Pop(k, c)
  /\ \/ /\ m.kind = "RpcReqRslt"
        /\ Map(k, m.slot, c)
        /\ Dropping(k, {c} \cup Replaced(k, m.slot))
        /\ End(u)
     \/ /\ m.kind # "RpcReqRslt"
        /\ Dropping(k, {c})
        /\ End(u)
        /\ UNCHANGED slot_map
  /\ UNCHANGED <<wireVars, outgoing>>

----------------------------------------------------------------------------
(* subscribe.                                                              *)

\* For a slot that is in slot_map it returns Ok at once.
Subscribe(u, k, c, s) ==
  /\ Ready(u, k)
  /\ s \notin DOMAIN slot_map[k]
  /\ Allocate(k, c)
  /\ Send(k, c, Sub(s))
  /\ Begin(u, "subscribing", k, c, s)
  /\ UNCHANGED <<wireVars, slot_map, drops>>

SubscribeReturns(u) ==
  LET k == user[u].client
      c == user[u].c_slot
      s == user[u].slot
      m == Head(inbox[k][c]) IN
  /\ user[u].pc = "subscribing"
  /\ Pop(k, c)
  /\ \/ /\ m.kind = "SubOpFin"
        /\ Map(k, s, c)
        /\ Dropping(k, Replaced(k, s))
        /\ End(u)
     \/ /\ m.kind # "SubOpFin"
        /\ Dropping(k, {c})
        /\ End(u)
        /\ UNCHANGED slot_map
  /\ UNCHANGED <<wireVars, outgoing>>

----------------------------------------------------------------------------
(* refresh, recv and recv_result.                                          *)

Refresh(u, k, s) ==
  /\ Ready(u, k)
  /\ s \in DOMAIN slot_map[k]
  /\ Send(k, slot_map[k][s], RpcReqRslt(s))
  /\ Dropping(k, {slot_map[k][s]})
  /\ ops' = ops + 1
  /\ UNCHANGED <<wireVars, inbox, slot_map, user>>

Receive(u, k, s) ==
  /\ Ready(u, k)
  /\ Begin(u, "looking", k, Nothing, s)
  /\ UNCHANGED <<wireVars, othersVars>>

\* recv: the slot is in slot_map, and its queue is waited for.
LookUp(u) ==
  LET k == user[u].client
      s == user[u].slot IN
  /\ user[u].pc = "looking"
  /\ s \in DOMAIN slot_map[k]
  /\ user' = [user EXCEPT ![u].pc = "receiving", ![u].c_slot = slot_map[k][s]]
  /\ UNCHANGED <<wireVars, othersVars, ops>>

\* It is not: recv fails, and recv_result is "at the disco".
NotSubscribed(u) ==
  /\ user[u].pc = "looking"
  /\ user[u].slot \notin DOMAIN slot_map[user[u].client]
  /\ End(u)
  /\ UNCHANGED <<wireVars, othersVars>>

IsResult(m) == m.kind = "RpcRslt" /\ m.n # 0

\* A message is popped.  It ends recv; recv_result looks again until it is a
\* result.
Received(u) ==
  LET k == user[u].client
      c == user[u].c_slot IN
  /\ user[u].pc = "receiving"
  /\ Pop(k, c)
  /\ Dropping(k, {c})
  /\ \/ End(u)
     \/ /\ ~IsResult(Head(inbox[k][c]))
        /\ user' = [user EXCEPT ![u].pc = "looking", ![u].c_slot = Nothing]
        /\ UNCHANGED ops
  /\ UNCHANGED <<wireVars, slot_map, outgoing>>

\* try_recv, when there is a message.
TryReceive(u, k, s) ==
  /\ Ready(u, k)
  /\ s \in DOMAIN slot_map[k]
  /\ Pop(k, slot_map[k][s])
  /\ Dropping(k, {slot_map[k][s]})
  /\ ops' = ops + 1
  /\ UNCHANGED <<wireVars, slot_map, outgoing, user>>

----------------------------------------------------------------------------
(* close.                                                                  *)

\* slot_map.read(), for as long as close takes.
Close(u, k) ==
  /\ Ready(u, k)
  /\ Begin(u, "closing", k, Nothing, Nothing)
  /\ UNCHANGED <<wireVars, othersVars>>

\* UnSub of all slots is sent, unless the client is closed by now.
CloseSend(u, c) ==
  LET k == user[u].client IN
  /\ user[u].pc = "closing"
  /\ IF link[k] = "closed"
     THEN UNCHANGED <<inbox, outgoing>>
     ELSE Allocate(k, c) /\ Send(k, c, UnSub(DOMAIN slot_map[k]))
  /\ user' = [user EXCEPT ![u].pc = "aborting",
                          ![u].c_slot = IF link[k] = "closed" THEN Nothing ELSE c]
  /\ UNCHANGED <<wireVars, slot_map, drops, ops>>

\* allocate_slot panics, and slot_map.read() is given up.
ClosePanics(u) ==
  /\ user[u].pc = "closing"
  /\ DOMAIN inbox[user[u].client] # {}
  /\ End(u)
  /\ UNCHANGED <<wireVars, othersVars>>

\* Both tasks are aborted, whatever they have still to do, and with them goes
\* the socket.  What has been written to it arrives.
CloseAbort(u) ==
  LET k == user[u].client IN
  /\ user[u].pc = "aborting"
  /\ link' = [link EXCEPT ![k] = "closed"]
  /\ toClient' = [toClient EXCEPT ![k] = <<>>]
  /\ outgoing' = [outgoing EXCEPT ![k] = <<>>]
  /\ Dropping(k, {user[u].c_slot})
  /\ End(u)
  /\ UNCHANGED <<toServer, inbox, slot_map>>

\* What a user does by itself once it has started an operation.
UserStep(u) ==
  \/ CallReturns(u) \/ SubscribeReturns(u)
  \/ LookUp(u) \/ NotSubscribed(u) \/ Received(u)
  \/ (\E c \in CSlots : CloseSend(u, c)) \/ ClosePanics(u) \/ CloseAbort(u)

\* What it may start.
UserStarts(u, k) ==
  \/ \E c \in CSlots, subscribe \in BOOLEAN : Call(u, k, c, subscribe)
  \/ \E c \in CSlots, s \in Slots : Subscribe(u, k, c, s)
  \/ \E s \in Slots : Refresh(u, k, s) \/ Receive(u, k, s) \/ TryReceive(u, k, s)
  \/ Close(u, k)
============================================================================
