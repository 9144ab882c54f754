-------------------------------- MODULE Wire --------------------------------
(***************************************************************************)
(* What passes between clients and the server (lib.rs).  Each client has   *)
(* one websocket, which carries WireMessages in order both ways until the  *)
(* client closes it or the network loses it.                               *)
(*                                                                         *)
(* A WireMessage is a BoxcarMessage addressed to a c_slot of the client;   *)
(* what they speak of is the slots and reports of Tasks.                   *)
(***************************************************************************)
EXTENDS Tasks

CONSTANTS
  Clients,     \* clients, each with a connection of its own
  CSlots       \* the c_slots: all of u16 in the code, as the s_slots are

VARIABLES
  link,        \* client -> "unused", "up", "closed" by the client, "lost"
  toServer,    \* client -> WireMessages under way to the server
  toClient     \* client -> WireMessages under way to the client

wireVars == <<link, toServer, toClient>>

Links == {"unused", "up", "closed", "lost"}

WireMessage(c, message) == [c_slot |-> c, inner |-> message]

\* BoxcarMessage.  Error is ResourceError or ServerError, which clients treat
\* alike, as they do all that SubOpFin may say.  A result is the n-th report of
\* its RPC, or None for n = 0; asked says whether it answers a RpcReqRslt, which
\* the wire does not show.
RpcReq(subscribe)    == [kind |-> "RpcReq", subscribe |-> subscribe]
RpcReqRslt(s)        == [kind |-> "RpcReqRslt", slot |-> s]
RpcRslt(s, n, asked) == [kind |-> "RpcRslt", slot |-> s, n |-> n, asked |-> asked]
Sub(s)               == [kind |-> "Sub", slot |-> s]
UnSub(set)           == [kind |-> "UnSub", slots |-> set]
SubOpFin             == [kind |-> "SubOpFin"]
Error                == [kind |-> "Error"]

Requests ==
  {RpcReq(b) : b \in BOOLEAN} \cup {Sub(s) : s \in Slots} \cup {RpcReqRslt(s) : s \in Slots}
    \cup {UnSub(set) : set \in SUBSET Slots}

Replies ==
  {Error, SubOpFin} \cup {RpcReqRslt(s) : s \in Slots}
    \cup [kind : {"RpcRslt"}, slot : Slots, n : Nat, asked : BOOLEAN]

WireInit ==
  /\ link     = [k \in Clients |-> "unused"]
  /\ toServer = [k \in Clients |-> <<>>]
  /\ toClient = [k \in Clients |-> <<>>]

\* The network drops the connection, with whatever is under way.
Disconnect(k) ==
  /\ link[k] = "up"
  /\ link' = [link EXCEPT ![k] = "lost"]
  /\ toServer' = [toServer EXCEPT ![k] = <<>>]
  /\ toClient' = [toClient EXCEPT ![k] = <<>>]
============================================================================
