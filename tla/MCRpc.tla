-------------------------------- MODULE MCRpc -------------------------------
(***************************************************************************)
(* Small instances of Rpc: one client with one or two users, two c_slots,  *)
(* and a bus that keeps one message, so that the relay can be overrun.  In *)
(* rpc s_slots and c_slots share a number (n2 is both), as in the code,    *)
(* where dropping a CSlot looks its number up among the s_slots; the other *)
(* runs are not about that.                                                *)
(***************************************************************************)
EXTENDS Rpc
============================================================================
