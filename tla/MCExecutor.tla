----------------------------- MODULE MCExecutor -----------------------------
(***************************************************************************)
(* A small instance of Executor: two calls on two slots and one query, on  *)
(* a bus that keeps a single message, so that the reader can be overrun.   *)
(***************************************************************************)
EXTENDS Executor
============================================================================
