----------------------------- MODULE MCService ------------------------------
(***************************************************************************)
(* A small instance of Service, with the times of the code.                *)
(***************************************************************************)
EXTENDS Service
=============================================================================
