------------------------------- MODULE MCRcm -------------------------------
(***************************************************************************)
(* A small instance of Rcm: two requests that compete for two resources.   *)
(***************************************************************************)
EXTENDS Rcm
============================================================================
