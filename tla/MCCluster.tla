------------------------------ MODULE MCCluster ------------------------------
(***************************************************************************)
(* A small instance of Cluster: two instances, at two addresses or at one, *)
(* as when a process is restarted.                                         *)
(***************************************************************************)
EXTENDS Cluster

\* Registrations that lack a resource, that fit a request exactly, of which one has a
\* whole number of percents asked, that rounding may miss, and two that differ by less
\* than a percent.
MCResources == {[foo |-> 29, bar |-> 1], [foo |-> 100], [foo |-> 101, bar |-> 2]}
MCRequests  == {[foo |-> 29], [foo |-> 29, bar |-> 1]}
=============================================================================
