------------------------------ MODULE Broadcast -----------------------------
(***************************************************************************)
(* tokio::sync::broadcast, the executor's message bus.  The channel keeps  *)
(* the last `capacity` messages; a receiver that falls further behind gets *)
(* RecvError::Lagged once and then goes on with the oldest message kept.   *)
(*                                                                         *)
(* The channel is the sequence of all messages sent since it was created,  *)
(* a receiver is the number of messages it has received or skipped.        *)
(***************************************************************************)
EXTENDS Naturals, Sequences

\* recv() has something to return at once.
Pending(log, next) == next < Len(log)

\* The message after `next` has been overwritten: recv() returns Lagged.
Lagged(log, next, capacity) == Len(log) - next > capacity

\* recv() returns the message after `next`.
Receivable(log, next, capacity) == Pending(log, next) /\ ~Lagged(log, next, capacity)

\* Where Lagged leaves the receiver: before the oldest message kept.
Oldest(log, capacity) == Len(log) - capacity
============================================================================
