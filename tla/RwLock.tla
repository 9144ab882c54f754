------------------------------- MODULE RwLock -------------------------------
(***************************************************************************)
(* tokio::sync::RwLock, which every shared map of boxcar-rpc sits behind.  *)
(* The lock is fair: read() and write() queue up, and a caller is let in   *)
(* when nobody before it stands in its way.  So a writer that waits makes  *)
(* later readers wait too, although only readers hold the lock.            *)
(*                                                                         *)
(* A lock is a function from the tasks that hold it or wait for it to      *)
(* their places.  A place says whether the task wants to write, and who is *)
(* ahead: those who came before and have not left.                         *)
(***************************************************************************)

\* Nobody holds the lock or waits for it.
Free == [a \in {} |-> [write |-> FALSE, ahead |-> {}]]

\* lock is a lock of these actors.
IsLock(lock, Actors) ==
  /\ DOMAIN lock \subseteq Actors
  /\ lock \in [DOMAIN lock -> [write : BOOLEAN, ahead : SUBSET Actors]]

\* The place of someone who comes now.
Place(lock, write) == [write |-> write, ahead |-> DOMAIN lock]

\* The first poll of lock.read() or lock.write() by actor.
Queue(lock, actor, write) ==
  [b \in DOMAIN lock \cup {actor} |-> IF b = actor THEN Place(lock, write) ELSE lock[b]]
QueueRead(lock, actor)  == Queue(lock, actor, FALSE)
QueueWrite(lock, actor) == Queue(lock, actor, TRUE)

\* actor holds its guard: everyone ahead reads, as actor does.
Granted(lock, actor) ==
  /\ actor \in DOMAIN lock
  /\ \A b \in lock[actor].ahead : ~lock[actor].write /\ ~lock[b].write

\* actor drops its guard.
Leave(lock, actor) ==
  [b \in DOMAIN lock \ {actor} |-> [lock[b] EXCEPT !.ahead = @ \ {actor}]]

(***************************************************************************)
(* What the locks of a program look like: any two of its actors know who   *)
(* was first, and only those present are ahead of anyone.                  *)
(***************************************************************************)
FirstComeFirstServed(lock) ==
  /\ \A a \in DOMAIN lock : lock[a].ahead \subseteq DOMAIN lock \ {a}
  /\ \A a, b \in DOMAIN lock : a # b => (a \in lock[b].ahead <=> b \notin lock[a].ahead)
============================================================================
