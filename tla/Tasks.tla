-------------------------------- MODULE Tasks -------------------------------
(***************************************************************************)
(* What BoxcarExecutor promises the rest of the server: an accepted RPC    *)
(* gets a slot of its own, reports on the bus until it ends, and its task  *)
(* records reports of its own, never going back to an earlier one.         *)
(*                                                                         *)
(* Executor implements this specification; the server's connections are    *)
(* built on it.                                                            *)
(***************************************************************************)
EXTENDS Naturals, Sequences

CONSTANTS
  Slots,       \* the s_slots
  MaxUpdates   \* bound on the updates of an RPC; its result is one more

ASSUME MaxUpdatesAssumption == MaxUpdates \in Nat

VARIABLES
  phase,       \* slot -> "free", "open" while its handler runs, "ended"
  sent,        \* slot -> number of messages sent on the bus
  log,         \* all messages sent on the bus
  recorded     \* slot -> the message its task holds, 0 for none

tasksVars == <<phase, sent, log, recorded>>

Phases  == {"free", "open", "ended"}
Message == [slot : Slots, n : Nat]

TasksInit ==
  /\ phase    = [s \in Slots |-> "free"]
  /\ sent     = [s \in Slots |-> 0]
  /\ log      = <<>>
  /\ recorded = [s \in Slots |-> 0]

\* execute_task returns Ok(s).
Accept(s) ==
  /\ phase[s] = "free"
  /\ phase' = [phase EXCEPT ![s] = "open"]
  /\ UNCHANGED <<sent, log, recorded>>

SendReport(s) ==
  /\ sent' = [sent EXCEPT ![s] = @ + 1]
  /\ log'  = Append(log, [slot |-> s, n |-> sent[s] + 1])
  /\ UNCHANGED recorded

\* The handler reports an update ...
ReportUpdate(s) ==
  /\ phase[s] = "open"
  /\ sent[s] < MaxUpdates
  /\ SendReport(s)
  /\ UNCHANGED phase

\* ... or its result ...
ReportResult(s) ==
  /\ phase[s] = "open"
  /\ phase' = [phase EXCEPT ![s] = "ended"]
  /\ SendReport(s)

\* ... or dies.
Die(s) ==
  /\ phase[s] = "open"
  /\ phase' = [phase EXCEPT ![s] = "ended"]
  /\ UNCHANGED <<sent, log, recorded>>

\* A report later than the one recorded is recorded.
Record(s, n) ==
  /\ \E i \in 1 .. Len(log) : log[i] = [slot |-> s, n |-> n]
  /\ n > recorded[s]
  /\ recorded' = [recorded EXCEPT ![s] = n]
  /\ UNCHANGED <<phase, sent, log>>

\* What an RPC does by itself once accepted.
TaskStep(s) ==
  \/ ReportUpdate(s) \/ ReportResult(s) \/ Die(s)
  \/ \E n \in 1 .. sent[s] : Record(s, n)

TasksNext == \E s \in Slots : Accept(s) \/ TaskStep(s)

TasksSpec == TasksInit /\ [][TasksNext]_tasksVars
============================================================================
