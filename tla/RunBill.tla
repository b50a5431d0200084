------------------------------ MODULE RunBill ------------------------------
(***************************************************************************)
(* What the numbering of steps promises, with no checkpoint, queue, crash  *)
(* or retry in sight: the calls of a run are billed in the order the flow  *)
(* makes them, each of them once.  AgentRun implements it.                 *)
(***************************************************************************)
EXTENDS Naturals, Sequences

CONSTANT Bill      \* the calls of the flow, in order
VARIABLE paid      \* the calls billed so far

Init == paid = << >>

Pay ==
  /\ Len(paid) < Len(Bill)
  /\ paid' = Append(paid, Bill[Len(paid) + 1])

Spec == Init /\ [][Pay]_paid
=============================================================================
