------------------------------- MODULE TopUps -------------------------------
(***************************************************************************)
(* What buying credit promises, with no scan, lease, webhook or retry in   *)
(* sight: a purchase is credited once, in full, to the workspace that      *)
(* bought it, and credit leaves a workspace only by being spent.           *)
(* AutoReload implements it.                                               *)
(***************************************************************************)
EXTENDS Integers, Plans

CONSTANTS Workspaces, Purchases, Packs, Spends, OpeningBalance

VARIABLES
  orders,    \* what was bought: by whom and which pack
  credited,  \* the orders whose credit has arrived
  balance

vars == <<orders, credited, balance>>

NotBought == [bought |-> FALSE]
Bought(p) == orders[p] # NotBought

Init ==
  /\ orders = [p \in Purchases |-> NotBought]
  /\ credited = {}
  /\ balance = [w \in Workspaces |-> OpeningBalance]

Buy(p, w, pack) ==
  /\ ~Bought(p)
  /\ orders' = [orders EXCEPT ![p] = [bought |-> TRUE, ws |-> w, pack |-> pack]]
  /\ UNCHANGED <<credited, balance>>

Credit(p) ==
  /\ Bought(p)
  /\ p \notin credited
  /\ credited' = credited \cup {p}
  /\ balance' = [balance EXCEPT ![orders[p].ws] = @ + TOPUP_PACKS[orders[p].pack].credits]
  /\ UNCHANGED orders

Draw(w, c) ==
  /\ balance[w] >= c
  /\ balance' = [balance EXCEPT ![w] = @ - c]
  /\ UNCHANGED <<orders, credited>>

Next ==
  \/ \E p \in Purchases, w \in Workspaces, pack \in Packs : Buy(p, w, pack)
  \/ \E p \in Purchases : Credit(p)
  \/ \E w \in Workspaces, c \in Spends : Draw(w, c)

Safety == Init /\ [][Next]_vars

\* And the credit does arrive.
Spec == Safety /\ \A p \in Purchases : WF_vars(Credit(p))
=============================================================================
