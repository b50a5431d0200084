--------------------------- MODULE MCCreditLedger ---------------------------
(***************************************************************************)
(* Instances of CreditLedger for TLC, and what else rows could add up to.  *)
(***************************************************************************)
EXTENDS CreditLedger, TLC

CONSTANTS w1, w2, r1, r2, k1, k2, u1, u2

MCTopup == [kind |-> "topup", bucket |-> "topup", key |-> "stripe", amount |-> 30000,
            ws |-> w1]
MCGift == [kind |-> "admin_adjust", bucket |-> "plan", key |-> "gift", amount |-> 10000,
           ws |-> w1]
MCTopupOnly == {MCTopup}
MCTopupAndGift == {MCTopup, MCGift}
MCNoGrants == {}

(* billing.service.ts on SpendInput.reference: "The same reference never     *)
(* charges twice".  What the rows of a reference take in all is the price    *)
(* that was recorded for it.                                                 *)
SameReferenceNeverChargesTwice ==
  \A u \in usage :
    SumOfAmounts({row \in ledger : row.kind = "deduct" /\ row.ref.of = u.ref})
      = -u.credits

(* billing.schema.ts: nothing may update a balance "without appending the    *)
(* matching ledger row".  The top-up bucket is the sum of its rows.          *)
TopupBucketIsLedgerSum ==
  \A w \in Workspaces : balance[w].topup = LedgerSum(w, "topup")

(* billing.schema.ts: "credit_balance is a materialised sum".  The plan      *)
(* bucket is the sum of its rows.                                            *)
PlanBucketIsLedgerSum ==
  \A w \in Workspaces : balance[w].plan = LedgerSum(w, "plan")

ReferenceSymmetry == Permutations(References)
RunnerSymmetry == Permutations(Runners)
WorkspaceSymmetry == Permutations(Workspaces)
=============================================================================
