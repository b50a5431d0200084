----------------------------- MODULE AutoReload -----------------------------
(***************************************************************************)
(* Buying credit from Stripe: the auto-reload scan, the lease it claims    *)
(* before it charges a card, the checkout a customer completes, and the    *)
(* webhooks that turn purchases into credit                                *)
(* (src/src/modules/billing/autoreload.service.ts and stripe.service.ts).  *)
(*                                                                         *)
(* One action is one SQL statement, one transaction or one call to Stripe. *)
(* A purchase is a Stripe object: a PaymentIntent of the scan ("auto") or  *)
(* a checkout session ("checkout").  The balance is the sum of the two     *)
(* buckets; what else moves it is Spend.                                   *)
(***************************************************************************)
EXTENDS Integers, FiniteSets, Plans, TLC

CONSTANTS
  Workspaces,
  Scanners,          \* concurrent executions of runScan: ticks, worker replicas
  Handlers,          \* concurrent executions of handleWebhook
  Purchases,         \* ids Stripe gives to PaymentIntents and checkout sessions
  Packs,             \* the top-up packs the instance sells
  Thresholds,        \* thresholds a customer may set
  Spends,            \* credits one charge may take
  OpeningBalance,    \* credits every workspace starts with
  MaxUpdates,        \* bound on the settings changes of customers
  LeasesExpire,      \* whether a charge may take longer than its lease
  MaxCrashes,        \* bound on the scans and handlers that die part way
  MaxRedeliveries,   \* bound on deliveries of an event already acknowledged
  MaxDelayed         \* bound on the checkouts paid with a delayed method

ASSUME PacksAssumption == Packs \subseteq DOMAIN TOPUP_PACKS
ASSUME AmountsAssumption ==
  /\ OpeningBalance \in Nat
  /\ Thresholds \subseteq Nat \ {0}
  /\ Spends \subseteq Nat \ {0}
ASSUME BoundsAssumption ==
  {MaxUpdates, MaxCrashes, MaxRedeliveries, MaxDelayed} \subseteq Nat /\ LeasesExpire \in BOOLEAN

VARIABLES
  entitled,     \* workspaces on a plan that may buy top-ups (getPlan)
  settings,     \* billing_preferences: enabled, threshold, pack
  failure,      \* workspaces with a last_failure_code
  locked,       \* workspaces whose auto_reload_locked_until is in the future
  balance,      \* plan_credits + topup_credits
  purchases,    \* Stripe's objects
  credited,     \* credit_transaction rows of kind topup, by Stripe id
  payments,     \* payment rows, by Stripe id
  acknowledged, \* events whose delivery a handler answered with 200
  scans,        \* the executions of runScan
  handlers,     \* the executions of handleWebhook
  spent,        \* history: what Spend took from each workspace
  shortfall,    \* history: how often each workspace was credited
  used          \* how much of each bound is used up

vars == <<entitled, settings, failure, locked, balance, purchases, credited,
          payments, acknowledged, scans, handlers, spent, shortfall, used>>

settingsVars == <<settings, failure, locked>>
moneyVars == <<balance, credited, payments, spent, shortfall>>

-----------------------------------------------------------------------------
Off == [enabled |-> FALSE, threshold |-> Null, pack |-> "none"]
IdleScan == [phase |-> "idle"]
IdleHandler == [phase |-> "idle"]
NoPurchase == [kind |-> "none"]

Created(p) == purchases[p] # NoPurchase
Succeeded(p) == Created(p) /\ purchases[p].outcome = "succeeded"
\* What a handler grants: a charge that succeeded, and every completed checkout.
\* onCheckoutCompleted does not read payment_status.
Granting(p) == Created(p) /\ (purchases[p].kind = "checkout" \/ Succeeded(p))
CreditsOf(p) == TOPUP_PACKS[purchases[p].pack].credits

Low(w) == settings[w].threshold # Null /\ balance[w] < settings[w].threshold

\* A new purchase; `seen` is the shortfall the scan that charges it listed.
NewPurchase(p, kind, w, pack, outcome, seen) ==
  /\ ~Created(p)
  /\ purchases' = [purchases EXCEPT ![p] =
       [kind |-> kind, ws |-> w, pack |-> pack, outcome |-> outcome, seen |-> seen]]

Use(bound, limit) == used[bound] < limit /\ used' = [used EXCEPT ![bound] = @ + 1]

Init ==
  /\ entitled = Workspaces
  /\ settings = [w \in Workspaces |-> Off]
  /\ failure = {}
  /\ locked = {}
  /\ balance = [w \in Workspaces |-> OpeningBalance]
  /\ purchases = [p \in Purchases |-> NoPurchase]
  /\ credited = {}
  /\ payments = {}
  /\ acknowledged = {}
  /\ scans = [s \in Scanners |-> IdleScan]
  /\ handlers = [h \in Handlers |-> IdleHandler]
  /\ spent = [w \in Workspaces |-> 0]
  /\ shortfall = [w \in Workspaces |-> 0]
  /\ used = [updates |-> 0, crashes |-> 0, redeliveries |-> 0, delayed |-> 0]

-----------------------------------------------------------------------------
\* Mutant: enabling leaves the last failure on the row.
updateEnable_KeepsFailure(w, threshold, pack) ==
  /\ Use("updates", MaxUpdates)
  /\ w \in entitled
  /\ settings' = [settings EXCEPT ![w] =
                    [enabled |-> TRUE, threshold |-> threshold, pack |-> pack]]
  /\ UNCHANGED <<entitled, failure, locked, moneyVars, purchases, acknowledged,
                 scans, handlers>>

\* update: enabling needs a plan with top-ups, a threshold and a pack, and
\* clears the last failure; disabling keeps it and drops the rest.
updateEnable(w, threshold, pack) ==
  /\ Use("updates", MaxUpdates)
  /\ w \in entitled
  /\ settings' = [settings EXCEPT ![w] =
                    [enabled |-> TRUE, threshold |-> threshold, pack |-> pack]]
  /\ failure' = failure \ {w}
  /\ UNCHANGED <<entitled, locked, moneyVars, purchases, acknowledged, scans,
                 handlers>>

updateDisable(w) ==
  /\ Use("updates", MaxUpdates)
  /\ settings' = [settings EXCEPT ![w] = Off]
  /\ UNCHANGED <<entitled, failure, locked, moneyVars, purchases, acknowledged,
                 scans, handlers>>

\* The subscription becomes active, or stops being so.
SubscriptionChanges(w) ==
  /\ Use("updates", MaxUpdates)
  /\ entitled' = IF w \in entitled THEN entitled \ {w} ELSE entitled \cup {w}
  /\ UNCHANGED <<settingsVars, moneyVars, purchases, acknowledged, scans, handlers>>

\* A charge of the credit ledger.
Spend(w, c) ==
  /\ balance[w] >= c
  /\ balance' = [balance EXCEPT ![w] = @ - c]
  /\ spent' = [spent EXCEPT ![w] = @ + c]
  /\ UNCHANGED <<entitled, settingsVars, purchases, credited, payments,
                 acknowledged, scans, handlers, shortfall, used>>

\* The customer completes a checkout session that createTopupCheckout opened;
\* with a delayed payment method the money is still to come.
CheckoutCompleted(w, p, pack, outcome) ==
  /\ w \in entitled
  /\ NewPurchase(p, "checkout", w, pack, outcome, shortfall[w])
  /\ IF outcome = "pending" THEN Use("delayed", MaxDelayed) ELSE UNCHANGED used
  /\ UNCHANGED <<entitled, settingsVars, moneyVars, acknowledged, scans, handlers>>

\* A delayed payment is collected or fails; the event that says so
\* (checkout.session.async_payment_*) falls to handleWebhook's default.
PaymentSettles(p, outcome) ==
  /\ purchases[p].kind = "checkout" /\ purchases[p].outcome = "pending"
  /\ purchases' = [purchases EXCEPT ![p].outcome = outcome]
  /\ UNCHANGED <<entitled, settingsVars, moneyVars, acknowledged, scans,
                 handlers, used>>

-----------------------------------------------------------------------------
\* listAutoReloadCandidates: the rows the SELECT answers at one moment.
Candidates ==
  {[ws |-> w, pack |-> settings[w].pack, seen |-> shortfall[w]] :
     w \in {v \in Workspaces : settings[v].enabled /\ Low(v) /\ v \notin locked}}

Listed(left) == [phase |-> "listed", left |-> left]

runScan(s) ==
  /\ scans[s].phase = "idle"
  /\ scans' = [scans EXCEPT ![s] = Listed(Candidates)]
  /\ UNCHANGED <<entitled, settingsVars, moneyVars, purchases, acknowledged,
                 handlers, used>>

ScanEnds(s) ==
  /\ scans[s] = Listed({})
  /\ scans' = [scans EXCEPT ![s] = IdleScan]
  /\ UNCHANGED <<entitled, settingsVars, moneyVars, purchases, acknowledged,
                 handlers, used>>

\* claimAutoReloadLock: the UPDATE matches when the lease is free or expired;
\* nothing else of the candidate is looked at again.
claimAutoReloadLock(s, candidate) ==
  /\ scans[s].phase = "listed" /\ candidate \in scans[s].left
  /\ candidate.ws \notin locked
  /\ locked' = locked \cup {candidate.ws}
  /\ scans' = [scans EXCEPT ![s] =
       [phase |-> "charging", left |-> @.left \ {candidate}, candidate |-> candidate]]
  /\ UNCHANGED <<entitled, settings, failure, moneyVars, purchases, acknowledged,
                 handlers, used>>

ScanSkips(s, candidate) ==
  /\ scans[s].phase = "listed" /\ candidate \in scans[s].left
  /\ candidate.ws \in locked
  /\ scans' = [scans EXCEPT ![s] = Listed(@.left \ {candidate})]
  /\ UNCHANGED <<entitled, settingsVars, moneyVars, purchases, acknowledged,
                 handlers, used>>

\* charge: the PaymentIntent is created and the scan goes on to the next row.
ChargeCreates(s, p, outcome) ==
  /\ scans[s].phase = "charging"
  /\ LET c == scans[s].candidate
     IN  NewPurchase(p, "auto", c.ws, c.pack, outcome, c.seen)
  /\ scans' = [scans EXCEPT ![s] = Listed(@.left)]
  /\ UNCHANGED <<entitled, settingsVars, moneyVars, acknowledged, handlers, used>>

\* charge: Stripe throws, or there is no payment method or no price.
ScanFails(s) ==
  scans' = [scans EXCEPT ![s] = [phase |-> "failed", left |-> @.left, ws |-> @.candidate.ws]]

ChargeFails(s) ==
  /\ scans[s].phase = "charging"
  /\ ScanFails(s)
  /\ UNCHANGED <<entitled, settingsVars, moneyVars, purchases, acknowledged,
                 handlers, used>>

\* The card is declined, or the answer is lost: the call throws and the
\* PaymentIntent exists all the same.
ChargeThrows(s, p, outcome) ==
  /\ scans[s].phase = "charging"
  /\ LET c == scans[s].candidate
     IN  NewPurchase(p, "auto", c.ws, c.pack, outcome, c.seen)
  /\ ScanFails(s)
  /\ UNCHANGED <<entitled, settingsVars, moneyVars, acknowledged, handlers, used>>

\* Mutant: a failed charge releases the lease and leaves auto-reload on.
ReleaseFailed_StaysEnabled(w) ==
  /\ locked' = locked \ {w}
  /\ failure' = failure \cup {w}
  /\ UNCHANGED settings

\* releaseAutoReloadLock: with a failure code it also disables auto-reload;
\* without one it clears the failure.
ReleaseFailed(w) ==
  /\ locked' = locked \ {w}
  /\ settings' = [settings EXCEPT ![w].enabled = FALSE]
  /\ failure' = failure \cup {w}

ReleaseSucceeded(w) ==
  /\ locked' = locked \ {w}
  /\ failure' = failure \ {w}
  /\ UNCHANGED settings

ScanReleases(s) ==
  /\ scans[s].phase = "failed"
  /\ ReleaseFailed(scans[s].ws)
  /\ scans' = [scans EXCEPT ![s] = Listed(@.left)]
  /\ UNCHANGED <<entitled, moneyVars, purchases, acknowledged, handlers, used>>

\* The worker dies: the lease it held stays until it runs out.
ScanCrashes(s) ==
  /\ scans[s].phase # "idle"
  /\ Use("crashes", MaxCrashes)
  /\ scans' = [scans EXCEPT ![s] = IdleScan]
  /\ UNCHANGED <<entitled, settingsVars, moneyVars, purchases, acknowledged, handlers>>

\* Five minutes have passed since the claim.
LeaseExpires(w) ==
  /\ LeasesExpire
  /\ w \in locked
  /\ locked' = locked \ {w}
  /\ UNCHANGED <<entitled, settings, failure, moneyVars, purchases, acknowledged,
                 scans, handlers, used>>

-----------------------------------------------------------------------------
\* Mutant: the payment is written before the credit.
Deliver_RecordsFirst(h, p) ==
  /\ handlers[h].phase = "idle"
  /\ Created(p)
  /\ IF p \in acknowledged THEN Use("redeliveries", MaxRedeliveries) ELSE UNCHANGED used
  /\ handlers' = [handlers EXCEPT ![h] =
       [phase |-> IF Granting(p) THEN "record" ELSE "release", of |-> p]]
  /\ UNCHANGED <<entitled, settingsVars, moneyVars, purchases, acknowledged, scans>>

\* Mutant: the event is answered before it is applied.
Deliver_AnswersFirst(h, p) ==
  /\ handlers[h].phase = "idle"
  /\ Created(p)
  /\ IF p \in acknowledged THEN Use("redeliveries", MaxRedeliveries) ELSE UNCHANGED used
  /\ handlers' = [handlers EXCEPT ![h] =
       [phase |-> IF Granting(p) THEN "grant" ELSE "release", of |-> p]]
  /\ acknowledged' = acknowledged \cup {p}
  /\ UNCHANGED <<entitled, settingsVars, moneyVars, purchases, scans>>

\* handleWebhook: Stripe delivers the event of a purchase until a handler
\* answers, and sometimes again.
Deliver(h, p) ==
  /\ handlers[h].phase = "idle"
  /\ Created(p)
  /\ IF p \in acknowledged THEN Use("redeliveries", MaxRedeliveries) ELSE UNCHANGED used
  /\ handlers' = [handlers EXCEPT ![h] =
       [phase |-> IF Granting(p) THEN "grant" ELSE "release", of |-> p]]
  /\ UNCHANGED <<entitled, settingsVars, moneyVars, purchases, acknowledged, scans>>

\* Mutant: the reference names the delivery, not the purchase.
HandlerGrants_PerDelivery(h) ==
  /\ handlers[h].phase = "grant"
  /\ LET p == handlers[h].of
         w == purchases[p].ws
     IN  /\ credited' = credited \cup {p}
         /\ balance' = [balance EXCEPT ![w] = @ + CreditsOf(p)]
         /\ shortfall' = [shortfall EXCEPT ![w] = @ + 1]
  /\ handlers' = [handlers EXCEPT ![h].phase = "record"]
  /\ UNCHANGED <<entitled, settingsVars, payments, spent, purchases, acknowledged,
                 scans, used>>

\* billingService.grant under `stripe:<id>`: nothing when the row is there.
HandlerGrants(h) ==
  /\ handlers[h].phase = "grant"
  /\ LET p == handlers[h].of
         w == purchases[p].ws
     IN  IF p \in credited
         THEN UNCHANGED <<credited, balance, shortfall>>
         ELSE /\ credited' = credited \cup {p}
              /\ balance' = [balance EXCEPT ![w] = @ + CreditsOf(p)]
              /\ shortfall' = [shortfall EXCEPT ![w] = @ + 1]
  /\ handlers' = [handlers EXCEPT ![h].phase = "record"]
  /\ UNCHANGED <<entitled, settingsVars, payments, spent, purchases, acknowledged,
                 scans, used>>

\* paymentRepository.record, an upsert on the Stripe id.  A checkout session
\* has no lease to release, and its handler answers.
HandlerRecords(h) ==
  /\ handlers[h].phase = "record"
  /\ LET p == handlers[h].of
     IN  /\ payments' = payments \cup {p}
         /\ IF purchases[p].kind = "auto"
            THEN /\ handlers' = [handlers EXCEPT ![h].phase = "release"]
                 /\ UNCHANGED acknowledged
            ELSE /\ handlers' = [handlers EXCEPT ![h] = IdleHandler]
                 /\ acknowledged' = acknowledged \cup {p}
  /\ UNCHANGED <<entitled, settingsVars, balance, credited, spent, shortfall,
                 purchases, scans, used>>

\* onAutoReloadSucceeded and onAutoReloadFailed end by releasing the lease of
\* the workspace, whichever charge holds it now.
HandlerReleases(h) ==
  /\ handlers[h].phase = "release"
  /\ LET p == handlers[h].of
     IN  /\ IF Granting(p) THEN ReleaseSucceeded(purchases[p].ws)
                           ELSE ReleaseFailed(purchases[p].ws)
         /\ acknowledged' = acknowledged \cup {p}
  /\ handlers' = [handlers EXCEPT ![h] = IdleHandler]
  /\ UNCHANGED <<entitled, moneyVars, purchases, scans, used>>

\* The API process dies, or a statement fails: Stripe gets no 200.
HandlerCrashes(h) ==
  /\ handlers[h].phase # "idle"
  /\ Use("crashes", MaxCrashes)
  /\ handlers' = [handlers EXCEPT ![h] = IdleHandler]
  /\ UNCHANGED <<entitled, settingsVars, moneyVars, purchases, acknowledged, scans>>

-----------------------------------------------------------------------------
ScanStep(s) ==
  \/ runScan(s)
  \/ ScanEnds(s)
  \/ \E candidate \in (IF scans[s].phase = "listed" THEN scans[s].left ELSE {}) :
       claimAutoReloadLock(s, candidate) \/ ScanSkips(s, candidate)
  \/ \E p \in Purchases, outcome \in {"succeeded", "declined"} : ChargeCreates(s, p, outcome)
  \/ ChargeFails(s)
  \/ \E p \in Purchases, outcome \in {"succeeded", "declined"} : ChargeThrows(s, p, outcome)
  \/ ScanReleases(s)

HandlerStep(h) ==
  \/ HandlerGrants(h)
  \/ HandlerRecords(h)
  \/ HandlerReleases(h)

Next ==
  \/ \E w \in Workspaces, t \in Thresholds, pack \in Packs : updateEnable(w, t, pack)
  \/ \E w \in Workspaces : updateDisable(w)
  \/ \E w \in Workspaces : SubscriptionChanges(w)
  \/ \E w \in Workspaces, c \in Spends : Spend(w, c)
  \/ \E w \in Workspaces, p \in Purchases, pack \in Packs, outcome \in {"succeeded", "pending"} :
       CheckoutCompleted(w, p, pack, outcome)
  \/ \E p \in Purchases, outcome \in {"succeeded", "declined"} : PaymentSettles(p, outcome)
  \/ \E s \in Scanners : ScanStep(s)
  \/ \E s \in Scanners : ScanCrashes(s)
  \/ \E w \in Workspaces : LeaseExpires(w)
  \/ \E h \in Handlers, p \in Purchases : Deliver(h, p)
  \/ \E h \in Handlers : HandlerStep(h)
  \/ \E h \in Handlers : HandlerCrashes(h)

Spec == Init /\ [][Next]_vars

\* The scan runs on its schedule, leases run out, Stripe repeats an event until
\* it is answered, and a running handler or scan goes on.
Fairness ==
  /\ \A s \in Scanners : WF_vars(ScanStep(s))
  /\ \A w \in Workspaces : WF_vars(LeaseExpires(w))
  /\ \A p \in Purchases : WF_vars(p \notin acknowledged /\ \E h \in Handlers : Deliver(h, p))
  /\ \A h \in Handlers : WF_vars(HandlerStep(h))

FairSpec == Spec /\ Fairness

-----------------------------------------------------------------------------
Candidate == [ws : Workspaces, pack : Packs, seen : Nat]

(* Type correctness of the whole state. *)
TypeOK ==
  /\ entitled \subseteq Workspaces
  /\ settings \in [Workspaces ->
       [enabled : BOOLEAN, threshold : Nat \cup {Null}, pack : Packs \cup {"none"}]]
  /\ \A w \in Workspaces : settings[w].enabled => settings[w].pack \in Packs
  /\ failure \subseteq Workspaces
  /\ locked \subseteq Workspaces
  /\ balance \in [Workspaces -> Nat]
  /\ purchases \in [Purchases -> {NoPurchase} \cup
       [kind : {"auto", "checkout"}, ws : Workspaces, pack : Packs,
        outcome : {"succeeded", "pending", "declined"}, seen : Nat]]
  /\ credited \subseteq Purchases
  /\ payments \subseteq Purchases
  /\ acknowledged \subseteq Purchases
  /\ \A s \in Scanners :
       /\ scans[s].phase \in {"idle", "listed", "charging", "failed"}
       /\ scans[s].phase # "idle" => scans[s].left \subseteq Candidate
       /\ scans[s].phase = "charging" => scans[s].candidate \in Candidate
       /\ scans[s].phase = "failed" => scans[s].ws \in Workspaces
  /\ handlers \in [Handlers -> {IdleHandler} \cup
       [phase : {"grant", "record", "release"}, of : Purchases]]
  /\ spent \in [Workspaces -> Nat]
  /\ shortfall \in [Workspaces -> Nat]
  /\ used \in [updates : Nat, crashes : Nat, redeliveries : Nat, delayed : Nat]

(* What is recorded in the payment table, or answered with 200, has its      *)
(* credit: crashes, repeated and overlapping deliveries leave no payment row *)
(* and no answered purchase without it.  Nothing is credited but a charge    *)
(* that succeeded or a checkout Stripe reported complete.                    *)
PaidIsCredited ==
  /\ payments \subseteq credited
  /\ \A p \in acknowledged : Granting(p) => p \in credited
  /\ \A p \in credited : Granting(p)

(* A failure code on the row means auto-reload is off, until the customer    *)
(* turns it on again or a charge succeeds: no failed card is retried by the  *)
(* next tick, whatever handlers, scans and customers do in between.          *)
FailedMeansOff == TypeOK /\ \A w \in failure : ~settings[w].enabled

\* What has been bought, as TopUps sees it.
Orders ==
  [p \in Purchases |->
     IF Granting(p)
     THEN [bought |-> TRUE, ws |-> purchases[p].ws, pack |-> purchases[p].pack]
     ELSE [bought |-> FALSE]]

Promise == INSTANCE TopUps WITH orders <- Orders

(* Every charge that succeeded and every checkout completed is credited      *)
(* exactly once, in full, to the workspace that bought it: the webhook's     *)
(* three commits, Stripe's repeated deliveries and the crashes in between    *)
(* implement TopUps.                                                         *)
CreditedExactlyOnce == Promise!Safety

(* ... and it is credited in the end, however often a handler dies.          *)
PaidArrives == Promise!Spec

(* A workspace that runs low is reloaded, or auto-reload goes off: no lease, *)
(* crash or lost answer leaves it low and enabled for ever.                  *)
LowIsReloaded ==
  \A w \in Workspaces :
    (settings[w].enabled /\ Low(w)) ~> (~settings[w].enabled \/ ~Low(w))

(* autoreload.service.ts on runScan: two overlapping ticks, or two worker    *)
(* replicas, "cannot both bill the same card".  One shortfall of a workspace *)
(* is collected at most once, where no charge of it failed.                  *)
BilledOncePerShortfall ==
  \A p, q \in Purchases :
    /\ Succeeded(p) /\ purchases[p].kind = "auto"
    /\ Succeeded(q) /\ purchases[q].kind = "auto"
    /\ purchases[p].ws = purchases[q].ws /\ purchases[p].ws \notin failure
    /\ purchases[p].seen = purchases[q].seen
    => p = q

(* stripe.service.ts on the payment row of a top-up, written "paid": "The    *)
(* grant above is what they may spend; this is what they paid for it".       *)
(* What is credited was collected.  False of the code: see the README.       *)
CreditedIsCollected == \A p \in credited : Succeeded(p)

(* plans.ts on topupsEnabled: "May buy top-up packs.  Deliberately false on  *)
(* free".  No pack is sold to a workspace whose plan may not buy top-ups.    *)
SoldOnlyToEntitled ==
  [][\A p \in Purchases :
       ~Created(p) /\ purchases'[p].kind # "none" => purchases'[p].ws \in entitled]_vars

-----------------------------------------------------------------------------
\* TLC tells no two scans, handlers or ids of Stripe apart.
ActorSymmetry == Permutations(Scanners) \cup Permutations(Handlers)
IdSymmetry == Permutations(Purchases)
Symmetry == ActorSymmetry \cup IdSymmetry
=============================================================================
