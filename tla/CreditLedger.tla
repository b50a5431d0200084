---------------------------- MODULE CreditLedger ----------------------------
(***************************************************************************)
(* The credit ledger of src/src/modules/billing: the two-bucket balance of *)
(* a workspace, the append-only rows of `credit_transaction`, the usage    *)
(* rows written beside them, the subscription row that decides the monthly *)
(* allowance, and the handlers that move all of these.                     *)
(*                                                                         *)
(* One action is one database transaction, or one awaited read of a        *)
(* handler that reads before its transaction opens.  `spendWithin` and     *)
(* `grantWithin` hold the balance row FOR UPDATE from their first read to  *)
(* their commit, so each is one action; a handler that throws rolls back,  *)
(* so a refusal is an action that is not enabled.                          *)
(***************************************************************************)
EXTENDS Integers, FiniteSets, FiniteSetsExt, Plans

CONSTANTS
  Workspaces,      \* organizations
  Users,           \* accounts that create workspaces
  References,      \* stable charge references: a message id, a job id, a step
  AdminKeys,       \* idempotency keys of operator adjustments
  Prices,          \* credits one provider call can be priced at (0 rounds away)
  GrantRequests,   \* the distinct grants callers may issue and re-issue
  Runners,         \* concurrent executions of refillPlanCredits
  SyncPlans,       \* plans a subscription is put on, by Stripe or an operator
  SyncStatuses,    \* statuses Stripe's subscription events carry
  MaxSeats,        \* bound on the members of a workspace
  LastPeriod       \* bound on the calendar months that pass

Periods == 0..LastPeriod
Buckets == {"plan", "topup"}
Kinds == {"plan_refill", "signup_grant", "topup", "deduct", "refund",
          "admin_adjust", "promo"}
Statuses == {"incomplete", "trialing", "active", "past_due", "canceled", "unpaid"}
GrantKinds == {"topup", "admin_adjust", "refund", "promo"}

ASSUME PricesAssumption == Prices \subseteq Nat
ASSUME SyncAssumption == SyncPlans \subseteq Plans /\ SyncStatuses \subseteq Statuses
ASSUME PeriodAssumption == LastPeriod \in Nat
ASSUME SeatsAssumption == MaxSeats \in Nat
ASSUME GrantsAssumption ==
  \A g \in GrantRequests :
    /\ g.kind \in GrantKinds
    /\ g.bucket \in Buckets
    /\ g.amount \in Nat \ {0}
    /\ g.ws \in Workspaces

VARIABLES
  period,        \* the current UTC month
  provisioning,  \* how far provisionWorkspace got, per workspace
  creator,       \* the user a workspace is provisioned for
  accounts,      \* workspaces with a credit_balance row
  balance,       \* credit_balance: plan and topup credits, planResetAt
  subscribed,    \* workspaces with a subscription row
  subscription,  \* its plan and status
  members,       \* occupied seats
  ledger,        \* credit_transaction rows
  usage,         \* usage_ledger rows
  posted,        \* history: the sum of the ledger rows of each bucket
  refills        \* the executions of refillPlanCredits in flight

vars == <<period, provisioning, creator, accounts, balance, subscribed,
          subscription, members, ledger, usage, posted, refills>>

-----------------------------------------------------------------------------
\* The references the code builds: what they name, and for a spend the bucket
\* suffix (`#plan`, `#topup`) its two rows are told apart by.
SignupReference(u) == [of |-> <<"signup", u>>, part |-> "whole"]
RefillReference(w, p) == [of |-> <<"refill", w, p>>, part |-> "whole"]
GrantReference(g) == [of |-> <<"grant", g.key>>, part |-> "whole"]
ChargeReference(w, r) == <<"charge", w, r>>
AdminReference(key) == <<"admin", key>>
SpendReference(reference, bucket) == [of |-> reference, part |-> bucket]

Row(kind, w, bucket, reference, amount) ==
  [kind |-> kind, ws |-> w, bucket |-> bucket, ref |-> reference, amount |-> amount]

\* The unique index credit_transaction(kind, reference): insertTransaction
\* returns nothing when such a row is already there.
Inserted(kind, reference) ==
  \E row \in ledger : row.kind = kind /\ row.ref = reference

\* billingService.getPlan: an inactive or missing subscription is free.
getPlan(w) ==
  IF w \in subscribed /\ subscription[w].status \in ACTIVE_SUBSCRIPTION_STATUSES
  THEN subscription[w].plan ELSE "free"

\* Mutant: the start of the month after next.
nextPeriodStart_SkipsOne(at) == at + 2

nextPeriodStart(at) == at + 1

Idle == [phase |-> "idle"]
Fresh(at) == [plan |-> 0, topup |-> 0, resetAt |-> at]

\* Appending rows and moving the balance by them, in one transaction.
PostTo(w, bucket, amount) ==
  posted' = [posted EXCEPT ![w][bucket] = @ + amount]

Init ==
  /\ period = 0
  /\ provisioning = [w \in Workspaces |-> "absent"]
  /\ creator \in [Workspaces -> Users]
  /\ accounts = {}
  /\ balance = [w \in Workspaces |-> Fresh(0)]
  /\ subscribed = {}
  /\ subscription = [w \in Workspaces |-> [plan |-> "free", status |-> "incomplete"]]
  /\ members = [w \in Workspaces |-> 1]
  /\ ledger = {}
  /\ usage = {}
  /\ posted = [w \in Workspaces |-> [plan |-> 0, topup |-> 0]]
  /\ refills = [k \in Runners |-> Idle]

-----------------------------------------------------------------------------
(* grantWithin: lock the balance, insert the row, move the bucket by it.   *)
GrantWithin(kind, w, bucket, reference, amount) ==
  /\ amount > 0
  /\ w \in accounts
  /\ IF Inserted(kind, reference)
     THEN UNCHANGED <<balance, ledger, posted>>
     ELSE /\ ledger' = ledger \cup {Row(kind, w, bucket, reference, amount)}
          /\ balance' = [balance EXCEPT ![w][bucket] = @ + amount]
          /\ PostTo(w, bucket, amount)

(* spendWithin: plan bucket first, one row per bucket touched.             *)
FromPlan(w, amount) == IF balance[w].plan < amount THEN balance[w].plan ELSE amount
FromTopup(w, amount) == amount - FromPlan(w, amount)

\* The early returns: the plan row conflicts, or there is no plan row to
\* insert and the topup row conflicts.
SpendAlreadyApplied(w, reference, amount) ==
  \/ FromPlan(w, amount) > 0 /\ Inserted("deduct", SpendReference(reference, "plan"))
  \/ FromPlan(w, amount) = 0 /\ Inserted("deduct", SpendReference(reference, "topup"))

\* The rows the two inserts leave behind: a topup row that conflicts after a
\* plan row went in is skipped, and the debit goes ahead without it.
TopupRowPosts(w, reference, amount) ==
  FromTopup(w, amount) > 0 /\ ~Inserted("deduct", SpendReference(reference, "topup"))

\* Mutant: the plan row carries the whole amount of a spend that is split.
SpendRows_WholeAmount(w, reference, amount) ==
  (IF FromPlan(w, amount) > 0
   THEN {Row("deduct", w, "plan", SpendReference(reference, "plan"), -amount)}
   ELSE {})
  \cup
  (IF TopupRowPosts(w, reference, amount)
   THEN {Row("deduct", w, "topup", SpendReference(reference, "topup"), -FromTopup(w, amount))}
   ELSE {})

SpendRows(w, reference, amount) ==
  (IF FromPlan(w, amount) > 0
   THEN {Row("deduct", w, "plan", SpendReference(reference, "plan"), -FromPlan(w, amount))}
   ELSE {})
  \cup
  (IF TopupRowPosts(w, reference, amount)
   THEN {Row("deduct", w, "topup", SpendReference(reference, "topup"), -FromTopup(w, amount))}
   ELSE {})

\* Mutant: no check that the two buckets cover the amount.
SpendWithin_Overdraws(w, reference, amount) ==
  /\ amount > 0
  /\ w \in accounts
  /\ ~SpendAlreadyApplied(w, reference, amount)
  /\ ledger' = ledger \cup SpendRows(w, reference, amount)
  /\ balance' = [balance EXCEPT ![w].plan = @ - FromPlan(w, amount),
                                ![w].topup = @ - FromTopup(w, amount)]
  /\ posted' = [posted EXCEPT ![w].plan = @ - FromPlan(w, amount),
                              ![w].topup = @ - FromTopup(w, amount)]

SpendWithin(w, reference, amount) ==
  /\ amount > 0
  /\ w \in accounts
  /\ balance[w].plan + balance[w].topup >= amount
  /\ IF SpendAlreadyApplied(w, reference, amount)
     THEN UNCHANGED <<balance, ledger, posted>>
     ELSE /\ ledger' = ledger \cup SpendRows(w, reference, amount)
          /\ balance' = [balance EXCEPT ![w].plan = @ - FromPlan(w, amount),
                                        ![w].topup = @ - FromTopup(w, amount)]
          /\ posted' = [posted EXCEPT
               ![w].plan = @ - FromPlan(w, amount),
               ![w].topup = IF TopupRowPosts(w, reference, amount)
                            THEN @ - FromTopup(w, amount) ELSE @]

-----------------------------------------------------------------------------
(* usageService.recordAndCharge: the spend and the usage row commit        *)
(* together; a price of zero records usage and moves nothing.              *)
UsageRecorded(reference) == \E row \in usage : row.ref = reference

InsertUsage(w, reference, credits) ==
  usage' = IF UsageRecorded(reference) THEN usage
           ELSE usage \cup {[ref |-> reference, ws |-> w, credits |-> credits]}

\* Mutant: a refused spend is swallowed and its usage recorded all the same.
recordAndCharge_SwallowsRefusal(w, reference, credits) ==
  /\ IF credits > 0 /\ balance[w].plan + balance[w].topup >= credits
     THEN SpendWithin(w, reference, credits)
     ELSE UNCHANGED <<balance, ledger, posted>>
  /\ InsertUsage(w, reference, credits)
  /\ UNCHANGED <<period, provisioning, creator, accounts, subscribed,
                 subscription, members, refills>>

recordAndCharge(w, reference, credits) ==
  /\ IF credits > 0 THEN SpendWithin(w, reference, credits)
                    ELSE UNCHANGED <<balance, ledger, posted>>
  /\ InsertUsage(w, reference, credits)
  /\ UNCHANGED <<period, provisioning, creator, accounts, subscribed,
                 subscription, members, refills>>

\* adminService.adjustCredits with a negative amount: a spend with no usage row.
adjustCredits(w, key, amount) ==
  /\ SpendWithin(w, AdminReference(key), amount)
  /\ UNCHANGED <<period, provisioning, creator, accounts, subscribed,
                 subscription, members, usage, refills>>

\* billingService.grant, for a Stripe purchase, an adjustment or a promo code.
grant(g) ==
  /\ GrantWithin(g.kind, g.ws, g.bucket, GrantReference(g), g.amount)
  /\ UNCHANGED <<period, provisioning, creator, accounts, subscribed,
                 subscription, members, usage, refills>>

-----------------------------------------------------------------------------
(* refillPlanCredits(workspace, at): the plan and the seats are read before *)
(* the transaction opens.                                                   *)
RefillCalled(k, w) ==
  /\ refills[k].phase = "idle"
  /\ refills' = [refills EXCEPT ![k] = [phase |-> "plan", ws |-> w, at |-> period]]

\* The refill job of the billing worker.
RefillJob(k, w) ==
  /\ RefillCalled(k, w)
  /\ UNCHANGED <<period, provisioning, creator, accounts, balance, subscribed,
                 subscription, members, ledger, usage, posted>>

RefillReadsPlan(k) ==
  /\ refills[k].phase = "plan"
  /\ refills' = [refills EXCEPT ![k] =
       [phase |-> "seats", ws |-> @.ws, at |-> @.at, plan |-> getPlan(@.ws)]]
  /\ UNCHANGED <<period, provisioning, creator, accounts, balance, subscribed,
                 subscription, members, ledger, usage, posted>>

\* scheduledRefill: the seats, and with them the amount owed.
RefillReadsSeats(k) ==
  /\ refills[k].phase = "seats"
  /\ refills' = [refills EXCEPT ![k] =
       [phase |-> "post", ws |-> @.ws, at |-> @.at,
        amount |-> creditsForPeriod(@.plan, members[@.ws])]]
  /\ UNCHANGED <<period, provisioning, creator, accounts, balance, subscribed,
                 subscription, members, ledger, usage, posted>>

\* Mutant: a repeated refill fills the bucket up again.
RefillMovesClock_FillsAgain(k) ==
  /\ refills[k].phase = "post"
  /\ LET w == refills[k].ws
         at == refills[k].at
     IN  /\ \/ refills[k].amount = Null
            \/ Inserted("plan_refill", RefillReference(w, at))
         /\ accounts' = accounts \cup {w}
         /\ balance' = [balance EXCEPT
              ![w].plan = IF refills[k].amount = Null THEN @ ELSE refills[k].amount,
              ![w].resetAt = nextPeriodStart(at)]
  /\ refills' = [refills EXCEPT ![k] = Idle]
  /\ UNCHANGED <<period, provisioning, creator, subscribed, subscription,
                 members, ledger, usage, posted>>

\* No scheduled allowance, or this month's is posted: only the clock moves.
RefillMovesClock(k) ==
  /\ refills[k].phase = "post"
  /\ LET w == refills[k].ws
         at == refills[k].at
     IN  /\ \/ refills[k].amount = Null
            \/ Inserted("plan_refill", RefillReference(w, at))
         /\ accounts' = accounts \cup {w}
         /\ balance' = [balance EXCEPT ![w].resetAt = nextPeriodStart(at)]
  /\ refills' = [refills EXCEPT ![k] = Idle]
  /\ UNCHANGED <<period, provisioning, creator, subscribed, subscription,
                 members, ledger, usage, posted>>

\* The month's first refill SETS the plan bucket: the leftover expires.
RefillPosts(k) ==
  /\ refills[k].phase = "post"
  /\ LET w == refills[k].ws
         at == refills[k].at
         amount == refills[k].amount
     IN  /\ amount # Null
         /\ ~Inserted("plan_refill", RefillReference(w, at))
         /\ accounts' = accounts \cup {w}
         /\ ledger' = ledger \cup
              {Row("plan_refill", w, "plan", RefillReference(w, at), amount)}
         /\ balance' = [balance EXCEPT ![w].plan = amount,
                                       ![w].resetAt = nextPeriodStart(at)]
         /\ PostTo(w, "plan", amount)
  /\ refills' = [refills EXCEPT ![k] = Idle]
  /\ UNCHANGED <<period, provisioning, creator, subscribed, subscription,
                 members, usage>>

\* The process running a refill dies before its transaction commits.
RefillCrashes(k) ==
  /\ refills[k].phase # "idle"
  /\ refills' = [refills EXCEPT ![k] = Idle]
  /\ UNCHANGED <<period, provisioning, creator, accounts, balance, subscribed,
                 subscription, members, ledger, usage, posted>>

-----------------------------------------------------------------------------
(* provisionWorkspace: four commits, not one, re-runnable from the top.    *)
ProvisionStep(w, from, to) ==
  /\ provisioning[w] = from
  /\ provisioning' = [provisioning EXCEPT ![w] = to]

ProvisionBalance(w) ==
  /\ ProvisionStep(w, "absent", "balance")
  /\ accounts' = accounts \cup {w}
  /\ balance' = IF w \in accounts THEN balance
                ELSE [balance EXCEPT ![w] = Fresh(period)]
  /\ UNCHANGED <<period, creator, subscribed, subscription, members, ledger,
                 usage, posted, refills>>

ProvisionSubscription(w) ==
  /\ ProvisionStep(w, "balance", "subscription")
  /\ subscribed' = subscribed \cup {w}
  /\ subscription' = IF w \in subscribed THEN subscription
       ELSE [subscription EXCEPT ![w] = [plan |-> "free", status |-> "active"]]
  /\ UNCHANGED <<period, creator, accounts, balance, members, ledger, usage,
                 posted, refills>>

ProvisionGrant(w) ==
  /\ ProvisionStep(w, "subscription", "granted")
  /\ GrantWithin("signup_grant", w, "topup", SignupReference(creator[w]),
                 SIGNUP_GRANT_CREDITS)
  /\ UNCHANGED <<period, creator, accounts, subscribed, subscription, members,
                 usage, refills>>

ProvisionRefill(w, k) ==
  /\ ProvisionStep(w, "granted", "done")
  /\ RefillCalled(k, w)
  /\ UNCHANGED <<period, creator, accounts, balance, subscribed, subscription,
                 members, ledger, usage, posted>>

\* A crash part way, or the repair script on a provisioned workspace.
ProvisionAgain(w) ==
  /\ provisioning[w] # "absent"
  /\ provisioning' = [provisioning EXCEPT ![w] = "absent"]
  /\ UNCHANGED <<period, creator, accounts, balance, subscribed, subscription,
                 members, ledger, usage, posted, refills>>

-----------------------------------------------------------------------------
\* changePlan, by an operator: no refill follows.
changePlan(w, plan) ==
  /\ w \in subscribed
  /\ subscription' = [subscription EXCEPT ![w] = [plan |-> plan, status |-> "active"]]
  /\ UNCHANGED <<period, provisioning, creator, accounts, balance, subscribed,
                 members, ledger, usage, posted, refills>>

\* stripeService.onSubscriptionChanged: mirror the row, then refill when the
\* subscription is active.  "none" is a price the catalogue does not know.
MirrorSubscription(w, plan, status) ==
  subscription' =
    IF w \notin subscribed THEN subscription
    ELSE [subscription EXCEPT
            ![w] = [plan |-> IF plan = "none" THEN @.plan ELSE plan,
                    status |-> status]]

onSubscriptionChanged(w, plan, status, k) ==
  /\ MirrorSubscription(w, plan, status)
  /\ IF status \in ACTIVE_SUBSCRIPTION_STATUSES /\ plan # "none"
     THEN RefillCalled(k, w)
     ELSE UNCHANGED refills
  /\ UNCHANGED <<period, provisioning, creator, accounts, balance, subscribed,
                 members, ledger, usage, posted>>

\* Invitations accepted and members removed, and the month turning over.
SeatsChange(w, n) ==
  /\ members[w] # n
  /\ members' = [members EXCEPT ![w] = n]
  /\ UNCHANGED <<period, provisioning, creator, accounts, balance, subscribed,
                 subscription, ledger, usage, posted, refills>>

MonthTurns ==
  /\ period < LastPeriod
  /\ period' = period + 1
  /\ UNCHANGED <<provisioning, creator, accounts, balance, subscribed,
                 subscription, members, ledger, usage, posted, refills>>

Next ==
  \/ \E w \in Workspaces, r \in References, c \in Prices :
       recordAndCharge(w, ChargeReference(w, r), c)
  \/ \E w \in Workspaces, key \in AdminKeys, c \in Prices : adjustCredits(w, key, c)
  \/ \E g \in GrantRequests : grant(g)
  \/ \E k \in Runners, w \in Workspaces : RefillJob(k, w)
  \/ \E k \in Runners : RefillReadsPlan(k)
  \/ \E k \in Runners : RefillReadsSeats(k)
  \/ \E k \in Runners : RefillMovesClock(k)
  \/ \E k \in Runners : RefillPosts(k)
  \/ \E k \in Runners : RefillCrashes(k)
  \/ \E w \in Workspaces : ProvisionBalance(w)
  \/ \E w \in Workspaces : ProvisionSubscription(w)
  \/ \E w \in Workspaces : ProvisionGrant(w)
  \/ \E w \in Workspaces, k \in Runners : ProvisionRefill(w, k)
  \/ \E w \in Workspaces : ProvisionAgain(w)
  \/ \E w \in Workspaces, p \in SyncPlans : changePlan(w, p)
  \/ \E w \in Workspaces, p \in SyncPlans \cup {"none"}, s \in SyncStatuses, k \in Runners :
       onSubscriptionChanged(w, p, s, k)
  \/ \E w \in Workspaces, n \in 1..MaxSeats : SeatsChange(w, n)
  \/ MonthTurns

Spec == Init /\ [][Next]_vars

-----------------------------------------------------------------------------
RefillStates ==
  {Idle}
  \cup [phase : {"plan"}, ws : Workspaces, at : Nat]
  \cup [phase : {"seats"}, ws : Workspaces, at : Nat, plan : Plans]
  \cup [phase : {"post"}, ws : Workspaces, at : Nat, amount : Nat \cup {Null}]

(* Type correctness of the whole state. *)
TypeOK ==
  /\ period \in Nat
  /\ provisioning \in
       [Workspaces -> {"absent", "balance", "subscription", "granted", "done"}]
  /\ creator \in [Workspaces -> Users]
  /\ accounts \subseteq Workspaces
  /\ balance \in [Workspaces -> [plan : Int, topup : Int, resetAt : Nat]]
  /\ subscribed \subseteq Workspaces
  /\ subscription \in [Workspaces -> [plan : Plans, status : Statuses]]
  /\ members \in [Workspaces -> Nat]
  /\ \A row \in ledger :
       row.kind \in Kinds /\ row.ws \in Workspaces /\ row.bucket \in Buckets
       /\ row.amount \in Int
  /\ \A u \in usage : u.ws \in Workspaces /\ u.credits \in Nat
  /\ posted \in [Workspaces -> [plan : Int, topup : Int]]
  /\ refills \in [Runners -> RefillStates]

(* No bucket is ever overdrawn, and no bucket ever holds a credit the ledger *)
(* does not show: whatever spends, grants, refills and retries interleave,   *)
(* the balance is covered by the sum of the bucket's credit_transaction rows.*)
BackedByLedger ==
  \A w \in Workspaces :
    /\ 0 <= balance[w].plan  /\ balance[w].plan  <= posted[w].plan
    /\ 0 <= balance[w].topup /\ balance[w].topup <= posted[w].topup

\* What the rows of a set add up to.
SumOfAmounts(rows) == MapThenSumSet(LAMBDA row : row.amount, rows)
LedgerSum(w, bucket) ==
  SumOfAmounts({row \in ledger : row.ws = w /\ row.bucket = bucket})

(* The history variable is what it claims to be: the sum of the rows of each *)
(* bucket, so that BackedByLedger speaks of the ledger itself.               *)
PostedIsLedgerSum ==
  \A w \in Workspaces, b \in Buckets : posted[w][b] = LedgerSum(w, b)

(* The trial belongs to the person: however many workspaces a user creates,  *)
(* and however often each is provisioned again, one signup grant is posted.  *)
SignupGrantOncePerUser ==
  \A r1, r2 \in ledger :
    /\ r1.kind = "signup_grant" /\ r2.kind = "signup_grant"
    /\ creator[r1.ws] = creator[r2.ws]
    => r1 = r2

(* The two ledgers agree: a priced usage row has its deduction, and a charge *)
(* deduction its usage row, under one reference (recordAndCharge commits     *)
(* both or neither).                                                         *)
UsageMatchesDeductions ==
  /\ \A u \in usage : u.credits > 0 =>
       \E row \in ledger : row.kind = "deduct" /\ row.ref.of = u.ref
  /\ \A row \in ledger : row.kind = "deduct" /\ row.ref.of[1] = "charge" =>
       \E u \in usage : u.ref = row.ref.of

(* Purchased credit is touched last: a step that takes top-up credit leaves  *)
(* the plan bucket empty.                                                    *)
PlanCreditsSpentFirst ==
  [][\A w \in Workspaces :
       balance'[w].topup < balance[w].topup => balance'[w].plan = 0]_vars

(* A bucket rises only in the transaction that appends a row crediting that  *)
(* bucket of that workspace, and by no more than the row says.               *)
RisesOnlyWithPosting ==
  [][\A w \in Workspaces, b \in Buckets :
       balance'[w][b] > balance[w][b] =>
         \E row \in ledger' \ ledger :
           /\ row.ws = w /\ row.bucket = b
           /\ balance'[w][b] - balance[w][b] <= row.amount]_vars

(* However many times a month's refill runs, and however the runs overlap,   *)
(* only the first moves the bucket: a run that finds the month's row posted  *)
(* leaves every balance as the customer has spent it down to.                *)
RepeatedRefillKeepsBalance ==
  [][\A k \in Runners :
       /\ refills[k].phase = "post"
       /\ Inserted("plan_refill", RefillReference(refills[k].ws, refills[k].at))
       => \A w \in Workspaces, b \in Buckets : 
            (refills'[k] # refills[k]) => balance'[w][b] = balance[w][b]]_vars

(* The clock the refill scan selects on is never past the next month: when   *)
(* a month begins, every workspace with a balance is due.                    *)
NeverSkipsAMonth ==
  \A w \in accounts : balance[w].resetAt <= period + 1
=============================================================================
