------------------------- MODULE CreditLedgerProofs -------------------------
(***************************************************************************)
(* Machine-checked theorems about CreditLedger, for every set of           *)
(* workspaces, users, references, prices and grants, and any number of     *)
(* concurrent refills.                                                     *)
(***************************************************************************)
EXTENDS CreditLedger, FiniteSetTheorems, WellFoundedInduction, TLAPS

\* What the creation of the system knows of the seats and prices it is given.
USE DEF Buckets, Null

-----------------------------------------------------------------------------
(* The helpers: what they return.                                          *)

\* A scheduled allowance is a number of credits or nothing at all.
LEMMA AllowanceType ==
  ASSUME NEW p \in Plans, NEW n \in Nat
  PROVE  creditsForPeriod(p, n) \in Nat \cup {Null}
<1>1. AtLeastOne(n) \in Nat
  BY DEF AtLeastOne
<1>2. CASE p = "free"
  BY <1>2 DEF creditsForPeriod, planLimits, PLAN_LIMITS
<1>3. CASE p = "starter"
  BY <1>3 DEF creditsForPeriod, planLimits, PLAN_LIMITS
<1>4. CASE p = "pro"
  BY <1>1, <1>4 DEF creditsForPeriod, planLimits, PLAN_LIMITS
<1>5. CASE p = "team"
  BY <1>5 DEF creditsForPeriod, planLimits, PLAN_LIMITS
<1>6. CASE p = "enterprise"
  BY <1>6 DEF creditsForPeriod, planLimits, PLAN_LIMITS
<1>7. QED
  BY <1>2, <1>3, <1>4, <1>5, <1>6 DEF Plans

\* The plan a workspace is entitled to is a plan of the catalogue.
LEMMA PlanType ==
  ASSUME TypeOK, NEW w \in Workspaces
  PROVE  getPlan(w) \in Plans
BY DEF TypeOK, getPlan, Plans

-----------------------------------------------------------------------------
(* The state the two bookkeeping operators touch, typed and backed.        *)
Rows == \A row \in ledger :
          /\ row.kind \in Kinds /\ row.ws \in Workspaces
          /\ row.bucket \in Buckets /\ row.amount \in Int

Books ==
  /\ balance \in [Workspaces -> [plan : Int, topup : Int, resetAt : Nat]]
  /\ posted \in [Workspaces -> [plan : Int, topup : Int]]
  /\ Rows

\* A grant keeps the books typed.
LEMMA GrantType ==
  ASSUME Books, NEW w \in Workspaces, NEW kind \in Kinds, NEW bucket \in Buckets,
         NEW reference, NEW amount \in Nat,
         GrantWithin(kind, w, bucket, reference, amount)
  PROVE  Books'
<1>1. CASE Inserted(kind, reference)
  BY <1>1 DEF GrantWithin, Books, Rows
<1>2. CASE ~Inserted(kind, reference)
  <2>1. CASE bucket = "plan"
    BY <1>2, <2>1, SMTT(60) DEF GrantWithin, Books, Rows, Row, PostTo
  <2>2. CASE bucket = "topup"
    BY <1>2, <2>2, SMTT(60) DEF GrantWithin, Books, Rows, Row, PostTo
  <2>3. QED
    BY <2>1, <2>2
<1>3. QED
  BY <1>1, <1>2

\* A spend keeps the books typed.
LEMMA SpendType ==
  ASSUME Books, NEW w \in Workspaces, NEW reference, NEW amount \in Nat,
         SpendWithin(w, reference, amount)
  PROVE  Books'
<1>1. FromPlan(w, amount) \in Int /\ FromTopup(w, amount) \in Int
  BY DEF Books, FromPlan, FromTopup
<1>2. CASE SpendAlreadyApplied(w, reference, amount)
  BY <1>2 DEF SpendWithin, Books, Rows
<1>3. CASE ~SpendAlreadyApplied(w, reference, amount)
  <2>1. \A row \in SpendRows(w, reference, amount) :
          /\ row.kind \in Kinds /\ row.ws \in Workspaces
          /\ row.bucket \in Buckets /\ row.amount \in Int
    BY <1>1 DEF SpendRows, Row, Kinds
  <2>2. Rows'
    BY <1>3, <2>1 DEF SpendWithin, Books, Rows
  <2>3. balance' \in [Workspaces -> [plan : Int, topup : Int, resetAt : Nat]]
    BY <1>1, <1>3, SMTT(30) DEF SpendWithin, Books
  <2>4. posted' \in [Workspaces -> [plan : Int, topup : Int]]
    BY <1>1, <1>3 DEF SpendWithin, Books
  <2>5. QED
    BY <2>2, <2>3, <2>4 DEF Books
<1>4. QED
  BY <1>2, <1>3

-----------------------------------------------------------------------------
(* Every state the handlers reach is well typed, so no bucket, clock or     *)
(* in-flight refill ever holds something the next handler cannot read.      *)
LEMMA TypeInit == Init => TypeOK
BY DEF Init, TypeOK, Fresh, Plans, Statuses, RefillStates, Idle

LEMMA TypeStep == TypeOK /\ [Next]_vars => TypeOK'
<1> SUFFICES ASSUME TypeOK, [Next]_vars PROVE TypeOK'
  OBVIOUS
<1> USE PricesAssumption, GrantsAssumption, SyncAssumption
<1>b. Books
  BY DEF TypeOK, Books, Rows
<1>1. ASSUME NEW w \in Workspaces, NEW r \in References, NEW c \in Prices,
             recordAndCharge(w, ChargeReference(w, r), c)
      PROVE  TypeOK'
  <2>1. Books'
    <3>1. CASE c > 0
      BY <1>1, <1>b, <3>1, SpendType DEF recordAndCharge
    <3>2. CASE ~(c > 0)
      BY <1>1, <1>b, <3>2 DEF recordAndCharge, Books, Rows
    <3>3. QED
      BY <3>1, <3>2
  <2>2. \A u \in usage' : u.ws \in Workspaces /\ u.credits \in Nat
    BY <1>1 DEF TypeOK, recordAndCharge, InsertUsage
  <2>3. QED
    BY <1>1, <2>1, <2>2 DEF TypeOK, recordAndCharge, Books, Rows
<1>2. ASSUME NEW w \in Workspaces, NEW key \in AdminKeys, NEW c \in Prices,
             adjustCredits(w, key, c)
      PROVE  TypeOK'
  <2>1. Books'
    BY <1>2, <1>b, SpendType DEF adjustCredits
  <2>2. QED
    BY <1>2, <2>1 DEF TypeOK, adjustCredits, Books, Rows
<1>3. ASSUME NEW g \in GrantRequests, grant(g) PROVE TypeOK'
  <2>1. g.kind \in Kinds
    BY DEF GrantKinds, Kinds
  <2>2. Books'
    BY <1>3, <1>b, <2>1, GrantType DEF grant
  <2>3. QED
    BY <1>3, <2>2 DEF TypeOK, grant, Books, Rows
<1>4. ASSUME NEW k \in Runners, NEW w \in Workspaces, RefillJob(k, w)
      PROVE  TypeOK'
  BY <1>4 DEF TypeOK, RefillJob, RefillCalled, RefillStates, Idle
<1>5. ASSUME NEW k \in Runners, RefillReadsPlan(k) PROVE TypeOK'
  <2>1. refills[k] \in [phase : {"plan"}, ws : Workspaces, at : Nat]
    BY <1>5 DEF TypeOK, RefillReadsPlan, RefillStates, Idle
  <2>2. getPlan(refills[k].ws) \in Plans
    BY <2>1, PlanType
  <2>3. refills' \in [Runners -> RefillStates]
    BY <1>5, <2>1, <2>2 DEF TypeOK, RefillReadsPlan, RefillStates
  <2>4. QED
    BY <1>5, <2>3 DEF TypeOK, RefillReadsPlan
<1>6. ASSUME NEW k \in Runners, RefillReadsSeats(k) PROVE TypeOK'
  <2>1. refills[k] \in [phase : {"seats"}, ws : Workspaces, at : Nat, plan : Plans]
    BY <1>6 DEF TypeOK, RefillReadsSeats, RefillStates, Idle
  <2>2. creditsForPeriod(refills[k].plan, members[refills[k].ws]) \in Nat \cup {Null}
    BY <2>1, AllowanceType DEF TypeOK
  <2>3. refills' \in [Runners -> RefillStates]
    BY <1>6, <2>1, <2>2 DEF TypeOK, RefillReadsSeats, RefillStates
  <2>4. QED
    BY <1>6, <2>3 DEF TypeOK, RefillReadsSeats
<1>7. ASSUME NEW k \in Runners, RefillMovesClock(k) PROVE TypeOK'
  <2>1. refills[k] \in [phase : {"post"}, ws : Workspaces, at : Nat, amount : Nat \cup {Null}]
    BY <1>7 DEF TypeOK, RefillMovesClock, RefillStates, Idle
  <2>2. QED
    BY <1>7, <2>1, SMTT(60) DEF TypeOK, RefillMovesClock, RefillStates, nextPeriodStart
<1>8. ASSUME NEW k \in Runners, RefillPosts(k) PROVE TypeOK'
  <2>1. refills[k] \in [phase : {"post"}, ws : Workspaces, at : Nat, amount : Nat \cup {Null}]
    BY <1>8 DEF TypeOK, RefillPosts, RefillStates, Idle
  <2> DEFINE w == refills[k].ws
             at == refills[k].at
             amount == refills[k].amount
  <2>2. w \in Workspaces /\ at \in Nat /\ amount \in Nat
    BY <1>8, <2>1 DEF RefillPosts
  <2>3. balance' \in [Workspaces -> [plan : Int, topup : Int, resetAt : Nat]]
    <3>1. balance' = [balance EXCEPT ![w].plan = amount, ![w].resetAt = at + 1]
      BY <1>8 DEF RefillPosts, nextPeriodStart
    <3>2. QED
      BY <2>2, <3>1, SMTT(60) DEF TypeOK
  <2>4. posted' \in [Workspaces -> [plan : Int, topup : Int]]
    <3>1. PostTo(w, "plan", amount)
      BY <1>8 DEF RefillPosts
    <3> HIDE DEF w, amount
    <3>2. QED
      BY <2>2, <3>1 DEF TypeOK, PostTo
  <2>5. Rows'
    BY <1>b, <1>8, <2>2 DEF Books, Rows, RefillPosts, Row, Kinds
  <2>6. refills' \in [Runners -> RefillStates]
    BY <1>8 DEF TypeOK, RefillPosts, RefillStates
  <2>7. QED
    BY <1>8, <2>2, <2>3, <2>4, <2>5, <2>6 DEF TypeOK, RefillPosts, Rows
<1>9. ASSUME NEW k \in Runners, RefillCrashes(k) PROVE TypeOK'
  BY <1>9 DEF TypeOK, RefillCrashes, RefillStates
<1>10. ASSUME NEW w \in Workspaces, ProvisionBalance(w) PROVE TypeOK'
  BY <1>10 DEF TypeOK, ProvisionBalance, ProvisionStep, Fresh
<1>11. ASSUME NEW w \in Workspaces, ProvisionSubscription(w) PROVE TypeOK'
  BY <1>11 DEF TypeOK, ProvisionSubscription, ProvisionStep, Plans, Statuses
<1>12. ASSUME NEW w \in Workspaces, ProvisionGrant(w) PROVE TypeOK'
  <2>1. Books'
    BY <1>12, <1>b, GrantType DEF ProvisionGrant, Kinds, SIGNUP_GRANT_CREDITS
  <2>2. QED
    BY <1>12, <2>1 DEF TypeOK, ProvisionGrant, ProvisionStep, Books, Rows
<1>13. ASSUME NEW w \in Workspaces, NEW k \in Runners, ProvisionRefill(w, k)
       PROVE  TypeOK'
  BY <1>13 DEF TypeOK, ProvisionRefill, ProvisionStep, RefillCalled, RefillStates, Idle
<1>14. ASSUME NEW w \in Workspaces, ProvisionAgain(w) PROVE TypeOK'
  BY <1>14 DEF TypeOK, ProvisionAgain
<1>15. ASSUME NEW w \in Workspaces, NEW p \in SyncPlans, changePlan(w, p)
       PROVE  TypeOK'
  BY <1>15 DEF TypeOK, changePlan, Statuses
<1>16. ASSUME NEW w \in Workspaces, NEW p \in SyncPlans \cup {"none"},
              NEW s \in SyncStatuses, NEW k \in Runners,
              onSubscriptionChanged(w, p, s, k)
       PROVE  TypeOK'
  <2>1. subscription' \in [Workspaces -> [plan : Plans, status : Statuses]]
    BY <1>16 DEF TypeOK, onSubscriptionChanged, MirrorSubscription
  <2>2. refills' \in [Runners -> RefillStates]
    <3>1. CASE UNCHANGED refills
      BY <3>1 DEF TypeOK
    <3>2. CASE RefillCalled(k, w)
      BY <3>2 DEF TypeOK, RefillCalled, RefillStates
    <3>3. QED
      BY <1>16, <3>1, <3>2 DEF onSubscriptionChanged
  <2>3. QED
    BY <1>16, <2>1, <2>2 DEF TypeOK, onSubscriptionChanged
<1>17. ASSUME NEW w \in Workspaces, NEW n \in 1..MaxSeats, SeatsChange(w, n)
       PROVE  TypeOK'
  BY <1>17, SeatsAssumption DEF TypeOK, SeatsChange
<1>18. CASE MonthTurns
  BY <1>18 DEF TypeOK, MonthTurns
<1>19. CASE UNCHANGED vars
  BY <1>19 DEF TypeOK, vars
<1>20. QED
  BY <1>1, <1>2, <1>3, <1>4, <1>5, <1>6, <1>7, <1>8, <1>9, <1>10, <1>11, <1>12,
     <1>13, <1>14, <1>15, <1>16, <1>17, <1>18, <1>19 DEF Next

THEOREM TypeCorrect == Spec => []TypeOK
<1>1. QED
  BY TypeInit, TypeStep, PTL DEF Spec

-----------------------------------------------------------------------------
(* BackedByLedger.  TypeOK gives it the ranges of what a refill owes (a     *)
(* number of credits or nothing) and of what a grant adds; it is then       *)
(* inductive.                                                               *)
LEMMA GrantBacked ==
  ASSUME Books, BackedByLedger, NEW w \in Workspaces, NEW kind \in Kinds,
         NEW bucket \in Buckets, NEW reference, NEW amount \in Nat,
         GrantWithin(kind, w, bucket, reference, amount)
  PROVE  BackedByLedger'
<1>1. CASE Inserted(kind, reference)
  BY <1>1 DEF GrantWithin, BackedByLedger
<1>2. CASE ~Inserted(kind, reference)
  <2>1. CASE bucket = "plan"
    BY <1>2, <2>1 DEF GrantWithin, BackedByLedger, Books, PostTo
  <2>2. CASE bucket = "topup"
    BY <1>2, <2>2 DEF GrantWithin, BackedByLedger, Books, PostTo
  <2>3. QED
    BY <2>1, <2>2
<1>3. QED
  BY <1>1, <1>2

\* What a spend that posts leaves in the two buckets of its workspace, and
\* that the other workspaces keep theirs.
LEMMA SpendEffect ==
  ASSUME Books, NEW w \in Workspaces, NEW reference, NEW amount \in Nat,
         SpendWithin(w, reference, amount),
         ~SpendAlreadyApplied(w, reference, amount)
  PROVE  /\ balance'[w].plan = balance[w].plan - FromPlan(w, amount)
         /\ balance'[w].topup = balance[w].topup - FromTopup(w, amount)
         /\ posted'[w].plan = posted[w].plan - FromPlan(w, amount)
         /\ \/ posted'[w].topup = posted[w].topup - FromTopup(w, amount)
            \/ posted'[w].topup = posted[w].topup
         /\ \A v \in Workspaces : v # w =>
              balance'[v] = balance[v] /\ posted'[v] = posted[v]
<1>1. FromPlan(w, amount) \in Int /\ FromTopup(w, amount) \in Int
  BY DEF Books, FromPlan, FromTopup
<1>2. QED
  BY <1>1 DEF SpendWithin, Books

LEMMA SpendBacked ==
  ASSUME Books, BackedByLedger, NEW w \in Workspaces, NEW reference,
         NEW amount \in Nat, SpendWithin(w, reference, amount)
  PROVE  BackedByLedger'
<1>1. CASE SpendAlreadyApplied(w, reference, amount)
  BY <1>1 DEF SpendWithin, BackedByLedger
<1>2. CASE ~SpendAlreadyApplied(w, reference, amount)
  <2>1. /\ balance[w].plan \in Nat /\ balance[w].topup \in Nat
        /\ posted[w].plan \in Int /\ posted[w].topup \in Int
    BY DEF Books, BackedByLedger
  <2>2. /\ FromPlan(w, amount) \in Nat /\ FromTopup(w, amount) \in Nat
        /\ FromPlan(w, amount) <= balance[w].plan
        /\ FromTopup(w, amount) <= balance[w].topup
    BY <2>1 DEF SpendWithin, FromPlan, FromTopup
  <2>3. /\ 0 <= balance'[w].plan  /\ balance'[w].plan  <= posted'[w].plan
        /\ 0 <= balance'[w].topup /\ balance'[w].topup <= posted'[w].topup
    BY <1>2, <2>1, <2>2, SpendEffect DEF BackedByLedger
  <2>4. QED
    BY <1>2, <2>3, SpendEffect DEF BackedByLedger
<1>3. QED
  BY <1>1, <1>2

LEMMA BackedStep == TypeOK /\ BackedByLedger /\ [Next]_vars => BackedByLedger'
<1> SUFFICES ASSUME TypeOK, BackedByLedger, [Next]_vars PROVE BackedByLedger'
  OBVIOUS
<1> USE PricesAssumption, GrantsAssumption
<1>b. Books
  BY DEF TypeOK, Books, Rows
<1>0. ASSUME UNCHANGED <<balance, posted>> PROVE BackedByLedger'
  BY <1>0 DEF BackedByLedger
<1>1. ASSUME NEW w \in Workspaces, NEW r \in References, NEW c \in Prices,
             recordAndCharge(w, ChargeReference(w, r), c)
      PROVE  BackedByLedger'
  BY <1>0, <1>1, <1>b, SpendBacked DEF recordAndCharge
<1>2. ASSUME NEW w \in Workspaces, NEW key \in AdminKeys, NEW c \in Prices,
             adjustCredits(w, key, c)
      PROVE  BackedByLedger'
  BY <1>2, <1>b, SpendBacked DEF adjustCredits
<1>3. ASSUME NEW g \in GrantRequests, grant(g) PROVE BackedByLedger'
  <2>1. g.kind \in Kinds
    BY DEF GrantKinds, Kinds
  <2>2. QED
    BY <1>3, <1>b, <2>1, GrantBacked DEF grant
<1>4. ASSUME NEW k \in Runners, RefillMovesClock(k) PROVE BackedByLedger'
  BY <1>4 DEF RefillMovesClock, TypeOK, BackedByLedger
<1>5. ASSUME NEW k \in Runners, RefillPosts(k) PROVE BackedByLedger'
  <2>1. refills[k] \in [phase : {"post"}, ws : Workspaces, at : Nat, amount : Nat \cup {Null}]
    BY <1>5 DEF TypeOK, RefillPosts, RefillStates, Idle
  <2> DEFINE w == refills[k].ws
             amount == refills[k].amount
  <2>2. w \in Workspaces /\ amount \in Nat
    BY <1>5, <2>1 DEF RefillPosts
  <2>3. /\ balance'[w].plan = amount /\ balance'[w].topup = balance[w].topup
        /\ posted'[w].plan = posted[w].plan + amount
        /\ posted'[w].topup = posted[w].topup
        /\ \A v \in Workspaces : v # w =>
             balance'[v] = balance[v] /\ posted'[v] = posted[v]
    BY <1>5, <2>2 DEF RefillPosts, PostTo, TypeOK
  <2>4. 0 <= posted[w].plan /\ posted[w].plan \in Int /\ posted[w].topup \in Int
    BY <2>2 DEF BackedByLedger, TypeOK
  <2> HIDE DEF w, amount
  <2>5. QED
    BY <2>2, <2>3, <2>4 DEF BackedByLedger
<1>6. ASSUME NEW w \in Workspaces, ProvisionBalance(w) PROVE BackedByLedger'
  <2>1. CASE w \in accounts
    BY <1>6, <2>1 DEF ProvisionBalance, BackedByLedger
  <2>2. CASE w \notin accounts
    <3>1. 0 <= posted[w].plan /\ 0 <= posted[w].topup
      BY DEF BackedByLedger, TypeOK
    <3>2. QED
      BY <1>6, <2>2, <3>1 DEF ProvisionBalance, Fresh, BackedByLedger, TypeOK
  <2>3. QED
    BY <2>1, <2>2
<1>7. ASSUME NEW w \in Workspaces, ProvisionGrant(w) PROVE BackedByLedger'
  BY <1>7, <1>b, GrantBacked DEF ProvisionGrant, Kinds, SIGNUP_GRANT_CREDITS
<1>8. CASE UNCHANGED vars
  BY <1>0, <1>8 DEF vars
<1>9. QED
  BY <1>0, <1>1, <1>2, <1>3, <1>4, <1>5, <1>6, <1>7, <1>8
  DEF Next, RefillJob, RefillReadsPlan, RefillReadsSeats, RefillCrashes,
      ProvisionSubscription, ProvisionRefill, ProvisionAgain, changePlan,
      onSubscriptionChanged, SeatsChange, MonthTurns

(* Whatever spends, grants, refills and retries interleave, no bucket is    *)
(* overdrawn or holds a credit its ledger rows do not account for.          *)
THEOREM BalanceBacked == Spec => []BackedByLedger
<1>1. Init => BackedByLedger
  BY DEF Init, BackedByLedger, Fresh
<1>2. QED
  BY <1>1, TypeCorrect, BackedStep, PTL DEF Spec

-----------------------------------------------------------------------------
(* NeverSkipsAMonth.  The clock is moved to the month after the one a       *)
(* refill was called in, and no refill was called in the future.            *)
CalledInThePast == \A k \in Runners : refills[k].phase # "idle" => refills[k].at <= period

LEMMA ClockStep ==
  TypeOK /\ CalledInThePast /\ NeverSkipsAMonth /\ [Next]_vars
    => CalledInThePast' /\ NeverSkipsAMonth'
<1> SUFFICES ASSUME TypeOK, CalledInThePast, NeverSkipsAMonth, [Next]_vars
             PROVE  CalledInThePast' /\ NeverSkipsAMonth'
  OBVIOUS
<1> USE PricesAssumption, GrantsAssumption
<1>a. /\ accounts \subseteq Workspaces /\ period \in Nat
      /\ balance \in [Workspaces -> [plan : Int, topup : Int, resetAt : Nat]]
  BY DEF TypeOK
<1>0. ASSUME period' = period, refills' = refills, accounts' = accounts,
             \A w \in Workspaces : balance'[w].resetAt = balance[w].resetAt
      PROVE  CalledInThePast' /\ NeverSkipsAMonth'
  BY <1>0, <1>a DEF CalledInThePast, NeverSkipsAMonth
<1>1. ASSUME NEW w \in Workspaces, NEW reference, NEW amount \in Nat,
             SpendWithin(w, reference, amount)
      PROVE  \A v \in Workspaces : balance'[v].resetAt = balance[v].resetAt
  <2>1. CASE SpendAlreadyApplied(w, reference, amount)
    BY <1>1, <2>1 DEF SpendWithin
  <2>2. CASE ~SpendAlreadyApplied(w, reference, amount)
    BY <1>1, <1>a, <2>2 DEF SpendWithin
  <2>3. QED
    BY <2>1, <2>2
<1>2. ASSUME NEW w \in Workspaces, NEW kind, NEW bucket \in Buckets, NEW reference,
             NEW amount, GrantWithin(kind, w, bucket, reference, amount)
      PROVE  \A v \in Workspaces : balance'[v].resetAt = balance[v].resetAt
  <2>1. CASE Inserted(kind, reference)
    BY <1>2, <2>1 DEF GrantWithin
  <2>2. CASE ~Inserted(kind, reference) /\ bucket = "plan"
    BY <1>2, <1>a, <2>2 DEF GrantWithin
  <2>3. CASE ~Inserted(kind, reference) /\ bucket = "topup"
    BY <1>2, <1>a, <2>3 DEF GrantWithin
  <2>4. QED
    BY <2>1, <2>2, <2>3
<1>3. ASSUME NEW w \in Workspaces, NEW r \in References, NEW c \in Prices,
             recordAndCharge(w, ChargeReference(w, r), c)
      PROVE  CalledInThePast' /\ NeverSkipsAMonth'
  BY <1>0, <1>1, <1>3 DEF recordAndCharge
<1>4. ASSUME NEW w \in Workspaces, NEW key \in AdminKeys, NEW c \in Prices,
             adjustCredits(w, key, c)
      PROVE  CalledInThePast' /\ NeverSkipsAMonth'
  BY <1>0, <1>1, <1>4 DEF adjustCredits
<1>5. ASSUME NEW g \in GrantRequests, grant(g)
      PROVE  CalledInThePast' /\ NeverSkipsAMonth'
  BY <1>0, <1>2, <1>5 DEF grant
<1>6. ASSUME NEW w \in Workspaces, ProvisionGrant(w)
      PROVE  CalledInThePast' /\ NeverSkipsAMonth'
  BY <1>0, <1>2, <1>6 DEF ProvisionGrant
<1>7. ASSUME NEW k \in Runners, RefillMovesClock(k) \/ RefillPosts(k)
      PROVE  CalledInThePast' /\ NeverSkipsAMonth'
  <2>1. refills[k] \in [phase : {"post"}, ws : Workspaces, at : Nat, amount : Nat \cup {Null}]
    BY <1>7 DEF TypeOK, RefillMovesClock, RefillPosts, RefillStates, Idle
  <2>2. refills[k].at <= period
    BY <2>1 DEF CalledInThePast
  <2>3. refills' = [refills EXCEPT ![k] = Idle] /\ period' = period
    BY <1>7 DEF RefillMovesClock, RefillPosts
  <2>4. CalledInThePast'
    BY <2>3 DEF CalledInThePast, Idle, TypeOK
  <2> DEFINE w == refills[k].ws
             at == refills[k].at
  <2>5. w \in Workspaces /\ at \in Nat
    BY <2>1
  <2>6. /\ balance'[w].resetAt = at + 1
        /\ \A v \in Workspaces : v # w => balance'[v] = balance[v]
        /\ accounts' = accounts \cup {w}
    <3>1. CASE RefillMovesClock(k)
      BY <1>a, <2>5, <3>1 DEF RefillMovesClock, nextPeriodStart
    <3>2. CASE RefillPosts(k)
      BY <1>a, <2>5, <3>2 DEF RefillPosts, nextPeriodStart
    <3>3. QED
      BY <1>7, <3>1, <3>2
  <2> HIDE DEF w, at
  <2>7. at <= period
    BY <2>2 DEF at
  <2>8. NeverSkipsAMonth'
    BY <1>a, <2>3, <2>5, <2>6, <2>7 DEF NeverSkipsAMonth
  <2>9. QED
    BY <2>4, <2>8
<1>8. ASSUME NEW w \in Workspaces, ProvisionBalance(w)
      PROVE  CalledInThePast' /\ NeverSkipsAMonth'
  <2>1. CalledInThePast'
    BY <1>8 DEF ProvisionBalance, CalledInThePast
  <2>2. CASE w \in accounts
    BY <1>8, <1>a, <2>1, <2>2 DEF ProvisionBalance, NeverSkipsAMonth
  <2>3. CASE w \notin accounts
    BY <1>8, <1>a, <2>1, <2>3 DEF ProvisionBalance, Fresh, NeverSkipsAMonth
  <2>4. QED
    BY <2>1, <2>2, <2>3
<1>c. ASSUME NEW k \in Runners, NEW entry,
             refills' = [refills EXCEPT ![k] = entry],
             \/ entry.phase = "idle" \/ entry.at = period
             \/ refills[k].phase # "idle" /\ entry.at = refills[k].at,
             period' = period, accounts' = accounts, balance' = balance
      PROVE  CalledInThePast' /\ NeverSkipsAMonth'
  <2>1. NeverSkipsAMonth'
    BY <1>c DEF NeverSkipsAMonth
  <2>2. refills' \in [Runners -> {refills[j] : j \in Runners} \cup {entry}]
    BY <1>c DEF TypeOK
  <2>3. CalledInThePast'
    BY <1>c, <1>a, <2>2 DEF CalledInThePast, TypeOK
  <2>4. QED
    BY <2>1, <2>3
<1>9. ASSUME NEW k \in Runners,
             RefillReadsPlan(k) \/ RefillReadsSeats(k) \/ RefillCrashes(k)
      PROVE  CalledInThePast' /\ NeverSkipsAMonth'
  <2>1. CASE RefillReadsPlan(k)
    BY <1>c, <2>1 DEF RefillReadsPlan
  <2>2. CASE RefillReadsSeats(k)
    BY <1>c, <2>2 DEF RefillReadsSeats
  <2>3. CASE RefillCrashes(k)
    BY <1>c, <2>3 DEF RefillCrashes, Idle
  <2>4. QED
    BY <1>9, <2>1, <2>2, <2>3
<1>d. ASSUME NEW k \in Runners, NEW w \in Workspaces, RefillCalled(k, w),
             period' = period, accounts' = accounts, balance' = balance
      PROVE  CalledInThePast' /\ NeverSkipsAMonth'
  BY <1>c, <1>d DEF RefillCalled
<1>14. ASSUME NEW k \in Runners, NEW w \in Workspaces,
              RefillJob(k, w) \/ ProvisionRefill(w, k)
       PROVE  CalledInThePast' /\ NeverSkipsAMonth'
  BY <1>d, <1>14 DEF RefillJob, ProvisionRefill
<1>10. ASSUME NEW w \in Workspaces, NEW p, NEW st, NEW k \in Runners,
              onSubscriptionChanged(w, p, st, k)
       PROVE  CalledInThePast' /\ NeverSkipsAMonth'
  BY <1>0, <1>10, <1>d DEF onSubscriptionChanged
<1>11. CASE MonthTurns
  <2>1. \A k \in Runners : refills[k].phase # "idle" => refills[k].at \in Nat
    BY DEF TypeOK, RefillStates, Idle
  <2>2. CalledInThePast'
    BY <1>11, <1>a, <2>1 DEF MonthTurns, CalledInThePast
  <2>3. \A w \in accounts : balance[w].resetAt \in Nat
    BY <1>a
  <2>4. NeverSkipsAMonth'
    BY <1>11, <1>a, <2>3 DEF MonthTurns, NeverSkipsAMonth
  <2>5. QED
    BY <2>2, <2>4
<1>12. ASSUME \/ UNCHANGED vars
              \/ \E w \in Workspaces :
                   \/ ProvisionSubscription(w) \/ ProvisionAgain(w)
                   \/ \E p \in SyncPlans : changePlan(w, p)
                   \/ \E n \in 1..MaxSeats : SeatsChange(w, n)
       PROVE  CalledInThePast' /\ NeverSkipsAMonth'
  BY <1>0, <1>12 DEF vars, ProvisionSubscription, ProvisionAgain, changePlan, SeatsChange
<1>13. QED
  BY <1>3, <1>4, <1>5, <1>6, <1>7, <1>8, <1>9, <1>10, <1>11, <1>12, <1>14 DEF Next

(* When a month begins, the refill scan finds every workspace due.          *)
THEOREM ClockNeverAhead == Spec => []NeverSkipsAMonth
<1>1. Init => CalledInThePast /\ NeverSkipsAMonth
  BY DEF Init, CalledInThePast, NeverSkipsAMonth, Idle
<1>2. QED
  BY <1>1, TypeCorrect, ClockStep, PTL DEF Spec

-----------------------------------------------------------------------------
(* SignupGrantOncePerUser.  Two rows never share a kind and a reference,    *)
(* and a signup row carries the reference of the user its workspace was     *)
(* created by.                                                              *)
UniqueReferences ==
  \A x, y \in ledger : x.kind = y.kind /\ x.ref = y.ref => x = y

SignupReferences ==
  \A row \in ledger : row.kind = "signup_grant" => row.ref = SignupReference(creator[row.ws])

LEMMA RowsStep ==
  TypeOK /\ UniqueReferences /\ SignupReferences /\ [Next]_vars
    => UniqueReferences' /\ SignupReferences'
<1> SUFFICES ASSUME TypeOK, UniqueReferences, SignupReferences, [Next]_vars
             PROVE  UniqueReferences' /\ SignupReferences'
  OBVIOUS
<1>0. ASSUME ledger' = ledger, creator' = creator
      PROVE  UniqueReferences' /\ SignupReferences'
  BY <1>0 DEF UniqueReferences, SignupReferences
<1>1. ASSUME NEW w \in Workspaces, NEW kind, NEW bucket, NEW reference, NEW amount,
             GrantWithin(kind, w, bucket, reference, amount), creator' = creator,
             kind = "signup_grant" => reference = SignupReference(creator[w])
      PROVE  UniqueReferences' /\ SignupReferences'
  <2>1. CASE Inserted(kind, reference)
    BY <1>0, <1>1, <2>1 DEF GrantWithin
  <2>2. CASE ~Inserted(kind, reference)
    BY <1>1, <2>2 DEF GrantWithin, Inserted, Row, UniqueReferences, SignupReferences
  <2>3. QED
    BY <2>1, <2>2
<1>2. ASSUME NEW w \in Workspaces, NEW reference, NEW amount,
             SpendWithin(w, reference, amount), creator' = creator
      PROVE  UniqueReferences' /\ SignupReferences'
  <2>1. CASE SpendAlreadyApplied(w, reference, amount)
    BY <1>0, <1>2, <2>1 DEF SpendWithin
  <2>2. CASE ~SpendAlreadyApplied(w, reference, amount)
    <3>1. ledger' = ledger \cup SpendRows(w, reference, amount)
      BY <1>2, <2>2 DEF SpendWithin
    <3>2. \A row \in SpendRows(w, reference, amount) :
            row.kind = "deduct" /\ ~Inserted("deduct", row.ref)
      BY <2>2 DEF SpendRows, Row, SpendAlreadyApplied, TopupRowPosts
    <3>3. \A x, y \in SpendRows(w, reference, amount) : x.ref = y.ref => x = y
      BY DEF SpendRows, Row, SpendReference
    <3>4. QED
      BY <1>2, <3>1, <3>2, <3>3 DEF Inserted, UniqueReferences, SignupReferences
  <2>3. QED
    BY <2>1, <2>2
<1>3. ASSUME NEW w \in Workspaces, NEW reference, NEW c,
             recordAndCharge(w, reference, c)
      PROVE  UniqueReferences' /\ SignupReferences'
  BY <1>0, <1>2, <1>3 DEF recordAndCharge
<1>4. ASSUME NEW w \in Workspaces, NEW key, NEW c, adjustCredits(w, key, c)
      PROVE  UniqueReferences' /\ SignupReferences'
  BY <1>2, <1>4 DEF adjustCredits
<1>5. ASSUME NEW g \in GrantRequests, grant(g)
      PROVE  UniqueReferences' /\ SignupReferences'
  BY <1>1, <1>5, GrantsAssumption DEF grant, GrantKinds
<1>6. ASSUME NEW k \in Runners, RefillPosts(k)
      PROVE  UniqueReferences' /\ SignupReferences'
  BY <1>6 DEF RefillPosts, Inserted, Row, UniqueReferences, SignupReferences
<1>7. ASSUME NEW w \in Workspaces, ProvisionGrant(w)
      PROVE  UniqueReferences' /\ SignupReferences'
  BY <1>1, <1>7 DEF ProvisionGrant
<1>8. CASE UNCHANGED vars
  BY <1>0, <1>8 DEF vars
<1>9. QED
  BY <1>0, <1>3, <1>4, <1>5, <1>6, <1>7, <1>8
  DEF Next, RefillJob, RefillReadsPlan, RefillReadsSeats, RefillCrashes,
      RefillMovesClock, ProvisionBalance, ProvisionSubscription,
      ProvisionRefill, ProvisionAgain, changePlan, onSubscriptionChanged,
      SeatsChange, MonthTurns

(* One person, one trial: no number of workspaces, retries or repairs posts  *)
(* a second signup grant for the same user.                                  *)
THEOREM OneTrialPerUser == Spec => []SignupGrantOncePerUser
<1>1. Init => UniqueReferences /\ SignupReferences
  BY DEF Init, UniqueReferences, SignupReferences
<1>2. UniqueReferences /\ SignupReferences => SignupGrantOncePerUser
  BY DEF UniqueReferences, SignupReferences, SignupGrantOncePerUser
<1>3. QED
  BY <1>1, <1>2, TypeCorrect, RowsStep, PTL DEF Spec

-----------------------------------------------------------------------------
(* UsageMatchesDeductions is inductive: a charge leaves a row under its     *)
(* reference whether it posts or finds it applied, and no other handler     *)
(* deducts under a charge reference.                                        *)
Deducted(reference) == \E row \in ledger : row.kind = "deduct" /\ row.ref.of = reference

LEMMA SpendDeducts ==
  ASSUME Books, BackedByLedger, NEW w \in Workspaces, NEW reference, NEW amount \in Nat,
         SpendWithin(w, reference, amount)
  PROVE  /\ Deducted(reference)'
         /\ \A row \in ledger' : row \in ledger \/ row.ref.of = reference
         /\ ledger \subseteq ledger'
<1>1. CASE SpendAlreadyApplied(w, reference, amount)
  BY <1>1 DEF SpendWithin, SpendAlreadyApplied, Inserted, SpendReference, Deducted
<1>2. CASE ~SpendAlreadyApplied(w, reference, amount)
  <2>1. ledger' = ledger \cup SpendRows(w, reference, amount)
    BY <1>2 DEF SpendWithin
  <2>2. \A row \in SpendRows(w, reference, amount) :
          row.kind = "deduct" /\ row.ref.of = reference
    BY DEF SpendRows, Row, SpendReference
  <2>3. SpendRows(w, reference, amount) # {}
    <3>1. CASE FromPlan(w, amount) > 0
      BY <3>1 DEF SpendRows
    <3>2. CASE ~(FromPlan(w, amount) > 0)
      <4>1. FromPlan(w, amount) = 0 /\ FromTopup(w, amount) > 0
        <5>1. amount > 0 /\ balance[w].plan \in Nat
          BY DEF SpendWithin, Books, BackedByLedger
        <5>2. FromPlan(w, amount) \in Nat
          BY <5>1 DEF FromPlan
        <5>3. QED
          BY <3>2, <5>1, <5>2 DEF FromTopup
      <4>2. QED
        BY <1>2, <4>1 DEF SpendRows, TopupRowPosts, SpendAlreadyApplied
    <3>3. QED
      BY <3>1, <3>2
  <2>4. QED
    BY <2>1, <2>2, <2>3 DEF Deducted
<1>3. QED
  BY <1>1, <1>2

LEMMA UsageStep ==
  TypeOK /\ BackedByLedger /\ UsageMatchesDeductions /\ [Next]_vars
    => UsageMatchesDeductions'
<1> SUFFICES ASSUME TypeOK, BackedByLedger, UsageMatchesDeductions, [Next]_vars
             PROVE  UsageMatchesDeductions'
  OBVIOUS
<1> USE PricesAssumption
<1>b. Books
  BY DEF TypeOK, Books, Rows
<1>0. ASSUME ledger' = ledger, usage' = usage PROVE UsageMatchesDeductions'
  BY <1>0 DEF UsageMatchesDeductions
<1>1. ASSUME usage' = usage, ledger \subseteq ledger',
             \A row \in ledger' \ ledger :
               row.kind # "deduct" \/ row.ref.of[1] # "charge"
      PROVE  UsageMatchesDeductions'
  BY <1>1 DEF UsageMatchesDeductions
<1>2. ASSUME NEW w \in Workspaces, NEW r \in References, NEW c \in Prices,
             recordAndCharge(w, ChargeReference(w, r), c)
      PROVE  UsageMatchesDeductions'
  <2> DEFINE reference == ChargeReference(w, r)
  <2>1. /\ usage \subseteq usage'
        /\ \A u \in usage' \ usage : u.ref = reference /\ u.credits = c
        /\ \E u \in usage' : u.ref = reference
    <3>1. InsertUsage(w, reference, c)
      BY <1>2 DEF recordAndCharge
    <3> HIDE DEF reference
    <3>2. CASE UsageRecorded(reference)
      BY <3>1, <3>2 DEF InsertUsage, UsageRecorded
    <3>3. CASE ~UsageRecorded(reference)
      <4> DEFINE added == [ref |-> reference, ws |-> w, credits |-> c]
      <4>1. usage' = usage \cup {added}
        BY <3>1, <3>3 DEF InsertUsage
      <4>2. added.ref = reference /\ added.credits = c
        OBVIOUS
      <4> HIDE DEF added
      <4>3. QED
        BY <4>1, <4>2
    <3>4. QED
      BY <3>2, <3>3
  <2>2. CASE c > 0
    <3>1. /\ Deducted(reference)' /\ ledger \subseteq ledger'
          /\ \A row \in ledger' : row \in ledger \/ row.ref.of = reference
      BY <1>2, <1>b, <2>2, SpendDeducts DEF recordAndCharge
    <3> HIDE DEF reference
    <3>2. QED
      BY <2>1, <3>1 DEF UsageMatchesDeductions, Deducted
  <2>3. CASE ~(c > 0)
    <3>1. ledger' = ledger
      BY <1>2, <2>3 DEF recordAndCharge
    <3> HIDE DEF reference
    <3>2. QED
      BY <2>1, <2>3, <3>1 DEF UsageMatchesDeductions
  <2>4. QED
    BY <2>2, <2>3
<1>3. ASSUME NEW w \in Workspaces, NEW key \in AdminKeys, NEW c \in Prices,
             adjustCredits(w, key, c)
      PROVE  UsageMatchesDeductions'
  <2>1. /\ ledger \subseteq ledger'
        /\ \A row \in ledger' : row \in ledger \/ row.ref.of = AdminReference(key)
    BY <1>3, <1>b, SpendDeducts DEF adjustCredits
  <2>2. AdminReference(key)[1] # "charge"
    BY DEF AdminReference
  <2>3. QED
    BY <1>1, <1>3, <2>1, <2>2 DEF adjustCredits
<1>4. ASSUME NEW kind, NEW w, NEW bucket, NEW reference, NEW amount,
             GrantWithin(kind, w, bucket, reference, amount), kind # "deduct",
             usage' = usage
      PROVE  UsageMatchesDeductions'
  <2>1. CASE Inserted(kind, reference)
    BY <1>0, <1>4, <2>1 DEF GrantWithin
  <2>2. CASE ~Inserted(kind, reference)
    BY <1>1, <1>4, <2>2 DEF GrantWithin, Row
  <2>3. QED
    BY <2>1, <2>2
<1>5. ASSUME NEW g \in GrantRequests, grant(g) PROVE UsageMatchesDeductions'
  BY <1>4, <1>5, GrantsAssumption DEF grant, GrantKinds
<1>6. ASSUME NEW k \in Runners, RefillPosts(k) PROVE UsageMatchesDeductions'
  BY <1>1, <1>6 DEF RefillPosts, Row
<1>7. ASSUME NEW w \in Workspaces, ProvisionGrant(w) PROVE UsageMatchesDeductions'
  BY <1>4, <1>7 DEF ProvisionGrant
<1>8. CASE UNCHANGED vars
  BY <1>0, <1>8 DEF vars
<1>9. QED
  BY <1>0, <1>2, <1>3, <1>5, <1>6, <1>7, <1>8
  DEF Next, RefillJob, RefillReadsPlan, RefillReadsSeats, RefillCrashes,
      RefillMovesClock, ProvisionBalance, ProvisionSubscription,
      ProvisionRefill, ProvisionAgain, changePlan, onSubscriptionChanged,
      SeatsChange, MonthTurns

(* The usage ledger and the credit ledger agree on every charge reference,  *)
(* through retries, conflicts and charges that priced at zero.              *)
THEOREM LedgersAgree == Spec => []UsageMatchesDeductions
<1>1. Init => UsageMatchesDeductions
  BY DEF Init, UsageMatchesDeductions
<1>2. QED
  BY <1>1, TypeCorrect, BalanceBacked, UsageStep, PTL DEF Spec

-----------------------------------------------------------------------------
(* The action properties follow from the effect of each bookkeeping step on *)
(* a typed state.                                                           *)
PlanFirst(w) == balance'[w].topup < balance[w].topup => balance'[w].plan = 0

RisesPosted(w) ==
  \A b \in Buckets :
    balance'[w][b] > balance[w][b] =>
      \E row \in ledger' \ ledger :
        /\ row.ws = w /\ row.bucket = b
        /\ balance'[w][b] - balance[w][b] <= row.amount

\* A balance that keeps its credits, or only moves its clock, satisfies both.
LEMMA SameCredits ==
  ASSUME Books, NEW w \in Workspaces,
         balance'[w].plan = balance[w].plan, balance'[w].topup = balance[w].topup
  PROVE  PlanFirst(w) /\ RisesPosted(w)
BY DEF PlanFirst, RisesPosted, Books

LEMMA SpendMoves ==
  ASSUME Books, BackedByLedger, NEW w \in Workspaces, NEW reference,
         NEW amount \in Nat, SpendWithin(w, reference, amount), NEW v \in Workspaces
  PROVE  PlanFirst(v) /\ RisesPosted(v)
<1>1. CASE SpendAlreadyApplied(w, reference, amount)
  BY <1>1, SameCredits DEF SpendWithin
<1>2. CASE ~SpendAlreadyApplied(w, reference, amount) /\ v # w
  BY <1>2, SameCredits, SpendEffect
<1>3. CASE ~SpendAlreadyApplied(w, reference, amount) /\ v = w
  <2>1. balance[w].plan \in Nat /\ balance[w].topup \in Nat
    BY DEF Books, BackedByLedger
  <2>2. /\ FromPlan(w, amount) \in Nat /\ FromTopup(w, amount) \in Nat
        /\ FromTopup(w, amount) > 0 => FromPlan(w, amount) = balance[w].plan
    BY <2>1 DEF FromPlan, FromTopup
  <2>3. /\ balance'[w].plan = balance[w].plan - FromPlan(w, amount)
        /\ balance'[w].topup = balance[w].topup - FromTopup(w, amount)
    BY <1>3, SpendEffect
  <2>4. PlanFirst(w)
    BY <2>1, <2>2, <2>3 DEF PlanFirst
  <2>5. RisesPosted(w)
    BY <2>1, <2>2, <2>3 DEF RisesPosted
  <2>6. QED
    BY <1>3, <2>4, <2>5
<1>4. QED
  BY <1>1, <1>2, <1>3

LEMMA GrantMoves ==
  ASSUME Books, NEW w \in Workspaces, NEW kind, NEW bucket \in Buckets,
         NEW reference, NEW amount \in Nat,
         GrantWithin(kind, w, bucket, reference, amount), NEW v \in Workspaces
  PROVE  PlanFirst(v) /\ RisesPosted(v)
<1>1. CASE Inserted(kind, reference)
  BY <1>1, SameCredits DEF GrantWithin
<1>2. CASE ~Inserted(kind, reference)
  <2> DEFINE row == Row(kind, w, bucket, reference, amount)
  <2>1. /\ ledger' = ledger \cup {row} /\ row \notin ledger
        /\ row.ws = w /\ row.bucket = bucket /\ row.amount = amount
    BY <1>2 DEF GrantWithin, Inserted, Row
  <2>2. balance' = [balance EXCEPT ![w][bucket] = @ + amount]
    BY <1>2 DEF GrantWithin
  <2> HIDE DEF row
  <2>3. CASE v # w
    BY <2>2, <2>3, SameCredits DEF Books
  <2>4. CASE v = w /\ bucket = "plan"
    <3>1. /\ balance'[w].plan = balance[w].plan + amount
          /\ balance'[w].topup = balance[w].topup
          /\ balance[w].plan \in Int /\ balance[w].topup \in Int
      BY <2>2, <2>4 DEF Books
    <3>2. QED
      BY <2>1, <2>4, <3>1 DEF PlanFirst, RisesPosted
  <2>5. CASE v = w /\ bucket = "topup"
    <3>1. /\ balance'[w].plan = balance[w].plan
          /\ balance'[w].topup = balance[w].topup + amount
          /\ balance[w].plan \in Int /\ balance[w].topup \in Int
      BY <2>2, <2>5 DEF Books
    <3>2. QED
      BY <2>1, <2>5, <3>1 DEF PlanFirst, RisesPosted
  <2>6. QED
    BY <2>3, <2>4, <2>5
<1>3. QED
  BY <1>1, <1>2

LEMMA CreditMoves ==
  ASSUME TypeOK, BackedByLedger, [Next]_vars, NEW v \in Workspaces
  PROVE  PlanFirst(v) /\ RisesPosted(v)
<1> USE PricesAssumption, GrantsAssumption
<1>b. Books
  BY DEF TypeOK, Books, Rows
<1>0. ASSUME balance' = balance PROVE PlanFirst(v) /\ RisesPosted(v)
  BY <1>0, <1>b, SameCredits
<1>1. ASSUME NEW w \in Workspaces, NEW r \in References, NEW c \in Prices,
             recordAndCharge(w, ChargeReference(w, r), c)
      PROVE  PlanFirst(v) /\ RisesPosted(v)
  <2>1. CASE c > 0
    BY <1>1, <1>b, <2>1, SpendMoves DEF recordAndCharge
  <2>2. CASE ~(c > 0)
    BY <1>0, <1>1, <2>2 DEF recordAndCharge
  <2>3. QED
    BY <2>1, <2>2
<1>2. ASSUME NEW w \in Workspaces, NEW key \in AdminKeys, NEW c \in Prices,
             adjustCredits(w, key, c)
      PROVE  PlanFirst(v) /\ RisesPosted(v)
  BY <1>2, <1>b, SpendMoves DEF adjustCredits
<1>3. ASSUME NEW g \in GrantRequests, grant(g) PROVE PlanFirst(v) /\ RisesPosted(v)
  BY <1>3, <1>b, GrantMoves DEF grant
<1>4. ASSUME NEW k \in Runners, RefillMovesClock(k) PROVE PlanFirst(v) /\ RisesPosted(v)
  <2>1. /\ balance'[v].plan = balance[v].plan
        /\ balance'[v].topup = balance[v].topup
    BY <1>4, <1>b DEF RefillMovesClock, Books
  <2>2. QED
    BY <1>b, <2>1, SameCredits
<1>5. ASSUME NEW k \in Runners, RefillPosts(k) PROVE PlanFirst(v) /\ RisesPosted(v)
  <2>1. refills[k] \in [phase : {"post"}, ws : Workspaces, at : Nat, amount : Nat \cup {Null}]
    BY <1>5 DEF TypeOK, RefillPosts, RefillStates, Idle
  <2> DEFINE w == refills[k].ws
             amount == refills[k].amount
             row == Row("plan_refill", w, "plan", RefillReference(w, refills[k].at), amount)
  <2>2. w \in Workspaces /\ amount \in Nat
    BY <1>5, <2>1 DEF RefillPosts
  <2>3. /\ ledger' = ledger \cup {row} /\ row \notin ledger
        /\ row.ws = w /\ row.bucket = "plan" /\ row.amount = amount
    BY <1>5 DEF RefillPosts, Inserted, Row
  <2>4. /\ balance'[w].plan = amount /\ balance'[w].topup = balance[w].topup
        /\ \A x \in Workspaces : x # w => balance'[x] = balance[x]
        /\ balance[w].plan \in Nat /\ balance[w].topup \in Nat
    BY <1>5, <1>b, <2>2 DEF RefillPosts, Books, BackedByLedger
  <2> HIDE DEF w, amount, row
  <2>5. CASE v # w
    BY <1>b, <2>4, <2>5, SameCredits
  <2>6. CASE v = w
    BY <2>2, <2>3, <2>4, <2>6 DEF PlanFirst, RisesPosted
  <2>7. QED
    BY <2>5, <2>6
<1>6. ASSUME NEW w \in Workspaces, ProvisionBalance(w) PROVE PlanFirst(v) /\ RisesPosted(v)
  <2>1. CASE w \in accounts \/ v # w
    BY <1>0, <1>6, <1>b, <2>1, SameCredits DEF ProvisionBalance, Books
  <2>2. CASE w \notin accounts /\ v = w
    <3>1. /\ balance'[w].plan = 0 /\ balance'[w].topup = 0
          /\ balance[w].plan \in Nat /\ balance[w].topup \in Nat
      BY <1>6, <1>b, <2>2 DEF ProvisionBalance, Fresh, Books, BackedByLedger
    <3>2. QED
      BY <2>2, <3>1 DEF PlanFirst, RisesPosted
  <2>3. QED
    BY <2>1, <2>2
<1>7. ASSUME NEW w \in Workspaces, ProvisionGrant(w) PROVE PlanFirst(v) /\ RisesPosted(v)
  BY <1>7, <1>b, GrantMoves DEF ProvisionGrant, SIGNUP_GRANT_CREDITS
<1>8. CASE UNCHANGED vars
  BY <1>0, <1>8 DEF vars
<1>9. QED
  BY <1>0, <1>1, <1>2, <1>3, <1>4, <1>5, <1>6, <1>7, <1>8
  DEF Next, RefillJob, RefillReadsPlan, RefillReadsSeats, RefillCrashes,
      ProvisionSubscription, ProvisionRefill, ProvisionAgain, changePlan,
      onSubscriptionChanged, SeatsChange, MonthTurns

(* A step that takes purchased credit leaves the plan bucket empty.          *)
THEOREM TopupSpentLast == Spec => PlanCreditsSpentFirst
<1>1. TypeOK /\ BackedByLedger /\ [Next]_vars
        => [\A w \in Workspaces :
              balance'[w].topup < balance[w].topup => balance'[w].plan = 0]_vars
  BY CreditMoves DEF PlanFirst
<1>2. QED
  BY <1>1, TypeCorrect, BalanceBacked, PTL DEF Spec, PlanCreditsSpentFirst

(* Credit never appears in a bucket without the row that explains it.        *)
THEOREM CreditOnlyByPosting == Spec => RisesOnlyWithPosting
<1>1. TypeOK /\ BackedByLedger /\ [Next]_vars
        => [\A w \in Workspaces, b \in Buckets :
              balance'[w][b] > balance[w][b] =>
                \E row \in ledger' \ ledger :
                  /\ row.ws = w /\ row.bucket = b
                  /\ balance'[w][b] - balance[w][b] <= row.amount]_vars
  BY CreditMoves DEF RisesPosted
<1>2. QED
  BY <1>1, TypeCorrect, BalanceBacked, PTL DEF Spec, RisesOnlyWithPosting

(* A run that comes out of its posting phase over a row that is there takes  *)
(* the branch that moves the clock alone, or dies.                           *)
LEMMA RepeatMoves ==
  ASSUME TypeOK, [Next]_vars, NEW k \in Runners, refills'[k] # refills[k],
         Inserted("plan_refill", RefillReference(refills[k].ws, refills[k].at)),
         NEW w \in Workspaces, NEW b \in Buckets
  PROVE  balance'[w][b] = balance[w][b]
<1>1. Books
  BY DEF TypeOK, Books, Rows
<1>2. CASE balance' = balance
  BY <1>2
<1>3. ASSUME NEW j \in Runners, RefillMovesClock(j) PROVE balance'[w][b] = balance[w][b]
  BY <1>1, <1>3 DEF RefillMovesClock, Books
<1>4. ASSUME NEW j \in Runners, RefillPosts(j) PROVE FALSE
  <2>1. j # k => refills'[k] = refills[k]
    BY <1>4 DEF RefillPosts, TypeOK
  <2>2. j = k
    BY <2>1
  <2>3. QED
    BY <1>4, <2>2 DEF RefillPosts
<1>5. ASSUME UNCHANGED refills PROVE FALSE
  BY <1>5
<1>6. QED
  BY <1>2, <1>3, <1>4, <1>5
  DEF Next, vars, recordAndCharge, SpendWithin, adjustCredits, grant, RefillJob,
      RefillReadsPlan, RefillReadsSeats, RefillCrashes, ProvisionBalance,
      ProvisionSubscription, ProvisionGrant, ProvisionRefill, ProvisionAgain, changePlan,
      onSubscriptionChanged, SeatsChange, MonthTurns

(* However often and however concurrently a month's refill runs, only the    *)
(* one that inserts the month's row sets the bucket.                         *)
THEOREM RefillIsNotRepeated == Spec => RepeatedRefillKeepsBalance
<1>1. TypeOK /\ [Next]_vars
        => [\A k \in Runners :
              /\ refills[k].phase = "post"
              /\ Inserted("plan_refill", RefillReference(refills[k].ws, refills[k].at))
              => \A w \in Workspaces, b \in Buckets :
                   (refills'[k] # refills[k]) => balance'[w][b] = balance[w][b]]_vars
  BY RepeatMoves
<1>2. QED
  BY <1>1, TypeCorrect, PTL DEF Spec, RepeatedRefillKeepsBalance
-----------------------------------------------------------------------------
(* Sums over sets of rows. *)

\* Every set of natural numbers has a least one ...
LEMMA Least ==
  ASSUME NEW T, T \subseteq Nat, T # {}
  PROVE  \E m \in T : \A n \in T : m <= n
<1>1. IsWellFoundedOn(OpToRel(<, Nat), Nat)
  BY NatLessThanWellFounded
<1>2. PICK m \in T : \A n \in T : <<n, m>> \notin OpToRel(<, Nat)
  BY <1>1, WFMin
<1>3. \A n \in T : ~(n < m)
  BY <1>2 DEF OpToRel
<1>4. QED
  BY <1>3

\* ... so one with 0 and every successor is all of them.
LEMMA Counted ==
  ASSUME NEW T, T \subseteq Nat, 0 \in T, \A n \in T : n + 1 \in T
  PROVE  T = Nat
<1>1. SUFFICES ASSUME Nat \ T # {} PROVE FALSE
  OBVIOUS
<1>2. PICK m \in Nat \ T : \A n \in Nat \ T : m <= n
  BY <1>1, Least
<1>3. m # 0 /\ m - 1 \in Nat /\ m - 1 \in T
  BY <1>2
<1>4. QED
  BY <1>2, <1>3

One(s) == CHOOSE x \in s : TRUE
Folded(S, f) ==
  [s \in SUBSET S |-> IF s = {} THEN 0 ELSE One(s).amount + f[s \ {One(s)}]]
Fold(S) == CHOOSE f : f = Folded(S, f)

LEMMA OneIn == ASSUME NEW s, s # {} PROVE One(s) \in s
  BY DEF One

LEMMA SumIsFold == \A S : SumOfAmounts(S) = Fold(S)[S]
  BY DEF SumOfAmounts, MapThenSumSet, MapThenFoldSet, Fold, Folded, One

UpTo(S, n) == {s \in SUBSET S : Cardinality(s) <= n}

LEMMA Without ==
  ASSUME NEW s, IsFiniteSet(s), NEW x \in s
  PROVE  /\ IsFiniteSet(s \ {x}) /\ Cardinality(s) \in Nat /\ Cardinality(s) > 0
         /\ Cardinality(s \ {x}) = Cardinality(s) - 1
         /\ Cardinality(s \ {x}) \in Nat
<1>1. /\ IsFiniteSet(s \ {x}) /\ Cardinality(s \ {x}) = Cardinality(s) - 1
      /\ Cardinality(s) \in Nat /\ Cardinality(s \ {x}) \in Nat
  BY FS_RemoveElement, FS_CardinalityType
<1>2. QED
  BY <1>1

LEMMA PartFinite ==
  ASSUME NEW S, IsFiniteSet(S), NEW s \in SUBSET S
  PROVE  IsFiniteSet(s) /\ Cardinality(s) \in Nat /\ Cardinality(s) <= Cardinality(S)
BY FS_Subset, FS_CardinalityType

\* The recursion has a solution: one for the subsets of up to n elements, for
\* each n.
Solves(S, n, g) ==
  /\ g = [s \in UpTo(S, n) |-> g[s]]
  /\ \A s \in UpTo(S, n) :
       g[s] = IF s = {} THEN 0 ELSE One(s).amount + g[s \ {One(s)}]

LEMMA FoldedHasSolution ==
  ASSUME NEW S, IsFiniteSet(S)
  PROVE  Fold(S) = Folded(S, Fold(S))
<1> DEFINE T == {n \in Nat : \E g : Solves(S, n, g)}
<1>1. 0 \in T
  <2> DEFINE g == [s \in UpTo(S, 0) |-> 0]
  <2>1. ASSUME NEW s \in UpTo(S, 0) PROVE s = {}
    BY PartFinite, FS_EmptySet DEF UpTo
  <2>2. Solves(S, 0, g)
    BY <2>1 DEF Solves
  <2>3. QED
    BY <2>2
<1>2. ASSUME NEW n \in T PROVE n + 1 \in T
  <2>1. PICK g : Solves(S, n, g)
    OBVIOUS
  <2> DEFINE h == [s \in UpTo(S, n + 1) |->
                     IF s = {} THEN 0 ELSE One(s).amount + g[s \ {One(s)}]]
  <2>2. ASSUME NEW s \in UpTo(S, n + 1), s # {}
        PROVE  /\ s \ {One(s)} \in UpTo(S, n) /\ s \ {One(s)} \in UpTo(S, n + 1)
               /\ h[s \ {One(s)}] = g[s \ {One(s)}]
    <3>1. IsFiniteSet(s) /\ Cardinality(s) \in Nat /\ Cardinality(s) <= n + 1 /\ s \subseteq S
      BY PartFinite DEF UpTo
    <3>2. /\ Cardinality(s \ {One(s)}) = Cardinality(s) - 1
          /\ Cardinality(s \ {One(s)}) \in Nat
      BY <2>2, <3>1, OneIn, Without
    <3>3. s \ {One(s)} \in UpTo(S, n) /\ s \ {One(s)} \in UpTo(S, n + 1)
      BY <3>1, <3>2 DEF UpTo
    <3>4. QED
      BY <2>1, <3>3 DEF Solves
  <2>3. \A s \in UpTo(S, n + 1) : h[s] = IF s = {} THEN 0 ELSE One(s).amount + h[s \ {One(s)}]
    BY <2>2
  <2>4. h = [s \in UpTo(S, n + 1) |-> h[s]]
    OBVIOUS
  <2> HIDE DEF h
  <2>5. Solves(S, n + 1, h)
    BY <2>3, <2>4 DEF Solves
  <2>6. QED
    BY <2>5
<1>3. T = Nat
  <2> HIDE DEF T
  <2>1. T \subseteq Nat
    BY DEF T
  <2>2. QED
    BY <1>1, <1>2, <2>1, Counted
<1>4. PICK g : Solves(S, Cardinality(S), g)
  BY <1>3, FS_CardinalityType
<1>5. UpTo(S, Cardinality(S)) = SUBSET S
  BY PartFinite DEF UpTo
<1>6. g = Folded(S, g)
  BY <1>4, <1>5 DEF Solves, Folded
<1>7. QED
  BY <1>6 DEF Fold

LEMMA FoldUnfolds ==
  ASSUME NEW S, IsFiniteSet(S), NEW s \in SUBSET S
  PROVE  Fold(S)[s] = IF s = {} THEN 0 ELSE One(s).amount + Fold(S)[s \ {One(s)}]
<1>1. Fold(S) = Folded(S, Fold(S))
  BY FoldedHasSolution
<1>2. Fold(S)[s] = Folded(S, Fold(S))[s]
  BY <1>1
<1> QED
  BY <1>2 DEF Folded

\* ... and it has one: a part sums up to the same within any whole.
LEMMA FoldsAgree ==
  ASSUME NEW S, IsFiniteSet(S), NEW t \in SUBSET S
  PROVE  Fold(S)[t] = Fold(t)[t]
<1>t. IsFiniteSet(t) /\ Cardinality(t) \in Nat
  BY PartFinite
<1> DEFINE T == {n \in Nat : \A s \in SUBSET t : Cardinality(s) = n => Fold(S)[s] = Fold(t)[s]}
<1>0. ASSUME NEW s \in SUBSET t PROVE s \in SUBSET S /\ IsFiniteSet(s) /\ Cardinality(s) \in Nat
  BY <1>t, PartFinite
<1>1. 0 \in T
  <2>1. ASSUME NEW s \in SUBSET t, Cardinality(s) = 0 PROVE Fold(S)[s] = Fold(t)[s]
    BY <1>0, <1>t, <2>1, FoldUnfolds, FS_EmptySet
  <2>2. QED
    BY <2>1
<1>2. ASSUME NEW n \in T PROVE n + 1 \in T
  <2>1. ASSUME NEW s \in SUBSET t, Cardinality(s) = n + 1 PROVE Fold(S)[s] = Fold(t)[s]
    <3>1. s # {} /\ s \in SUBSET S /\ IsFiniteSet(s)
      BY <1>0, <2>1, FS_EmptySet
    <3>2. s \ {One(s)} \in SUBSET t /\ Cardinality(s \ {One(s)}) = n
      BY <2>1, <3>1, OneIn, Without
    <3>3. Fold(S)[s \ {One(s)}] = Fold(t)[s \ {One(s)}]
      BY <3>2
    <3>4. Fold(S)[s] = One(s).amount + Fold(S)[s \ {One(s)}]
      BY <3>1, FoldUnfolds
    <3>5. Fold(t)[s] = One(s).amount + Fold(t)[s \ {One(s)}]
      BY <1>t, <2>1, <3>1, FoldUnfolds
    <3>6. QED
      BY <3>3, <3>4, <3>5
  <2>2. QED
    BY <2>1
<1>3. T = Nat
  <2> HIDE DEF T
  <2>1. T \subseteq Nat
    BY DEF T
  <2>2. QED
    BY <1>1, <1>2, <2>1, Counted
<1>4. QED
  BY <1>t, <1>3

LEMMA SumUnfolds ==
  ASSUME NEW S, IsFiniteSet(S)
  PROVE  /\ S = {} => SumOfAmounts(S) = 0
         /\ S # {} => SumOfAmounts(S) = One(S).amount + SumOfAmounts(S \ {One(S)})
<1>1. SumOfAmounts(S) = IF S = {} THEN 0 ELSE One(S).amount + Fold(S)[S \ {One(S)}]
  BY SumIsFold, FoldUnfolds
<1>2. Fold(S)[S \ {One(S)}] = SumOfAmounts(S \ {One(S)})
  BY SumIsFold, FoldsAgree
<1>3. QED
  BY <1>1, <1>2

Amounts(S) == \A row \in S : row.amount \in Int

\* The sum of numbers is a number, and it does not depend on where one begins.
LEMMA SumInt ==
  ASSUME NEW S, IsFiniteSet(S), Amounts(S)
  PROVE  SumOfAmounts(S) \in Int
<1> DEFINE T == {n \in Nat : \A s \in SUBSET S : Cardinality(s) = n => SumOfAmounts(s) \in Int}
<1>0. ASSUME NEW s \in SUBSET S PROVE IsFiniteSet(s) /\ Cardinality(s) \in Nat
  BY PartFinite
<1>1. 0 \in T
  <2>1. ASSUME NEW s \in SUBSET S, Cardinality(s) = 0 PROVE SumOfAmounts(s) \in Int
    BY <1>0, <2>1, SumUnfolds, FS_EmptySet
  <2>2. QED
    BY <2>1
<1>2. ASSUME NEW n \in T PROVE n + 1 \in T
  <2>1. ASSUME NEW s \in SUBSET S, Cardinality(s) = n + 1 PROVE SumOfAmounts(s) \in Int
    <3>1. s # {} /\ IsFiniteSet(s)
      BY <1>0, <2>1, FS_EmptySet
    <3>2. s \ {One(s)} \in SUBSET S /\ Cardinality(s \ {One(s)}) = n
      BY <2>1, <3>1, OneIn, Without
    <3>3. SumOfAmounts(s \ {One(s)}) \in Int
      BY <3>2
    <3>4. One(s).amount \in Int
      BY <3>1, OneIn DEF Amounts
    <3>5. QED
      BY <3>1, <3>3, <3>4, SumUnfolds
  <2>2. QED
    BY <2>1
<1>3. T = Nat
  <2> HIDE DEF T
  <2>1. T \subseteq Nat
    BY DEF T
  <2>2. QED
    BY <1>1, <1>2, <2>1, Counted
<1>4. QED
  BY <1>0, <1>3

LEMMA SumWithout ==
  ASSUME NEW S, IsFiniteSet(S), Amounts(S), NEW x \in S
  PROVE  SumOfAmounts(S) = x.amount + SumOfAmounts(S \ {x})
<1> DEFINE T == {n \in Nat : \A s \in SUBSET S : Cardinality(s) = n =>
                   \A y \in s : SumOfAmounts(s) = y.amount + SumOfAmounts(s \ {y})}
<1>0. ASSUME NEW s \in SUBSET S
      PROVE  IsFiniteSet(s) /\ Cardinality(s) \in Nat /\ Amounts(s) /\ SumOfAmounts(s) \in Int
  <2>1. IsFiniteSet(s) /\ Cardinality(s) \in Nat /\ Amounts(s)
    BY PartFinite DEF Amounts
  <2>2. QED
    BY <2>1, SumInt
<1>1. 0 \in T
  <2>1. ASSUME NEW s \in SUBSET S, Cardinality(s) = 0 PROVE s = {}
    BY <1>0, <2>1, FS_EmptySet
  <2>2. QED
    BY <2>1
<1>2. ASSUME NEW n \in T PROVE n + 1 \in T
  <2>1. ASSUME NEW s \in SUBSET S, Cardinality(s) = n + 1, NEW y \in s
        PROVE  SumOfAmounts(s) = y.amount + SumOfAmounts(s \ {y})
    <3> DEFINE o == One(s)
    <3>1. s # {} /\ IsFiniteSet(s) /\ o \in s
      BY <1>0, OneIn
    <3> HIDE DEF o
    <3>2. SumOfAmounts(s) = o.amount + SumOfAmounts(s \ {o})
      BY <3>1, SumUnfolds DEF o
    <3>3. CASE y = o
      BY <3>2, <3>3
    <3>4. CASE y # o
      <4>1. /\ s \ {o} \in SUBSET S /\ Cardinality(s \ {o}) = n /\ y \in s \ {o}
            /\ s \ {y} \in SUBSET S /\ Cardinality(s \ {y}) = n /\ o \in s \ {y}
        BY <2>1, <3>1, <3>4, Without
      <4>2. SumOfAmounts(s \ {o}) = y.amount + SumOfAmounts((s \ {o}) \ {y})
        BY <4>1
      <4>3. SumOfAmounts(s \ {y}) = o.amount + SumOfAmounts((s \ {y}) \ {o})
        BY <4>1
      <4>4. (s \ {o}) \ {y} = (s \ {y}) \ {o}
        OBVIOUS
      <4> DEFINE rest == SumOfAmounts((s \ {y}) \ {o})
                 a == o.amount
                 b == y.amount
                 sum == SumOfAmounts(s)
                 less == SumOfAmounts(s \ {y})
      <4>5. rest \in Int /\ a \in Int /\ b \in Int
        BY <1>0, <3>1 DEF Amounts
      <4>6. sum = a + (b + rest) /\ less = a + rest
        BY <3>2, <4>2, <4>3, <4>4
      <4>7. sum = b + less
        <5> HIDE DEF rest, a, b, sum, less
        <5>1. QED
          BY <4>5, <4>6
      <4>8. QED
        BY <4>7
    <3>5. QED
      BY <3>3, <3>4
  <2>2. QED
    BY <2>1
<1>3. T = Nat
  <2> HIDE DEF T
  <2>1. T \subseteq Nat
    BY DEF T
  <2>2. QED
    BY <1>1, <1>2, <2>1, Counted
<1>4. QED
  BY <1>0, <1>3

\* One row more adds its amount.
LEMMA SumWith ==
  ASSUME NEW S, IsFiniteSet(S), Amounts(S), NEW x, x \notin S, x.amount \in Int
  PROVE  SumOfAmounts(S \cup {x}) = SumOfAmounts(S) + x.amount
<1>1. IsFiniteSet(S \cup {x}) /\ Amounts(S \cup {x})
  BY FS_AddElement DEF Amounts
<1>2. (S \cup {x}) \ {x} = S
  OBVIOUS
<1>3. SumOfAmounts(S \cup {x}) = x.amount + SumOfAmounts((S \cup {x}) \ {x})
  BY <1>1, SumWithout
<1>4. SumOfAmounts(S \cup {x}) = x.amount + SumOfAmounts(S)
  BY <1>2, <1>3
<1> DEFINE sum == SumOfAmounts(S)
           a == x.amount
<1>5. sum \in Int /\ a \in Int
  BY SumInt
<1>6. a + sum = sum + a
  <2> HIDE DEF sum, a
  <2>1. QED
    BY <1>5
<1>7. QED
  BY <1>4, <1>6

-----------------------------------------------------------------------------
(* PostedIsLedgerSum.  What is appended is a row that was not there, as the *)
(* unique index of credit_transaction sees to; the ledger is finite.        *)
SumAt(rows, w, b) == SumOfAmounts({row \in rows : row.ws = w /\ row.bucket = b})

LEMMA RowAdds ==
  ASSUME NEW rows, IsFiniteSet(rows), Amounts(rows),
         NEW kind, NEW w, NEW b, NEW reference, NEW amount \in Int,
         Row(kind, w, b, reference, amount) \notin rows
  PROVE  LET more == rows \cup {Row(kind, w, b, reference, amount)}
         IN  /\ IsFiniteSet(more) /\ Amounts(more)
             /\ SumAt(more, w, b) = SumAt(rows, w, b) + amount
             /\ \A v, c : v # w \/ c # b => SumAt(more, v, c) = SumAt(rows, v, c)
<1> DEFINE new == Row(kind, w, b, reference, amount)
           more == rows \cup {new}
           At(v, c) == {row \in rows : row.ws = v /\ row.bucket = c}
<1>1. new.ws = w /\ new.bucket = b /\ new.amount = amount
  BY DEF Row
<1> HIDE DEF new
<1>2. IsFiniteSet(more) /\ Amounts(more)
  BY <1>1, FS_AddElement DEF Amounts
<1>3. {row \in more : row.ws = w /\ row.bucket = b} = At(w, b) \cup {new}
  BY <1>1
<1>4. IsFiniteSet(At(w, b)) /\ Amounts(At(w, b)) /\ new \notin At(w, b)
  BY FS_Subset DEF Amounts, new
<1>5. SumAt(more, w, b) = SumAt(rows, w, b) + amount
  BY <1>1, <1>3, <1>4, SumWith DEF SumAt
<1>6. ASSUME NEW v, NEW c, v # w \/ c # b PROVE SumAt(more, v, c) = SumAt(rows, v, c)
  <2>1. {row \in more : row.ws = v /\ row.bucket = c} = At(v, c)
    BY <1>1, <1>6
  <2>2. QED
    BY <2>1 DEF SumAt
<1>7. QED
  BY <1>2, <1>5, <1>6 DEF new

LEMMA SumsAreInt ==
  ASSUME NEW rows, IsFiniteSet(rows), Amounts(rows), NEW w, NEW b
  PROVE  SumAt(rows, w, b) \in Int
<1>1. /\ IsFiniteSet({row \in rows : row.ws = w /\ row.bucket = b})
      /\ Amounts({row \in rows : row.ws = w /\ row.bucket = b})
  BY FS_Subset DEF Amounts
<1>2. QED
  BY <1>1, SumInt DEF SumAt

Summed == IsFiniteSet(ledger) /\ PostedIsLedgerSum

LEMMA SummedIs ==
  PostedIsLedgerSum <=>
    \A w \in Workspaces : \A b \in Buckets : posted[w][b] = SumAt(ledger, w, b)
BY DEF PostedIsLedgerSum, LedgerSum, SumAt

LEMMA NewRow ==
  ASSUME NEW kind, NEW w, NEW b, NEW reference, NEW amount, ~Inserted(kind, reference)
  PROVE  Row(kind, w, b, reference, amount) \notin ledger
BY DEF Inserted, Row

\* A row and its post.
LEMMA PostSummed ==
  ASSUME Books, Summed, NEW w \in Workspaces, NEW kind, NEW b \in Buckets,
         NEW reference, NEW amount \in Int, ~Inserted(kind, reference),
         ledger' = ledger \cup {Row(kind, w, b, reference, amount)}, PostTo(w, b, amount)
  PROVE  Summed'
<1>1. IsFiniteSet(ledger) /\ Amounts(ledger)
  BY DEF Summed, Books, Rows, Amounts
<1>2. Row(kind, w, b, reference, amount) \notin ledger
  BY NewRow
<1>3. /\ IsFiniteSet(ledger')
      /\ SumAt(ledger', w, b) = SumAt(ledger, w, b) + amount
      /\ \A v, c : v # w \/ c # b => SumAt(ledger', v, c) = SumAt(ledger, v, c)
  BY <1>1, <1>2, RowAdds
<1>4. /\ posted'[w][b] = posted[w][b] + amount
      /\ \A v \in Workspaces, c \in Buckets : v # w \/ c # b => posted'[v][c] = posted[v][c]
  <2>1. CASE b = "plan"
    BY <2>1 DEF PostTo, Books
  <2>2. CASE b = "topup"
    BY <2>2 DEF PostTo, Books
  <2>3. QED
    BY <2>1, <2>2
<1>5. \A v \in Workspaces : \A c \in Buckets : posted[v][c] = SumAt(ledger, v, c)
  BY SummedIs DEF Summed
<1>6. ASSUME NEW v \in Workspaces, NEW c \in Buckets PROVE posted'[v][c] = SumAt(ledger', v, c)
  BY <1>3, <1>4, <1>5
<1>7. PostedIsLedgerSum'
  BY <1>6 DEF PostedIsLedgerSum, LedgerSum, SumAt
<1>8. QED
  BY <1>3, <1>7 DEF Summed

LEMMA GrantSummed ==
  ASSUME Books, Summed, NEW w \in Workspaces, NEW kind, NEW b \in Buckets,
         NEW reference, NEW amount \in Nat, GrantWithin(kind, w, b, reference, amount)
  PROVE  Summed'
<1>1. CASE Inserted(kind, reference)
  BY <1>1 DEF GrantWithin, Summed, PostedIsLedgerSum, LedgerSum
<1>2. CASE ~Inserted(kind, reference)
  BY <1>2, PostSummed DEF GrantWithin
<1>3. QED
  BY <1>1, <1>2

\* A spend posts what its rows say, also when one of its inserts conflicts.
LEMMA SpendSummed ==
  ASSUME Books, BackedByLedger, Summed, NEW w \in Workspaces, NEW reference,
         NEW amount \in Nat, SpendWithin(w, reference, amount)
  PROVE  Summed'
<1> DEFINE p == FromPlan(w, amount)
           t == FromTopup(w, amount)
           planRow == Row("deduct", w, "plan", SpendReference(reference, "plan"), -p)
           topupRow == Row("deduct", w, "topup", SpendReference(reference, "topup"), -t)
           half == IF p > 0 THEN ledger \cup {planRow} ELSE ledger
           more == IF TopupRowPosts(w, reference, amount) THEN half \cup {topupRow} ELSE half
<1>1. CASE SpendAlreadyApplied(w, reference, amount)
  BY <1>1 DEF SpendWithin, Summed, PostedIsLedgerSum, LedgerSum
<1>2. CASE ~SpendAlreadyApplied(w, reference, amount)
  <2>1. p \in Nat /\ t \in Nat
    BY DEF Books, BackedByLedger, FromPlan, FromTopup
  <2>2. IsFiniteSet(ledger) /\ Amounts(ledger)
    BY DEF Summed, Books, Rows, Amounts
  <2>3. ledger' = more
    BY <1>2 DEF SpendWithin, SpendRows
  <2>4. p > 0 => planRow \notin ledger
    BY <1>2, NewRow DEF SpendAlreadyApplied
  <2>5. planRow # topupRow
    BY DEF Row
  <2>6. TopupRowPosts(w, reference, amount) => topupRow \notin half
    BY <2>5, NewRow DEF TopupRowPosts
  <2>a. \A v, c : SumAt(ledger, v, c) \in Int
    BY <2>2, SumsAreInt
  <2>7. /\ IsFiniteSet(half) /\ Amounts(half)
        /\ SumAt(half, w, "plan") = SumAt(ledger, w, "plan") - p
        /\ \A v, c : v # w \/ c # "plan" => SumAt(half, v, c) = SumAt(ledger, v, c)
    <3>1. CASE p > 0
      <4>1. -p \in Int
        BY <2>1
      <4>2. half = ledger \cup {planRow}
        BY <3>1
      <4> HIDE DEF p
      <4>3. /\ IsFiniteSet(half) /\ Amounts(half)
            /\ SumAt(half, w, "plan") = SumAt(ledger, w, "plan") + (-p)
            /\ \A v, c : v # w \/ c # "plan" => SumAt(half, v, c) = SumAt(ledger, v, c)
        BY <2>2, <2>4, <3>1, <4>1, <4>2, RowAdds
      <4>4. SumAt(ledger, w, "plan") + (-p) = SumAt(ledger, w, "plan") - p
        BY <2>1, <2>a
      <4>5. QED
        BY <4>3, <4>4
    <3>2. CASE p = 0
      BY <2>2, <2>a, <3>2
    <3>3. p > 0 \/ p = 0
      <4> HIDE DEF p
      <4>1. QED
        BY <2>1
    <3>4. QED
      BY <3>1, <3>2, <3>3
  <2> HIDE DEF planRow, half, p
  <2>8. /\ IsFiniteSet(more)
        /\ SumAt(more, w, "topup") = IF TopupRowPosts(w, reference, amount)
                                      THEN SumAt(ledger, w, "topup") - t
                                      ELSE SumAt(ledger, w, "topup")
        /\ \A v, c : v # w \/ c # "topup" => SumAt(more, v, c) = SumAt(half, v, c)
    <3>1. CASE TopupRowPosts(w, reference, amount)
      <4> DEFINE n == -t
      <4>1. n \in Int
        BY <2>1
      <4>2. /\ more = half \cup {Row("deduct", w, "topup", SpendReference(reference, "topup"), n)}
            /\ Row("deduct", w, "topup", SpendReference(reference, "topup"), n) \notin half
        BY <2>6, <3>1
      <4>h. IsFiniteSet(half) /\ Amounts(half)
        BY <2>7
      <4> DEFINE ref == SpendReference(reference, "topup")
                 plus == half \cup {Row("deduct", w, "topup", ref, n)}
      <4> HIDE DEF more, t, n, topupRow
      <4>s. /\ IsFiniteSet(plus)
            /\ SumAt(plus, w, "topup") = SumAt(half, w, "topup") + n
            /\ \A v, c : v # w \/ c # "topup" => SumAt(plus, v, c) = SumAt(half, v, c)
        <5> HIDE DEF ref
        <5>1. Row("deduct", w, "topup", ref, n) \notin half
          BY <4>2 DEF ref
        <5>2. QED
          BY <4>1, <4>h, <5>1, RowAdds
      <4>3. /\ IsFiniteSet(more)
            /\ SumAt(more, w, "topup") = SumAt(half, w, "topup") + n
            /\ \A v, c : v # w \/ c # "topup" => SumAt(more, v, c) = SumAt(half, v, c)
        <5>1. more = plus
          BY <4>2
        <5> HIDE DEF plus
        <5>2. QED
          BY <4>s, <5>1
      <4>4. SumAt(half, w, "topup") = SumAt(ledger, w, "topup")
        BY <2>7
      <4>5. SumAt(ledger, w, "topup") + n = SumAt(ledger, w, "topup") - t
        BY <2>1, <2>a DEF n
      <4>6. QED
        BY <3>1, <4>3, <4>4, <4>5
    <3>2. CASE ~TopupRowPosts(w, reference, amount)
      <4>1. more = half
        BY <3>2
      <4> HIDE DEF more
      <4>2. QED
        BY <2>7, <3>2, <4>1
    <3>3. QED
      BY <3>1, <3>2
  <2> HIDE DEF more, t
  <2>9. /\ posted'[w].plan = posted[w].plan - p
        /\ posted'[w].topup = IF TopupRowPosts(w, reference, amount)
                               THEN posted[w].topup - t ELSE posted[w].topup
        /\ \A v \in Workspaces : v # w => posted'[v] = posted[v]
    <3>1. posted' = [posted EXCEPT ![w].plan = @ - p,
                       ![w].topup = IF TopupRowPosts(w, reference, amount) THEN @ - t ELSE @]
      BY <1>2 DEF SpendWithin, p, t
    <3>2. QED
      BY <3>1 DEF Books
  <2>10. \A v \in Workspaces : /\ posted[v].plan = SumAt(ledger, v, "plan")
                               /\ posted[v].topup = SumAt(ledger, v, "topup")
    BY SummedIs DEF Summed
  <2>11. ASSUME NEW v \in Workspaces
         PROVE  /\ posted'[v].plan = SumAt(ledger', v, "plan")
                /\ posted'[v].topup = SumAt(ledger', v, "topup")
    <3>1. CASE v = w
      <4>1. SumAt(more, w, "plan") = SumAt(half, w, "plan")
        BY <2>8
      <4>2. posted'[w].plan = SumAt(ledger', w, "plan")
        BY <2>3, <2>7, <2>9, <2>10, <4>1
      <4>3. posted'[w].topup = SumAt(ledger', w, "topup")
        BY <2>3, <2>8, <2>9, <2>10
      <4>4. QED
        BY <3>1, <4>2, <4>3
    <3>2. CASE v # w
      <4>1. /\ SumAt(more, v, "plan") = SumAt(ledger, v, "plan")
            /\ SumAt(more, v, "topup") = SumAt(ledger, v, "topup")
        BY <2>7, <2>8, <3>2
      <4>2. QED
        BY <2>3, <2>9, <2>10, <3>2, <4>1
    <3>3. QED
      BY <3>1, <3>2
  <2>12. \A v \in Workspaces : \A c \in Buckets : posted'[v][c] = SumAt(ledger', v, c)
    BY <2>11
  <2>13. PostedIsLedgerSum'
    BY <2>12 DEF PostedIsLedgerSum, LedgerSum, SumAt
  <2>14. QED
    BY <2>3, <2>8, <2>13 DEF Summed
<1>3. QED
  BY <1>1, <1>2

LEMMA SummedStep == TypeOK /\ BackedByLedger /\ Summed /\ [Next]_vars => Summed'
<1> SUFFICES ASSUME TypeOK, BackedByLedger, Summed, [Next]_vars PROVE Summed'
  OBVIOUS
<1> USE PricesAssumption, GrantsAssumption
<1>b. Books
  BY DEF TypeOK, Books, Rows
<1>0. ASSUME UNCHANGED <<ledger, posted>> PROVE Summed'
  BY <1>0 DEF Summed, PostedIsLedgerSum, LedgerSum
<1>1. ASSUME NEW w \in Workspaces, NEW r \in References, NEW c \in Prices,
             recordAndCharge(w, ChargeReference(w, r), c)
      PROVE  Summed'
  BY <1>0, <1>1, <1>b, SpendSummed DEF recordAndCharge
<1>2. ASSUME NEW w \in Workspaces, NEW key \in AdminKeys, NEW c \in Prices,
             adjustCredits(w, key, c)
      PROVE  Summed'
  BY <1>2, <1>b, SpendSummed DEF adjustCredits
<1>3. ASSUME NEW g \in GrantRequests, grant(g) PROVE Summed'
  BY <1>3, <1>b, GrantSummed DEF grant
<1>4. ASSUME NEW k \in Runners, RefillPosts(k) PROVE Summed'
  <2>1. refills[k] \in [phase : {"post"}, ws : Workspaces, at : Nat, amount : Nat \cup {Null}]
    BY <1>4 DEF TypeOK, RefillPosts, RefillStates, Idle
  <2> DEFINE w == refills[k].ws
             at == refills[k].at
             amount == refills[k].amount
  <2>2. w \in Workspaces /\ amount \in Int
    BY <1>4, <2>1 DEF RefillPosts
  <2>3. /\ ~Inserted("plan_refill", RefillReference(w, at))
        /\ ledger' = ledger \cup {Row("plan_refill", w, "plan", RefillReference(w, at), amount)}
        /\ PostTo(w, "plan", amount)
    BY <1>4 DEF RefillPosts
  <2> HIDE DEF w, at, amount
  <2>4. QED
    BY <1>b, <2>2, <2>3, PostSummed
<1>5. ASSUME NEW w \in Workspaces, ProvisionGrant(w) PROVE Summed'
  BY <1>5, <1>b, GrantSummed DEF ProvisionGrant, SIGNUP_GRANT_CREDITS
<1>6. CASE UNCHANGED vars
  BY <1>0, <1>6 DEF vars
<1>7. QED
  BY <1>0, <1>1, <1>2, <1>3, <1>4, <1>5, <1>6
  DEF Next, RefillJob, RefillReadsPlan, RefillReadsSeats, RefillMovesClock, RefillCrashes,
      ProvisionBalance, ProvisionSubscription, ProvisionRefill, ProvisionAgain, changePlan,
      onSubscriptionChanged, SeatsChange, MonthTurns

(* What is posted to a bucket is the sum of its credit_transaction rows,    *)
(* whatever spends, grants, refills and retries interleave: so what the     *)
(* theorems above say of `posted` they say of the ledger itself.            *)
THEOREM PostedIsTheLedger == Spec => []PostedIsLedgerSum
<1>1. Init => Summed
  <2>1. ASSUME Init, NEW w \in Workspaces, NEW b \in Buckets PROVE posted[w][b] = LedgerSum(w, b)
    <3>1. {row \in ledger : row.ws = w /\ row.bucket = b} = {} /\ posted[w][b] = 0
      BY <2>1 DEF Init
    <3>2. QED
      BY <3>1, SumUnfolds, FS_EmptySet DEF LedgerSum
  <2>2. QED
    BY <2>1, FS_EmptySet DEF Init, Summed, PostedIsLedgerSum
<1>2. Summed => PostedIsLedgerSum
  BY DEF Summed
<1>3. QED
  BY <1>1, <1>2, TypeCorrect, BalanceBacked, SummedStep, PTL DEF Spec
=============================================================================
