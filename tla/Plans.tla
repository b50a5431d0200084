------------------------------- MODULE Plans -------------------------------
(***************************************************************************)
(* The plan catalogue of src/src/modules/billing/plans.ts: the commercial  *)
(* constants every billing component reads, and the pure rules over them.  *)
(* Amounts are the real ones.  A field that is `null` in the code is Null. *)
(***************************************************************************)
EXTENDS Integers, Sequences

\* `null`: unlimited for a limit, "not granted" for an allowance or a price.
Null == -1

PLAN_NAMES == <<"free", "starter", "pro", "team", "enterprise">>
Plans == {"free", "starter", "pro", "team", "enterprise"}

PLAN_LIMITS ==
  [free       |-> [seatLimit |-> 1, creditsPerSeat |-> Null, flatCredits |-> Null,
                   topupsEnabled |-> FALSE, widgetLimit |-> 0,
                   knowledgeBaseLimit |-> 1, agentLimit |-> 2,
                   apiKeysEnabled |-> FALSE, dataSourcesEnabled |-> FALSE,
                   automationEnabled |-> FALSE, monthlyUsd |-> 0,
                   perSeatUsd |-> Null, includedSeats |-> 1, extraSeatUsd |-> Null],
   starter    |-> [seatLimit |-> 1, creditsPerSeat |-> Null, flatCredits |-> 500000,
                   topupsEnabled |-> TRUE, widgetLimit |-> 1,
                   knowledgeBaseLimit |-> 3, agentLimit |-> 5,
                   apiKeysEnabled |-> FALSE, dataSourcesEnabled |-> FALSE,
                   automationEnabled |-> TRUE, monthlyUsd |-> 9,
                   perSeatUsd |-> Null, includedSeats |-> 1, extraSeatUsd |-> Null],
   pro        |-> [seatLimit |-> 25, creditsPerSeat |-> 2000000, flatCredits |-> Null,
                   topupsEnabled |-> TRUE, widgetLimit |-> 1,
                   knowledgeBaseLimit |-> 10, agentLimit |-> 20,
                   apiKeysEnabled |-> TRUE, dataSourcesEnabled |-> TRUE,
                   automationEnabled |-> TRUE, monthlyUsd |-> Null,
                   perSeatUsd |-> 29, includedSeats |-> Null, extraSeatUsd |-> 29],
   team       |-> [seatLimit |-> 25, creditsPerSeat |-> Null, flatCredits |-> 8000000,
                   topupsEnabled |-> TRUE, widgetLimit |-> 5,
                   knowledgeBaseLimit |-> Null, agentLimit |-> Null,
                   apiKeysEnabled |-> TRUE, dataSourcesEnabled |-> TRUE,
                   automationEnabled |-> TRUE, monthlyUsd |-> 99,
                   perSeatUsd |-> Null, includedSeats |-> 5, extraSeatUsd |-> 19],
   enterprise |-> [seatLimit |-> Null, creditsPerSeat |-> Null, flatCredits |-> Null,
                   topupsEnabled |-> TRUE, widgetLimit |-> Null,
                   knowledgeBaseLimit |-> Null, agentLimit |-> Null,
                   apiKeysEnabled |-> TRUE, dataSourcesEnabled |-> TRUE,
                   automationEnabled |-> TRUE, monthlyUsd |-> Null,
                   perSeatUsd |-> Null, includedSeats |-> Null, extraSeatUsd |-> Null]]

SIGNUP_GRANT_CREDITS == 20000

TOPUP_PACKS ==
  [p1m  |-> [credits |-> 1000000,  priceUsd |-> 39],
   p5m  |-> [credits |-> 5000000,  priceUsd |-> 175],
   p15m |-> [credits |-> 15000000, priceUsd |-> 450]]

CUSTOM_TOPUP_MIN_USD == 10
CUSTOM_TOPUP_MAX_USD == 2000
CUSTOM_TOPUP_USD_PER_MILLION_CREDITS == TOPUP_PACKS.p1m.priceUsd

\* Statuses that entitle a workspace to its plan's limits.
ACTIVE_SUBSCRIPTION_STATUSES == {"active", "trialing"}

-----------------------------------------------------------------------------
AtLeastOne(n) == IF n > 1 THEN n ELSE 1
OrZero(n) == IF n = Null THEN 0 ELSE n

\* Mutant: a started credit is granted whole.
creditsForCustomTopupUsd_RoundsUp(amountUsd) ==
  (amountUsd * 1000000) \div CUSTOM_TOPUP_USD_PER_MILLION_CREDITS + 1

creditsForCustomTopupUsd(amountUsd) ==
  (amountUsd * 1000000) \div CUSTOM_TOPUP_USD_PER_MILLION_CREDITS

planLimits(plan) == PLAN_LIMITS[plan]

\* Array.prototype.find over PLAN_NAMES: the first plan in the set, or Null.
FirstPlan(qualifies) ==
  LET places == {i \in DOMAIN PLAN_NAMES : PLAN_NAMES[i] \in qualifies}
  IN  IF places = {} THEN "none"
      ELSE PLAN_NAMES[CHOOSE i \in places : \A j \in places : i <= j]

planRaisingLimit(plan, limit) ==
  LET current == planLimits(plan)[limit]
  IN  IF current = Null THEN "none"
      ELSE FirstPlan({p \in Plans : \/ planLimits(p)[limit] = Null
                                    \/ planLimits(p)[limit] > current})

planUnlockingFeature(feature) == FirstPlan({p \in Plans : planLimits(p)[feature]})

\* What a plan grants at one refill; Null when it has no scheduled allowance.
creditsForPeriod(plan, seats) ==
  LET limits == planLimits(plan)
  IN  IF limits.flatCredits # Null THEN limits.flatCredits
      ELSE IF limits.creditsPerSeat # Null
           THEN limits.creditsPerSeat * AtLeastOne(seats)
           ELSE Null

monthlyPriceUsd(plan, seats) ==
  LET price == planLimits(plan)
      extra == IF seats > OrZero(price.includedSeats)
               THEN seats - OrZero(price.includedSeats) ELSE 0
  IN  IF price.monthlyUsd # Null
      THEN price.monthlyUsd + extra * OrZero(price.extraSeatUsd)
      ELSE IF price.perSeatUsd # Null
           THEN price.perSeatUsd * AtLeastOne(seats)
           ELSE Null
=============================================================================
