----------------------------- MODULE PlanRules -----------------------------
(***************************************************************************)
(* A customer looking through the catalogue of Plans: every dollar amount  *)
(* the custom top-up accepts, and every number of seats a plan can be      *)
(* billed for.  The rules of plans.ts are checked at each stop.            *)
(***************************************************************************)
EXTENDS Plans

CONSTANTS MaxSeats   \* bound on the seats looked at

VARIABLES amountUsd, seats

vars == <<amountUsd, seats>>

Init == amountUsd = CUSTOM_TOPUP_MIN_USD /\ seats = 1

OneDollarMore ==
  /\ amountUsd < CUSTOM_TOPUP_MAX_USD
  /\ amountUsd' = amountUsd + 1
  /\ UNCHANGED seats

OneSeatMore ==
  /\ amountUsd = CUSTOM_TOPUP_MIN_USD
  /\ seats < MaxSeats
  /\ seats' = seats + 1
  /\ UNCHANGED amountUsd

Next == OneDollarMore \/ OneSeatMore

Spec == Init /\ [][Next]_vars

-----------------------------------------------------------------------------
CountedLimits == {"knowledgeBaseLimit", "agentLimit"}
GatedFeatures == {"apiKeysEnabled", "dataSourcesEnabled", "automationEnabled"}

AtMost(a, b) == b = Null \/ (a # Null /\ a <= b)
Raises(candidate, plan, limit) ==
  ~AtMost(planLimits(candidate)[limit], planLimits(plan)[limit])

\* A list price that nobody quotes is above every one that is.
NotDearer(a, b) == AtMost(monthlyPriceUsd(a, seats), monthlyPriceUsd(b, seats))

\* A workspace can be on the plan with this many seats.
Fits(plan) == AtMost(seats, planLimits(plan).seatLimit)

(* A custom top-up grants every whole credit that was paid for and no part   *)
(* of one that was not: the conversion is the largest c with c * 39 at most  *)
(* a million times the dollars.                                              *)
RoundsDown ==
  LET c == creditsForCustomTopupUsd(amountUsd)
  IN  /\ c * CUSTOM_TOPUP_USD_PER_MILLION_CREDITS <= amountUsd * 1000000
      /\ (c + 1) * CUSTOM_TOPUP_USD_PER_MILLION_CREDITS > amountUsd * 1000000

(* "Naming an amount can never undercut a pack": the same money spent on a   *)
(* custom amount never buys more than whole packs do.                        *)
PacksNeverUndercut ==
  \A id \in DOMAIN TOPUP_PACKS :
    LET pack == TOPUP_PACKS[id]
    IN  amountUsd % pack.priceUsd = 0 =>
          creditsForCustomTopupUsd(amountUsd)
            <= (amountUsd \div pack.priceUsd) * pack.credits

(* The upgrade a refusal names is the cheapest that helps: planRaisingLimit  *)
(* takes the first plan of the list, and for a workspace that fits its plan  *)
(* no other plan with room for its seats raises the limit for less.          *)
NamesTheCheapestUpgrade ==
  \A plan \in Plans, limit \in CountedLimits :
    LET named == planRaisingLimit(plan, limit)
        helpful == {p \in Plans : Raises(p, plan, limit)}
    IN  Fits(plan) =>
          IF named = "none" THEN helpful = {}
          ELSE /\ named \in helpful
               /\ \A p \in helpful : Fits(p) => Fits(named) /\ NotDearer(named, p)

(* The ladder of plans: a limit, a gated feature or a seat count allowed on  *)
(* one plan is allowed on every plan after it, so that upgrading never takes *)
(* away what the workspace already had.                                      *)
UpgradeTakesNothingAway ==
  \A i, j \in DOMAIN PLAN_NAMES : i < j =>
    /\ \A limit \in CountedLimits \cup {"seatLimit", "widgetLimit"} :
         AtMost(planLimits(PLAN_NAMES[i])[limit], planLimits(PLAN_NAMES[j])[limit])
    /\ \A feature \in GatedFeatures \cup {"topupsEnabled"} :
         planLimits(PLAN_NAMES[i])[feature] => planLimits(PLAN_NAMES[j])[feature]
    /\ Fits(PLAN_NAMES[i]) => Fits(PLAN_NAMES[j])

(* plans.ts on the packs: "the unit price here is deliberately higher than   *)
(* the credits bundled into a plan".  Whatever a workspace pays for its plan *)
(* buys more credit in the plan than it would as a top-up.                   *)
TopupsDearerThanPlans ==
  \A plan \in Plans :
    LET price == monthlyPriceUsd(plan, seats)
        credits == creditsForPeriod(plan, seats)
    IN  price # Null /\ credits # Null /\ Fits(plan) =>
          creditsForCustomTopupUsd(price) < credits
=============================================================================
