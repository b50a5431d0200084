------------------------------- MODULE MCBusiness ------------------------------
(***************************************************************************)
(* What happens around the runs and the ledger, on small instances: promo  *)
(* codes, the mirror of Stripe, the refill schedule, triggers, outgoing    *)
(* webhooks, the versions of an agent and the prices of the plans.  A      *)
(* behaviour moves in one part, chosen at its start: no two of them write  *)
(* the same rows.                                                          *)
(***************************************************************************)
EXTENDS PromoCodes, Sequences

CONSTANTS Handlers, Scans, Deliveries, Writers, Askers, FirstPlans,
          PaidPlans, Configs, Invalid,
          MaxEvents, MaxVisits,                           \* of StripeSync
          MaxMonth, JobAttempts, MaxFailures, ScanBatch, MaxChanges,  \* RefillSchedule
          MaxTime, MaxBackoff, MaxEdits, MaxCrashes,      \* Triggers
          PostAttempts, MaxStalled, FailureLimit,         \* Webhooks
          MaxWhkEdits, MaxWhkCrashes,
          MaxVersions, MaxSeats                           \* AgentVersions, PlanRules

VARIABLES part,
          stripe, invoice, events, unanswered, handling, subscription, refilled,
          payment, customers, visit, payer, customerId, latest, reordered, dropped,
          crossed,
          month, resetAt, onPlan, refills, job, tries, scan, failures, changed,
          now, trigger, agentActive, pass, run, failed, lost, claims, late, edits,
          crashes,
          endpoint, editor, delivery, attempts, stalled, reading, accepted, skipped,
          streak, failing, overlapped, whkEdits, whkCrashes,
          agent, version, writing, asking, runs, deleted,
          amountUsd, seats

strVars == <<stripe, invoice, events, unanswered, handling, subscription, refilled,
             payment, customers, visit, payer, customerId, latest, reordered, dropped,
             crossed>>
refVars == <<month, resetAt, onPlan, refills, job, tries, scan, failures, changed>>
trgVars == <<now, trigger, agentActive, pass, run, failed, lost, claims, late,
             edits, crashes>>
whkVars == <<endpoint, editor, delivery, attempts, stalled, reading, accepted,
             skipped, streak, failing, overlapped, whkEdits, whkCrashes>>
verVars == <<agent, version, writing, asking, runs, deleted>>
plaVars == <<amountUsd, seats>>

S == INSTANCE StripeSync
F == INSTANCE RefillSchedule WITH Attempts <- JobAttempts
T == INSTANCE Triggers
W == INSTANCE Webhooks WITH
       Attempts <- PostAttempts, MaxEdits <- MaxWhkEdits, MaxCrashes <- MaxWhkCrashes,
       tries <- attempts, failures <- failing, edits <- whkEdits,
       crashes <- whkCrashes
V == INSTANCE AgentVersions
P == INSTANCE PlanRules

(* What is counted is a number, and what must happen once can happen.      *)
ASSUME BoundsAssumption ==
  /\ {MaxEvents, MaxVisits, MaxFailures, ScanBatch, MaxChanges, MaxTime, MaxEdits,
      MaxCrashes, MaxStalled, FailureLimit, MaxWhkEdits, MaxWhkCrashes} \subseteq Nat
  /\ {MaxMonth, JobAttempts, MaxBackoff, PostAttempts, MaxVersions, MaxSeats}
       \subseteq Nat \ {0}

(* The names of plans: these are none that Stripe has a price for.         *)
ASSUME PlansAssumption ==
  /\ {"free", "unknown", "none"} \cap PaidPlans = {} /\ FirstPlans \subseteq Workspaces

(* None is no row, nothing that is read and nobody.                        *)
ASSUME NoneAssumption ==
  /\ None \notin Nat \cup BOOLEAN
  /\ None \notin [event : Nat, step : {"mirror", "refill"}]
  /\ None \notin T!AgentTriggerRow \cup T!Pass
  /\ None \notin W!WebhookEndpointRow \cup W!Reading
  /\ None \notin V!AgentRow \cup V!Writing

MCInit ==
  /\ part \in {"promo", "stripe", "refill", "trigger", "webhook", "version", "price"}
  /\ ProInit /\ S!StrInit /\ F!RefInit /\ T!TrgInit /\ W!WhkInit /\ V!VerInit /\ P!Init

Promo ==
  part = "promo" /\ UNCHANGED <<part, strVars, refVars, trgVars, whkVars, verVars, plaVars>>
Stripe ==
  part = "stripe" /\ UNCHANGED <<part, proVars, refVars, trgVars, whkVars, verVars, plaVars>>
Refill ==
  part = "refill" /\ UNCHANGED <<part, proVars, strVars, trgVars, whkVars, verVars, plaVars>>
Trigger ==
  part = "trigger" /\ UNCHANGED <<part, proVars, strVars, refVars, whkVars, verVars, plaVars>>
Webhook ==
  part = "webhook" /\ UNCHANGED <<part, proVars, strVars, refVars, trgVars, verVars, plaVars>>
Version ==
  part = "version" /\ UNCHANGED <<part, proVars, strVars, refVars, trgVars, whkVars, plaVars>>
Price ==
  part = "price" /\ UNCHANGED <<part, proVars, strVars, refVars, trgVars, whkVars, verVars>>

MCNext ==
  \/ Promo /\ ProNext
  \/ Stripe /\ S!StrNext
  \/ Refill /\ F!RefNext
  \/ Trigger /\ T!TrgNext
  \/ Webhook /\ W!WhkNext
  \/ Version /\ V!VerNext
  \/ Price /\ P!Next

mcVars == <<part, proVars, strVars, refVars, trgVars, whkVars, verVars, plaVars>>

(* Fair: the hourly scan and its jobs, the queue's clean-up, the scan of   *)
(* triggers, and the workers of the webhook queue.                         *)
MCSpec ==
  /\ MCInit /\ [][MCNext]_mcVars
  /\ WF_mcVars(Refill /\ F!ScanPlanRefills)
  /\ WF_mcVars(Refill /\ \E w \in Workspaces : F!EnqueueRefill(w))
  /\ WF_mcVars(Refill /\ \E w \in Workspaces, m \in 1 .. MaxMonth : F!RefillPlanCredits(w, m))
  /\ WF_mcVars(Refill /\ \E w \in Workspaces, m \in 1 .. MaxMonth : F!AgesOut(w, m))
  /\ \A s \in Scans : WF_mcVars(Trigger /\ T!FireDueSchedules(s))
  /\ \A d \in Deliveries : WF_mcVars(Webhook /\ W!Work(d))

(* Promo codes, and the mirror of Stripe with the refill it grants.        *)
MoneyIsMatched == CodesAreHonoured /\ S!SyncedIsGranted /\ F!RefilledIsNotDue

(* "The customer id is on it from the moment ensureCustomer ran, so this   *)
(* answers for a one-off invoice as well as a recurring one"               *)
(* (stripe.service.ts, workspaceForInvoice).                               *)
InvoicesAreRecorded == S!InvoicesAreRecorded

(* A schedule's instant fires once, and an endpoint is switched off only   *)
(* for as many failures as the code names.                                 *)
FiresAndStops == T!FiresOnce /\ W!SwitchedOffForCause

(* The versions of an agent are numbered without gaps up to the current    *)
(* one, and the version a run names holds what the run was queued with.    *)
VersionsHold == V!VersionsHold

(* What a customer pays for is never worth less than the catalogue says:   *)
(* no credit that was not paid for, no custom amount below a pack, the     *)
(* cheapest upgrade named, and no upgrade that takes something away.       *)
PricesAreSafe ==
  part = "price" =>
    P!RoundsDown /\ P!PacksNeverUndercut /\ P!NamesTheCheapestUpgrade
      /\ P!UpgradeTakesNothingAway

(* "The unit price here is deliberately higher than the credits bundled    *)
(* into a plan" (plans.ts).                                                *)
TopupsDearerThanPlans == part = "price" => P!TopupsDearerThanPlans

(* What is due or queued is settled in the end.                            *)
Settles ==
  /\ part = "refill" => F!DueIsSettled
  /\ part = "trigger" => T!DueIsClaimed
  /\ part = "webhook" => W!QueuedIsSettled
================================================================================
