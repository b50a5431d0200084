----------------------------- MODULE RefillSchedule ----------------------------
(***************************************************************************)
(* Who is refilled when: the hourly scan, the jobs it adds under an id     *)
(* that names workspace and month, the worker's attempts and the jobs the  *)
(* queue keeps (billing.jobs.ts, billing.processor.ts, queues.ts).  The    *)
(* refill is one step here; CreditLedger has its reads and its ledger.     *)
(***************************************************************************)
EXTENDS Integers, FiniteSets

CONSTANTS Workspaces,
          FirstPlans,  \* workspaces that begin on a plan with a refill
          MaxMonth,    \* bound: months that pass
          Attempts,    \* attempts of a job: 5 in DEFAULT_JOB_OPTIONS
          MaxFailures, \* bound: attempts that fail
          ScanBatch,   \* SCAN_BATCH_SIZE
          MaxChanges,  \* bound: plan changes
          None

VARIABLES month, resetAt,  \* now, and planResetAt by workspace, in months
          onPlan,          \* workspaces whose plan has a scheduled refill
          refills,         \* ledger references refill:<workspace>:<month>
          job,             \* state of the job refill:<workspace>:<month>
          tries,           \* attemptsMade of that job
          scan,            \* workspaces the scan has yet to enqueue, or None
          failures, changed

refVars == <<month, resetAt, onPlan, refills, job, tries, scan, failures, changed>>

Months == 1 .. MaxMonth
JobState == {"absent", "waiting", "completed", "failed"}

RefTypeOK ==
  /\ month \in Months /\ resetAt \in [Workspaces -> 1 .. MaxMonth + 1]
  /\ onPlan \subseteq Workspaces /\ refills \subseteq Workspaces \X Months
  /\ job \in [Workspaces \X Months -> JobState]
  /\ tries \in [Workspaces \X Months -> 0 .. Attempts]
  /\ (scan = None \/ scan \subseteq Workspaces) /\ failures \in 0 .. MaxFailures
  /\ changed \in 0 .. MaxChanges

RefInit ==
  /\ month = 1 /\ resetAt = [w \in Workspaces |-> 1]
  /\ onPlan = FirstPlans /\ refills = {}
  /\ job = [k \in Workspaces \X Months |-> "absent"]
  /\ tries = [k \in Workspaces \X Months |-> 0]
  /\ scan = None /\ failures = 0 /\ changed = 0

--------------------------------------------------------------------------------
MonthTurns ==
  /\ month < MaxMonth /\ month' = month + 1
  /\ UNCHANGED <<resetAt, onPlan, refills, job, tries, scan, failures, changed>>

(* A subscription begins or ends; Stripe's event also refills (StripeSync).*)
ChangePlan(w) ==
  /\ changed < MaxChanges /\ changed' = changed + 1
  /\ onPlan' = (onPlan \ {w}) \cup ({w} \ onPlan)
  /\ UNCHANGED <<month, resetAt, refills, job, tries, scan, failures>>

Due == {w \in Workspaces : resetAt[w] <= month}

(* listWorkspacesDueForRefill: the longest overdue first, a batch of them. *)
DueBatch ==
  {b \in SUBSET Due :
     /\ Cardinality(b) = IF Cardinality(Due) < ScanBatch THEN Cardinality(Due)
                         ELSE ScanBatch
     /\ \A w \in b, v \in Due \ b : resetAt[w] <= resetAt[v]}

(* scanPlanRefills, by the hourly repeatable job.                          *)
ScanPlanRefills ==
  /\ scan = None /\ Due # {} /\ \E b \in DueBatch : scan' = b
  /\ UNCHANGED <<month, resetAt, onPlan, refills, job, tries, failures, changed>>

(* enqueueRefillPlanCredits: an id the queue still has adds nothing.       *)
EnqueueRefill(w) ==
  /\ scan # None /\ w \in scan
  /\ scan' = IF scan = {w} THEN None ELSE scan \ {w}
  /\ job' = [job EXCEPT ![<<w, month>>] = IF @ = "absent" THEN "waiting" ELSE @]
  /\ UNCHANGED <<month, resetAt, onPlan, refills, tries, failures, changed>>

ScanFails ==
  /\ scan # None /\ failures < MaxFailures
  /\ scan' = None /\ failures' = failures + 1
  /\ UNCHANGED <<month, resetAt, onPlan, refills, job, tries, changed>>

(* refillPlanCredits reads plan and date when it runs, not from the job;   *)
(* the clock moves whether or not there was something to grant.            *)
Refilled(w) ==
  /\ refills' = IF w \in onPlan THEN refills \cup {<<w, month>>} ELSE refills
  /\ resetAt' = [resetAt EXCEPT ![w] = month + 1]

(* An attempt of the worker, handleRefillPlanCredits.                      *)
RefillPlanCredits(w, m) ==
  /\ job[<<w, m>>] = "waiting" /\ Refilled(w)
  /\ job' = [job EXCEPT ![<<w, m>>] = "completed"]
  /\ tries' = [tries EXCEPT ![<<w, m>>] = 0]
  /\ UNCHANGED <<month, onPlan, scan, failures, changed>>

(* The attempt fails or its worker is lost: again, or kept as failed.      *)
AttemptFails(w, m) ==
  /\ job[<<w, m>>] = "waiting" /\ failures < MaxFailures /\ failures' = failures + 1
  /\ tries' = [tries EXCEPT ![<<w, m>>] = (@ + 1) % Attempts]
  /\ job' = [job EXCEPT ![<<w, m>>] = IF tries'[<<w, m>>] = 0 THEN "failed" ELSE @]
  /\ UNCHANGED <<month, resetAt, onPlan, refills, scan, changed>>

\* Mutant: failed jobs are kept for good.
AgesOut_FailedStays(w, m) ==
  /\ job[<<w, m>>] = "completed" /\ job' = [job EXCEPT ![<<w, m>>] = "absent"]
  /\ UNCHANGED <<month, resetAt, onPlan, refills, tries, scan, failures, changed>>

(* removeOnComplete after 7 days, removeOnFail after 30.                   *)
AgesOut(w, m) ==
  /\ job[<<w, m>>] \in {"completed", "failed"} /\ job' = [job EXCEPT ![<<w, m>>] = "absent"]
  /\ UNCHANGED <<month, resetAt, onPlan, refills, tries, scan, failures, changed>>

RefNext ==
  \/ MonthTurns \/ ScanPlanRefills \/ ScanFails
  \/ \E w \in Workspaces :
       \/ ChangePlan(w) \/ EnqueueRefill(w)
       \/ \E m \in Months :
            RefillPlanCredits(w, m) \/ AttemptFails(w, m) \/ AgesOut(w, m)

--------------------------------------------------------------------------------
(* A workspace that had its month's refill is not due again in that month, *)
(* and one that is not due has a date at most one month ahead.             *)
RefilledIsNotDue ==
  /\ RefTypeOK
  /\ \A k \in refills : k[2] < resetAt[k[1]]
  /\ \A w \in Workspaces : resetAt[w] <= month + 1

(* Whatever is due is settled, or its month is over: failed jobs that keep *)
(* their id, and failed jobs at the head of every batch, only delay it.    *)
DueIsSettled == \A w \in Workspaces : (w \in Due) ~> (w \notin Due)
================================================================================
