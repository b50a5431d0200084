-------------------------------- MODULE Triggers -------------------------------
(***************************************************************************)
(* One scheduled trigger between the scans that fire it and the person who *)
(* edits it, and the run a firing queues (trigger.service.ts, schedule.ts, *)
(* agent.service.ts).  The clock counts the instants the cron names.       *)
(***************************************************************************)
EXTENDS Integers, FiniteSets

CONSTANTS Scans,      \* passes of trigger.scan that may overlap
          MaxTime,    \* bound: instants that pass
          MaxBackoff, \* the cap of backoffMinutes, in instants
          MaxEdits,   \* bound: edits of the trigger
          MaxCrashes, \* bound: workers lost
          None

VARIABLES now, trigger,   \* the agent_trigger row, None once deleted
          agentActive,    \* whether queueRun accepts the agent
          pass,           \* what each scan has read and how far it is
          run,            \* the agent_run row of each instant and its job
          failed, lost,   \* history: instants claimed and refused, or abandoned
          claims,         \* history: how often each instant was claimed
          late,           \* history: a refusal took longer than an instant
          edits, crashes

trgVars == <<now, trigger, agentActive, pass, run, failed, lost, claims, late,
             edits, crashes>>

Time == 0 .. MaxTime
AgentTriggerRow ==
  [enabled : BOOLEAN, nextRunAt : 0 .. MaxTime + MaxBackoff \cup {None},
   failureCount : Nat]
RunState == {"none", "inserted", "queued"}
Pass == [at : Time, row : AgentTriggerRow, stage : {"listed", "claimed", "inserted"}]

TrgTypeOK ==
  /\ now \in Time /\ trigger \in AgentTriggerRow \cup {None}
  /\ agentActive \in BOOLEAN /\ pass \in [Scans -> Pass \cup {None}]
  /\ run \in [Time -> RunState] /\ failed \subseteq Time /\ lost \subseteq Time
  /\ claims \in [Time -> Nat] /\ late \in BOOLEAN
  /\ edits \in 0 .. MaxEdits /\ crashes \in 0 .. MaxCrashes

(* nextRun: the first instant after the one given.                         *)
NextRun(from) == from + 1

(* create, of an enabled schedule: the next run is known from the start.   *)
TrgInit ==
  /\ now = 0
  /\ trigger = [enabled |-> TRUE, nextRunAt |-> NextRun(0), failureCount |-> 0]
  /\ agentActive = TRUE /\ pass = [s \in Scans |-> None]
  /\ run = [t \in Time |-> "none"] /\ failed = {} /\ lost = {}
  /\ claims = [t \in Time |-> 0] /\ late = FALSE /\ edits = 0 /\ crashes = 0

--------------------------------------------------------------------------------
Tick ==
  /\ now < MaxTime /\ now' = now + 1
  /\ UNCHANGED <<trigger, agentActive, pass, run, failed, lost, claims, late,
                 edits, crashes>>

AgentChanges ==
  /\ edits < MaxEdits /\ edits' = edits + 1 /\ agentActive' = ~agentActive
  /\ UNCHANGED <<now, trigger, pass, run, failed, lost, claims, late, crashes>>

(* update of a schedule: the next run counts from now, failures from zero. *)
Update(enabled) ==
  /\ trigger # None /\ edits < MaxEdits /\ edits' = edits + 1
  /\ trigger' = [enabled |-> enabled, failureCount |-> 0,
                 nextRunAt |-> IF enabled THEN NextRun(now) ELSE None]
  /\ UNCHANGED <<now, agentActive, pass, run, failed, lost, claims, late, crashes>>

RemoveTrigger ==
  /\ trigger # None /\ edits < MaxEdits /\ edits' = edits + 1 /\ trigger' = None
  /\ UNCHANGED <<now, agentActive, pass, run, failed, lost, claims, late, crashes>>

--------------------------------------------------------------------------------
IsDue ==
  /\ trigger # None /\ trigger.enabled
  /\ trigger.nextRunAt # None /\ trigger.nextRunAt <= now

(* fireDueSchedules, listDue: the scan keeps the row as it read it.        *)
ListDue(s) ==
  /\ pass[s] = None /\ IsDue
  /\ pass' = [pass EXCEPT ![s] = [at |-> now, row |-> trigger, stage |-> "listed"]]
  /\ UNCHANGED <<now, trigger, agentActive, run, failed, lost, claims, late,
                 edits, crashes>>

ScanAt(s, stage) == pass[s] # None /\ pass[s].stage = stage
Instant(s) == pass[s].row.nextRunAt

\* Mutant: the update does not repeat the instant that was read.
ClaimMatches_ById(s) == trigger # None

(* claim: the UPDATE matches the instant the scan read.                    *)
ClaimMatches(s) == trigger # None /\ trigger.nextRunAt = Instant(s)

Claim(s) ==
  /\ ScanAt(s, "listed") /\ ClaimMatches(s)
  /\ trigger' = [trigger EXCEPT !.nextRunAt = NextRun(pass[s].at)]
  /\ claims' = [claims EXCEPT ![Instant(s)] = @ + 1]
  /\ pass' = [pass EXCEPT ![s].stage = "claimed"]
  /\ UNCHANGED <<now, agentActive, run, failed, lost, late, edits, crashes>>

ClaimMisses(s) ==
  /\ ScanAt(s, "listed") /\ ~ClaimMatches(s) /\ pass' = [pass EXCEPT ![s] = None]
  /\ UNCHANGED <<now, trigger, agentActive, run, failed, lost, claims, late, edits,
                 crashes>>

(* queueRun: an agent that may run gets a run row, and then its job.       *)
InsertRun(s) ==
  /\ ScanAt(s, "claimed") /\ agentActive
  /\ run' = [run EXCEPT ![Instant(s)] = IF @ = "none" THEN "inserted" ELSE @]
  /\ pass' = [pass EXCEPT ![s].stage = "inserted"]
  /\ UNCHANGED <<now, trigger, agentActive, failed, lost, claims, late, edits,
                 crashes>>

(* enqueueAgentRun, and the count of failures begins again.                *)
EnqueueRun(s) ==
  /\ ScanAt(s, "inserted")
  /\ run' = [run EXCEPT ![Instant(s)] = "queued"]
  /\ trigger' = IF trigger = None THEN None
                ELSE [trigger EXCEPT !.failureCount = 0]
  /\ pass' = [pass EXCEPT ![s] = None]
  /\ UNCHANGED <<now, agentActive, failed, lost, claims, late, edits, crashes>>

(* backoffMinutes: one, two, four ... up to the cap.                       *)
Backoff(failures) ==
  LET wait == <<1, 2, 4, 8, 16, 32, 64>>[IF failures < 7 THEN failures ELSE 7]
  IN IF wait < MaxBackoff THEN wait ELSE MaxBackoff

(* queueRun throws: the agent is not active, or Redis takes no job.        *)
Refused(s) ==
  \/ ScanAt(s, "claimed") /\ ~agentActive /\ UNCHANGED crashes
  \/ ScanAt(s, "inserted") /\ crashes < MaxCrashes /\ crashes' = crashes + 1

(* The count and the wait come from the row and the time the scan read.    *)
RunRefused(s) ==
  /\ Refused(s)
  /\ LET n == pass[s].row.failureCount + 1
     IN trigger' = IF trigger = None THEN None
                   ELSE [trigger EXCEPT !.failureCount = n,
                                        !.nextRunAt = pass[s].at + Backoff(n)]
  /\ failed' = failed \cup {Instant(s)} /\ late' = (late \/ now > pass[s].at)
  /\ pass' = [pass EXCEPT ![s] = None]
  /\ UNCHANGED <<now, agentActive, run, lost, claims, edits>>

(* The worker dies in the middle of a scan.                                *)
ScanDies(s) ==
  /\ pass[s] # None /\ crashes < MaxCrashes /\ crashes' = crashes + 1
  /\ lost' = IF ScanAt(s, "listed") THEN lost ELSE lost \cup {Instant(s)}
  /\ pass' = [pass EXCEPT ![s] = None]
  /\ UNCHANGED <<now, trigger, agentActive, run, failed, claims, late, edits>>

(* fireDueSchedules: one step of one pass.                                 *)
FireDueSchedules(s) ==
  \/ ListDue(s) \/ Claim(s) \/ ClaimMisses(s) \/ InsertRun(s) \/ EnqueueRun(s)
  \/ RunRefused(s)

TrgNext ==
  \/ Tick \/ AgentChanges \/ RemoveTrigger
  \/ \E enabled \in BOOLEAN : Update(enabled)
  \/ \E s \in Scans : FireDueSchedules(s) \/ ScanDies(s)

--------------------------------------------------------------------------------
InHand == {Instant(s) : s \in {x \in Scans : pass[x] # None /\ pass[x].stage # "listed"}}

(* Whatever scans, edits and crashes overlap: an instant is claimed once,  *)
(* unless a refusal came so late that the wait it wrote lay in the past;   *)
(* and what was claimed is queued, refused, lost with its worker or still  *)
(* in the hands of a scan.                                                 *)
FiresOnce ==
  /\ TrgTypeOK
  /\ ~late => \A t \in Time : claims[t] <= 1
  /\ {t \in Time : claims[t] > 0} =
       {t \in Time : run[t] = "queued"} \cup failed \cup lost \cup InHand

(* A schedule that is due is claimed, edited or switched off in the end.   *)
DueIsClaimed == IsDue ~> ~IsDue
================================================================================
