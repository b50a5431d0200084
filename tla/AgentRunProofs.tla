--------------------------- MODULE AgentRunProofs ---------------------------
(***************************************************************************)
(* Machine-checked theorems about AgentRun, for every version of an agent, *)
(* every number of attempts and requests at once, and every limit of       *)
(* failures, deaths, stops, retries and answers: its types; that what      *)
(* waits for a person waits for one; that a flow that succeeded got to its *)
(* end; that a run that ended stays so; that its books balance; and that   *)
(* the references it bills under are those RunBill promises.               *)
(***************************************************************************)
EXTENDS AgentRun, FiniteSetTheorems, WellFoundedInduction, TLAPS

USE VersionsAssumption, CasesAssumption, BoundsAssumption DEF NoJob

-----------------------------------------------------------------------------
(* The parts of the type.                                                  *)
Versions == {c.version : c \in Cases}

Checkpoint(steps) ==
  [step : 0..steps, seq : Nat, credits : Nat, answered : BOOLEAN]

AttemptState(steps, tries) ==
  [pc : {"idle", "prepared", "claimed", "between", "in_step", "ended",
         "closing", "closed"},
   job : JobIds \cup {NoJob}, holds : BOOLEAN, step : 0..steps,
   seq : Nat, credits : Nat, answered : BOOLEAN, exhausted : BOOLEAN,
   try : 1..tries, call : Nat, calls : Nat,
   end : {"none", "asked", "stopped", "timed_out", "failed", "finished"}]

\* An execution that is in a step has one, and one that is over knows why.
Closings == {"asked", "stopped", "failed", "finished"}
Executions(steps, tries) ==
  {e \in AttemptState(steps, tries) :
     /\ e.pc = "in_step" => e.step < steps
     /\ e.pc = "ended" => e.end # "none"
     /\ e.pc = "closing" => e.end \in Closings}

JobState ==
  [state : {"none", "waiting", "active", "done", "failed"},
   stalled : 0..MaxStalled, thrown : 0..MaxThrown]

RequestState ==
  [pc : {"idle", "enqueue", "clear", "reopen", "flag", "close"},
   status : Statuses, attempts : JobIds]

RowOK ==
  row \in [version : Versions, streamed : BOOLEAN, status : Statuses,
           attempts : JobIds, checkpoint : Checkpoint(Len(Flow))]
JobsOK == jobs \in [JobIds -> JobState]
AttemptsOK == attempts \in [Attempts -> Executions(Len(Flow), Tries)]
RequestsOK == requests \in [Requests -> RequestState]
UsageOK == usage \subseteq [seq : Nat, work : Work]
UsedOK == used \in [slots : Nat, limit : [Bounds -> Nat], times : [Bounds -> Nat]]

Typed ==
  /\ RowOK /\ JobsOK /\ AttemptsOK /\ RequestsOK /\ UsageOK /\ UsedOK
  /\ stopFlag \in BOOLEAN /\ writes \in Nat

LEMMA TypedIsTypeOK == Typed => TypeOK
<1>1. Executions(Len(Flow), Tries) \subseteq AttemptState(Len(Flow), Tries)
  BY DEF Executions
<1>2. QED
  BY <1>1 DEF Typed, RowOK, JobsOK, AttemptsOK, RequestsOK, UsageOK, TypeOK, Versions,
              Checkpoint, AttemptState, JobState, RequestState

\* What a published version is.
LEMMA VersionType ==
  ASSUME RowOK
  PROVE  /\ Flow \in Seq(SUBSET Nat) /\ Len(Flow) \in Nat /\ Steps = 1..Len(Flow)
         /\ Tries \in Nat \ {0} /\ Question \in 0..Len(Flow) /\ ToolLoop \in BOOLEAN
         /\ \A n \in 1..Len(Flow) : Flow[n] \subseteq Nat
         /\ Question # 0 => Flow[Question] = {0}
<1>1. row.version \in Versions
  BY DEF RowOK
<1>2. Flow \in Seq(SUBSET Nat)
  BY <1>1 DEF Versions, Flow
<1>3. Len(Flow) \in Nat /\ Steps = 1..Len(Flow) /\ \A n \in 1..Len(Flow) : Flow[n] \subseteq Nat
  BY <1>2 DEF Steps
<1>4. QED
  BY <1>1, <1>2, <1>3 DEF Versions, Flow, Question, Tries, ToolLoop

-----------------------------------------------------------------------------
(* Single updates.                                                         *)

\* The version of a run never changes, so neither do the types made from it.
SameVersion == row'.version = row.version

LEMMA AttemptUpdate ==
  ASSUME AttemptsOK, SameVersion, NEW a \in Attempts,
         NEW e \in Executions(Len(Flow), Tries),
         attempts' = [attempts EXCEPT ![a] = e]
  PROVE  AttemptsOK'
BY DEF AttemptsOK, SameVersion, Flow, Tries

LEMMA AttemptsStay ==
  ASSUME AttemptsOK, SameVersion, UNCHANGED attempts
  PROVE  AttemptsOK'
BY DEF AttemptsOK, SameVersion, Flow, Tries

LEMMA UsageStays ==
  ASSUME UsageOK, SameVersion, UNCHANGED usage
  PROVE  UsageOK'
BY DEF UsageOK, SameVersion, Work, Steps, Flow, Tries

LEMMA StatusUpdate ==
  ASSUME RowOK, NEW s \in Statuses, row' = [row EXCEPT !.status = s]
  PROVE  RowOK' /\ SameVersion
<1>1. row'.version = row.version
  BY DEF RowOK
<1>2. QED
  BY <1>1 DEF RowOK, SameVersion, Flow

LEMMA RowStays == ASSUME RowOK, UNCHANGED row PROVE RowOK' /\ SameVersion
BY DEF RowOK, SameVersion, Flow

LEMMA RequestUpdate ==
  ASSUME RequestsOK, NEW r \in Requests, NEW q \in RequestState,
         requests' = [requests EXCEPT ![r] = q]
  PROVE  RequestsOK'
BY DEF RequestsOK

\* An event is counted.
LEMMA UseType ==
  ASSUME UsedOK, NEW b \in Bounds, Use(b)
  PROVE  /\ UsedOK' /\ used'.slots = used.slots /\ used'.times[b] = used.times[b] + 1
         /\ \A c \in Bounds : c # b => used'.times[c] = used.times[c]
<1>1. used' = [used EXCEPT !.times = [used.times EXCEPT ![b] = used.times[b] + 1]]
  BY DEF Use, UsedOK
<1>2. used'.times = [used.times EXCEPT ![b] = used.times[b] + 1]
  BY <1>1 DEF UsedOK
<1>3. used.times[b] \in Nat
  BY DEF UsedOK
<1>4. /\ used'.times[b] = used.times[b] + 1
      /\ \A c \in Bounds : c # b => used'.times[c] = used.times[c]
  BY <1>2 DEF UsedOK
<1>5. used'.times \in [Bounds -> Nat]
  BY <1>2, <1>3 DEF UsedOK
<1>6. used'.slots = used.slots
  BY <1>1 DEF UsedOK
<1>7. QED
  BY <1>1, <1>4, <1>5, <1>6 DEF UsedOK

\* What the queue does with a job.
LEMMA ReleaseType ==
  ASSUME JobsOK, NEW j, NEW s \in {"none", "waiting", "active", "done", "failed"}
  PROVE  [jobs EXCEPT ![j].state = s] \in [JobIds -> JobState]
<1>1. CASE j \in JobIds
  <2>1. [jobs[j] EXCEPT !.state = s] \in JobState
    BY <1>1 DEF JobsOK, JobState
  <2>2. QED
    BY <1>1, <2>1 DEF JobsOK
<1>2. CASE j \notin JobIds
  BY <1>2 DEF JobsOK
<1>3. QED
  BY <1>1, <1>2

LEMMA StalledType ==
  ASSUME JobsOK, NEW j \in JobIds \cup {NoJob}
  PROVE  Stalled(j) \in [JobIds -> JobState]
<1>1. GiveUp(j) \in [JobIds -> JobState]
  BY ReleaseType DEF GiveUp
<1>2. ASSUME j \in JobIds, jobs[j].stalled < MaxStalled
      PROVE  Stalled(j) \in [JobIds -> JobState]
  <2> DEFINE again == [jobs[j] EXCEPT !.state = "waiting", !.stalled = jobs[j].stalled + 1]
  <2>1. again \in JobState
    <3>1. jobs[j] \in JobState
      BY <1>2 DEF JobsOK
    <3>2. jobs[j].stalled + 1 \in 0..MaxStalled
      BY <1>2, <3>1 DEF JobState
    <3>3. QED
      BY <3>1, <3>2 DEF JobState
  <2>2. Stalled(j) = [jobs EXCEPT ![j] = again]
    BY <1>2 DEF Stalled, JobsOK
  <2>3. QED
    BY <2>1, <2>2 DEF JobsOK
<1>3. ASSUME j \notin JobIds PROVE Stalled(j) \in [JobIds -> JobState]
  BY <1>1, <1>3 DEF Stalled, JobsOK
<1>4. QED
  BY <1>1, <1>2, <1>3 DEF Stalled

LEMMA ThrownType ==
  ASSUME JobsOK, NEW e \in AttemptState(Len(Flow), Tries)
  PROVE  Thrown(e) \in [JobIds -> JobState]
<1>1. GiveUp(e.job) \in [JobIds -> JobState]
  BY ReleaseType DEF GiveUp
<1>2. ASSUME e.holds, e.job \in JobIds, jobs[e.job].thrown < MaxThrown
      PROVE  Thrown(e) \in [JobIds -> JobState]
  <2> DEFINE again ==
        [jobs[e.job] EXCEPT !.state = "waiting", !.thrown = jobs[e.job].thrown + 1]
  <2>1. again \in JobState
    <3>1. jobs[e.job] \in JobState
      BY <1>2 DEF JobsOK
    <3>2. jobs[e.job].thrown + 1 \in 0..MaxThrown
      BY <1>2, <3>1 DEF JobState
    <3>3. QED
      BY <3>1, <3>2 DEF JobState
  <2>2. Thrown(e) = [jobs EXCEPT ![e.job] = again]
    BY <1>2 DEF Thrown, JobsOK
  <2>3. QED
    BY <2>1, <2>2 DEF JobsOK
<1>3. ASSUME e.job \notin JobIds PROVE Thrown(e) \in [JobIds -> JobState]
  BY <1>1, <1>3 DEF Thrown, JobsOK
<1>4. QED
  BY <1>1, <1>2, <1>3 DEF Thrown, JobsOK

LEMMA FinishedType ==
  ASSUME JobsOK, NEW e \in AttemptState(Len(Flow), Tries)
  PROVE  Finished(e) \in [JobIds -> JobState]
BY ReleaseType DEF Finished, Release, JobsOK

\* Where attempts start, and what they leave behind.
LEMMA IdleType ==
  ASSUME RowOK
  PROVE  /\ IdleAttempt \in Executions(Len(Flow), Tries)
         /\ Empty \in Checkpoint(Len(Flow))
<1>1. Len(Flow) \in Nat /\ Tries \in Nat \ {0}
  BY VersionType
<1>2. QED
  BY <1>1 DEF IdleAttempt, Attempt, Empty, AttemptState, Checkpoint, Executions

LEMMA PreparedType ==
  ASSUME RowOK, NEW cp \in Checkpoint(Len(Flow)), NEW j \in JobIds \cup {NoJob}
  PROVE  /\ Prepared(cp, j) \in Executions(Len(Flow), Tries)
         /\ Prepared(cp, j).pc = "prepared" /\ Prepared(cp, j).step = cp.step
         /\ Prepared(cp, j).answered = cp.answered
<1>1. Len(Flow) \in Nat /\ Tries \in Nat \ {0}
  BY VersionType
<1>2. Prepared(cp, j) \in AttemptState(Len(Flow), Tries)
  <2> DEFINE holds == j # NoJob
  <2>1. holds \in BOOLEAN
    OBVIOUS
  <2>2. Prepared(cp, j) =
          [pc |-> "prepared", job |-> j, holds |-> holds, step |-> cp.step,
           seq |-> cp.seq, credits |-> cp.credits, answered |-> cp.answered,
           exhausted |-> FALSE, try |-> 1, call |-> 0, calls |-> 0, end |-> "none"]
    BY DEF Prepared, Attempt
  <2> HIDE DEF holds
  <2>3. QED
    BY <1>1, <2>1, <2>2 DEF AttemptState, Checkpoint
<1>3. /\ Prepared(cp, j).pc = "prepared" /\ Prepared(cp, j).step = cp.step
      /\ Prepared(cp, j).answered = cp.answered
  BY DEF Prepared, Attempt
<1>4. QED
  BY <1>2, <1>3 DEF Executions

LEMMA SnapshotType ==
  ASSUME RowOK, NEW e \in AttemptState(Len(Flow), Tries)
  PROVE  /\ snapshot(e) \in Checkpoint(Len(Flow))
         /\ snapshot(e).step \in {0, e.step}
         /\ snapshot(e).answered = (~ToolLoop /\ e.answered)
<1> DEFINE step == IF ToolLoop /\ e.end # "asked" THEN 0 ELSE e.step
<1> DEFINE answered == ~ToolLoop /\ e.answered
<1>1. Len(Flow) \in Nat
  BY VersionType
<1>2. step \in {0, e.step} /\ step \in 0..Len(Flow)
  BY <1>1 DEF AttemptState
<1>3. answered \in BOOLEAN
  OBVIOUS
<1>4. snapshot(e) = [step |-> step, seq |-> e.seq, credits |-> e.credits, answered |-> answered]
  BY DEF snapshot
<1>5. e.seq \in Nat /\ e.credits \in Nat
  BY DEF AttemptState
<1> HIDE DEF step, answered
<1>6. snapshot(e) \in Checkpoint(Len(Flow))
  BY <1>2, <1>3, <1>4, <1>5 DEF Checkpoint
<1>7. snapshot(e).step = step /\ snapshot(e).answered = answered
  BY <1>4
<1>8. QED
  BY <1>2, <1>6, <1>7 DEF answered

-----------------------------------------------------------------------------
(* What the steps of an attempt make of it.                                *)
Execution == Executions(Len(Flow), Tries)

LEMMA ExecutionType ==
  ASSUME Typed, NEW a \in Attempts
  PROVE  attempts[a] \in Execution /\ attempts[a] \in AttemptState(Len(Flow), Tries)
BY DEF Typed, AttemptsOK, Execution, Executions

LEMMA NextStepType ==
  ASSUME Typed, NEW a \in Attempts, attempts[a].step < Len(Flow)
  PROVE  attempts[a].step + 1 \in 1..Len(Flow)
<1>1. attempts[a].step \in 0..Len(Flow)
  BY ExecutionType DEF AttemptState
<1>2. Len(Flow) \in Nat
  BY VersionType DEF Typed
<1>3. QED
  BY <1>1, <1>2

LEMMA IdleUpdate ==
  ASSUME Typed, SameVersion, NEW a \in Attempts,
         attempts' = [attempts EXCEPT ![a] = IdleAttempt]
  PROVE  AttemptsOK'
BY AttemptUpdate, IdleType DEF Typed

LEMMA PcUpdate ==
  ASSUME Typed, SameVersion, NEW a \in Attempts,
         NEW pc \in {"claimed", "between", "closed"},
         attempts' = [attempts EXCEPT ![a].pc = pc]
  PROVE  AttemptsOK'
<1> DEFINE e == [attempts[a] EXCEPT !.pc = pc]
<1>1. e \in Execution
  <2>1. attempts[a] \in AttemptState(Len(Flow), Tries)
    BY ExecutionType
  <2>2. e \in AttemptState(Len(Flow), Tries)
    BY <2>1 DEF AttemptState
  <2>3. e.pc = pc
    BY <2>1 DEF AttemptState
  <2>4. QED
    BY <2>2, <2>3 DEF Execution, Executions
<1>2. attempts' = [attempts EXCEPT ![a] = e]
  OBVIOUS
<1>3. QED
  BY <1>1, <1>2, AttemptUpdate DEF Execution, Typed

LEMMA LeaveUpdate ==
  ASSUME Typed, SameVersion, NEW a \in Attempts,
         NEW end \in {"asked", "stopped", "timed_out", "failed", "finished"},
         Leave(a, end)
  PROVE  AttemptsOK'
<1> DEFINE e == [attempts[a] EXCEPT !.pc = "ended", !.end = end]
<1>1. e \in Execution
  <2>1. attempts[a] \in AttemptState(Len(Flow), Tries)
    BY ExecutionType
  <2>2. e \in AttemptState(Len(Flow), Tries)
    BY <2>1 DEF AttemptState
  <2>3. e.pc = "ended" /\ e.end = end
    BY <2>1 DEF AttemptState
  <2>4. QED
    BY <2>2, <2>3 DEF Execution, Executions
<1>2. attempts' = [attempts EXCEPT ![a] = e]
  BY DEF Leave
<1>3. QED
  BY <1>1, <1>2, AttemptUpdate DEF Execution, Typed

LEMMA StallUpdate ==
  ASSUME Typed, SameVersion, NEW a \in Attempts,
         attempts' = [attempts EXCEPT ![a].holds = FALSE]
  PROVE  AttemptsOK'
<1> DEFINE e == [attempts[a] EXCEPT !.holds = FALSE]
<1>1. e \in Execution
  <2>1. attempts[a] \in AttemptState(Len(Flow), Tries)
    BY ExecutionType
  <2>2. e \in AttemptState(Len(Flow), Tries)
    BY <2>1 DEF AttemptState
  <2>3. /\ e.pc = attempts[a].pc /\ e.step = attempts[a].step
        /\ e.end = attempts[a].end
    BY <2>1 DEF AttemptState
  <2>4. QED
    BY ExecutionType, <2>2, <2>3 DEF Execution, Executions
<1>2. attempts' = [attempts EXCEPT ![a] = e]
  OBVIOUS
<1>3. QED
  BY <1>1, <1>2, AttemptUpdate DEF Execution, Typed

LEMMA EnterUpdate ==
  ASSUME Typed, SameVersion, NEW a \in Attempts, NEW c \in Nat,
         attempts[a].step < Len(Flow),
         attempts' = [attempts EXCEPT ![a] =
           [attempts[a] EXCEPT !.pc = "in_step", !.try = 1, !.call = 0, !.calls = c]]
  PROVE  AttemptsOK'
<1> DEFINE e == [attempts[a] EXCEPT !.pc = "in_step", !.try = 1, !.call = 0, !.calls = c]
<1>1. 1 \in 1..Tries
  BY VersionType DEF Typed
<1>2. e \in AttemptState(Len(Flow), Tries)
  <2>1. attempts[a] \in AttemptState(Len(Flow), Tries)
    BY ExecutionType
  <2>2. QED
    BY <1>1, <2>1 DEF AttemptState
<1>3. e.pc = "in_step" /\ e.step = attempts[a].step
  BY ExecutionType DEF AttemptState
<1>4. e \in Execution
  BY <1>2, <1>3 DEF Execution, Executions
<1>5. QED
  BY <1>4, AttemptUpdate DEF Execution, Typed

LEMMA RetryUpdate ==
  ASSUME Typed, SameVersion, NEW a \in Attempts, NEW c \in Nat,
         attempts[a].try < Tries,
         attempts' = [attempts EXCEPT ![a] =
           [attempts[a] EXCEPT !.try = @ + 1, !.call = 0, !.calls = c]]
  PROVE  AttemptsOK'
<1> DEFINE e == [attempts[a] EXCEPT !.try = attempts[a].try + 1, !.call = 0, !.calls = c]
<1>1. Tries \in Nat \ {0}
  BY VersionType DEF Typed
<1>2. attempts[a].try + 1 \in 1..Tries
  <2>1. attempts[a].try \in 1..Tries
    BY ExecutionType DEF AttemptState
  <2>2. QED
    BY <1>1, <2>1
<1>3. e \in Execution
  <2>1. attempts[a] \in AttemptState(Len(Flow), Tries)
    BY ExecutionType
  <2>2. e \in AttemptState(Len(Flow), Tries)
    BY <1>2, <2>1 DEF AttemptState
  <2>3. /\ e.pc = attempts[a].pc /\ e.step = attempts[a].step
        /\ e.end = attempts[a].end
    BY <2>1 DEF AttemptState
  <2>4. QED
    BY ExecutionType, <2>2, <2>3 DEF Execution, Executions
<1>4. QED
  BY <1>3, AttemptUpdate DEF Execution, Typed

LEMMA ChargeUpdate ==
  ASSUME Typed, SameVersion, NEW a \in Attempts, NEW credits \in Nat,
         NEW exhausted \in BOOLEAN,
         attempts' = [attempts EXCEPT ![a] =
           [attempts[a] EXCEPT !.call = @ + 1, !.seq = @ + 1, !.credits = credits,
                               !.exhausted = exhausted]]
  PROVE  AttemptsOK'
<1> DEFINE e == [attempts[a] EXCEPT !.call = attempts[a].call + 1,
                   !.seq = attempts[a].seq + 1, !.credits = credits,
                   !.exhausted = exhausted]
<1>1. attempts[a].call + 1 \in Nat /\ attempts[a].seq + 1 \in Nat
  <2>1. attempts[a] \in AttemptState(Len(Flow), Tries)
    BY ExecutionType
  <2>2. attempts[a].call \in Nat /\ attempts[a].seq \in Nat
    BY <2>1 DEF AttemptState
  <2>3. QED
    BY <2>2
<1>2. e \in Execution
  <2>1. attempts[a] \in AttemptState(Len(Flow), Tries)
    BY ExecutionType
  <2>2. e \in AttemptState(Len(Flow), Tries)
    BY <1>1, <2>1 DEF AttemptState
  <2>3. /\ e.pc = attempts[a].pc /\ e.step = attempts[a].step
        /\ e.end = attempts[a].end
    BY <2>1 DEF AttemptState
  <2>4. QED
    BY ExecutionType, <2>2, <2>3 DEF Execution, Executions
<1>3. QED
  BY <1>2, AttemptUpdate DEF Execution, Typed

\* The end of a step, and the checkpoint it leaves.
LEMMA SettleUpdate ==
  ASSUME Typed, NEW a \in Attempts, Settle(a), attempts[a].pc = "in_step"
  PROVE  RowOK' /\ SameVersion /\ AttemptsOK'
<1> DEFINE e == [attempts[a] EXCEPT !.pc = "between", !.step = attempts[a].step + 1]
<1>1. attempts[a] \in AttemptState(Len(Flow), Tries) /\ attempts[a].step < Len(Flow)
  BY ExecutionType DEF Execution, Executions
<1>2. attempts[a].step + 1 \in 0..Len(Flow)
  <2>1. Len(Flow) \in Nat
    BY VersionType DEF Typed
  <2>2. attempts[a].step \in 0..Len(Flow)
    BY <1>1 DEF AttemptState
  <2>3. QED
    BY <1>1, <2>1, <2>2
<1>3. e \in AttemptState(Len(Flow), Tries) /\ e.pc = "between"
  BY <1>1, <1>2 DEF AttemptState
<1>4. e \in Execution
  BY <1>3 DEF Execution, Executions
<1>5. attempts' = [attempts EXCEPT ![a] = e] /\ row' = [row EXCEPT !.checkpoint = snapshot(e)]
  BY DEF Settle
<1>6. snapshot(e) \in Checkpoint(Len(Flow))
  BY <1>3, SnapshotType DEF Typed
<1> HIDE DEF e
<1>7. SameVersion
  BY <1>5 DEF Typed, RowOK, SameVersion
<1>8. RowOK'
  BY <1>5, <1>6, <1>7 DEF Typed, RowOK, SameVersion, Flow
<1>9. AttemptsOK'
  BY <1>4, <1>5, <1>7, AttemptUpdate DEF Typed, Execution
<1>10. QED
  BY <1>7, <1>8, <1>9

LEMMA DecideUpdate ==
  ASSUME Typed, SameVersion, NEW a \in Attempts, decide(a)
  PROVE  AttemptsOK'
<1> DEFINE end == CASE attempts[a].end = "asked" -> "asked"
                    [] attempts[a].end # "asked" /\ stopFlag -> "stopped"
                    [] attempts[a].end # "asked" /\ ~stopFlag
                       /\ (attempts[a].end = "timed_out" \/ attempts[a].exhausted) -> "failed"
                    [] OTHER -> attempts[a].end
<1> DEFINE e == [attempts[a] EXCEPT !.pc = "closing", !.end = end]
<1>1. attempts[a] \in AttemptState(Len(Flow), Tries) /\ attempts[a].end # "none"
  BY ExecutionType DEF Execution, Executions, decide
<1>2. attempts[a].end \in Closings \cup {"timed_out"}
  BY <1>1 DEF AttemptState, Closings
<1>3. end \in Closings
  BY <1>2 DEF Closings
<1>4. attempts' = [attempts EXCEPT ![a] = e]
  BY DEF decide
<1> HIDE DEF end
<1>5. e \in AttemptState(Len(Flow), Tries)
  BY <1>1, <1>3 DEF AttemptState, Closings
<1>6. e.pc = "closing" /\ e.end = end
  BY <1>1 DEF AttemptState
<1>7. e \in Execution
  BY <1>3, <1>5, <1>6 DEF Execution, Executions
<1>8. QED
  BY <1>4, <1>7, AttemptUpdate DEF Execution, Typed

-----------------------------------------------------------------------------
(* The types, step by step.                                                *)
LEMMA Others ==
  ASSUME Typed, RowOK', SameVersion, JobsOK', AttemptsOK', RequestsOK', UsedOK',
         UNCHANGED usage, stopFlag' \in BOOLEAN, writes' \in Nat
  PROVE  Typed'
BY UsageStays DEF Typed

LEMMA TypedInit == Init => Typed
<1> SUFFICES ASSUME Init PROVE Typed
  OBVIOUS
<1>1. PICK c \in Cases :
        /\ row = [version |-> c.version, streamed |-> c.streamed, status |-> "none",
                  attempts |-> 0, checkpoint |-> Empty]
        /\ used = [slots |-> c.slots, limit |-> c.limit, times |-> [b \in Bounds |-> 0]]
  BY DEF Init
<1>2. c.version \in Versions
  BY DEF Versions
<1>3. row.version \in Versions /\ Len(Flow) \in Nat /\ Tries \in Nat \ {0}
  BY <1>1, <1>2 DEF Versions, Flow, Tries
<1>4. Empty \in Checkpoint(Len(Flow))
  BY <1>3 DEF Empty, Checkpoint
<1>5. RowOK
  BY <1>1, <1>2, <1>4 DEF RowOK, Statuses, JobIds
<1>6. UsedOK
  BY <1>1 DEF UsedOK
<1>7. JobsOK
  BY DEF Init, JobsOK, JobState, NewJob
<1>8. AttemptsOK
  BY <1>5, IdleType DEF Init, AttemptsOK
<1>9. RequestsOK
  BY DEF Init, RequestsOK, RequestState, IdleRequest, Statuses, JobIds
<1>10. QED
  BY <1>5, <1>6, <1>7, <1>8, <1>9 DEF Typed, Init, UsageOK

LEMMA UsedStays == ASSUME UsedOK, UNCHANGED used PROVE UsedOK'
BY DEF UsedOK

LEMMA RequestsStay == ASSUME RequestsOK, UNCHANGED requests PROVE RequestsOK'
BY DEF RequestsOK

LEMMA JobsStay == ASSUME JobsOK, UNCHANGED jobs PROVE JobsOK'
BY DEF JobsOK

\* What people ask for.
LEMMA TypedRequests ==
  ASSUME Typed, NEW r \in Requests, Ask(r) \/ Handle(r) \/ VanishRequest(r)
  PROVE  Typed'
<1>1. requests[r] \in RequestState /\ IdleRequest \in RequestState
      /\ row.status \in Statuses /\ row.attempts \in JobIds
  BY DEF Typed, RowOK, RequestsOK, RequestState, IdleRequest, Statuses, JobIds
<1>2. ASSUME NEW q \in RequestState, requests' = [requests EXCEPT ![r] = q]
      PROVE  RequestsOK'
  BY <1>2, RequestUpdate DEF Typed
<1>3. ASSUME NEW pc \in {"idle", "enqueue", "clear", "reopen", "flag", "close"},
             requests' = [requests EXCEPT ![r].pc = pc]
      PROVE  RequestsOK'
  <2>1. [requests[r] EXCEPT !.pc = pc] \in RequestState
    BY <1>1 DEF RequestState
  <2>2. requests' = [requests EXCEPT ![r] = [requests[r] EXCEPT !.pc = pc]]
    BY <1>3
  <2>3. QED
    BY <1>2, <2>1, <2>2
<1>4. ASSUME NEW pc \in {"clear", "flag"},
             requests' = [requests EXCEPT ![r] =
               [pc |-> pc, status |-> row.status, attempts |-> row.attempts]]
      PROVE  RequestsOK'
  BY <1>1, <1>2, <1>4 DEF RequestState
<1>5. ASSUME NEW b \in Bounds, Use(b) PROVE UsedOK'
  BY <1>5, UseType DEF Typed
<1>6. CASE queueRun(r)
  <2>1. RowOK' /\ SameVersion
    BY <1>6, StatusUpdate DEF queueRun, Typed, Statuses
  <2>2. RequestsOK'
    BY <1>3, <1>6 DEF queueRun
  <2>3. QED
    BY <1>6, <2>1, <2>2, Others, AttemptsStay, JobsStay, UsedStays DEF queueRun, Typed
<1>7. CASE retryRun(r)
  <2>1. RequestsOK' /\ UsedOK'
    BY <1>4, <1>5, <1>7 DEF retryRun, Bounds
  <2>2. QED
    BY <1>7, <2>1, Others, RowStays, AttemptsStay, JobsStay DEF retryRun, Typed
<1>8. CASE stopRun(r)
  <2>1. RequestsOK' /\ UsedOK'
    BY <1>4, <1>5, <1>8 DEF stopRun, Bounds
  <2>2. QED
    BY <1>8, <2>1, Others, RowStays, AttemptsStay, JobsStay DEF stopRun, Typed
<1>9. CASE enqueueAgentRun(r)
  <2> DEFINE j == requests[r].attempts
             s == IF jobs[j].state = "none" THEN "waiting" ELSE jobs[j].state
  <2>1. jobs[j] \in JobState
    BY <1>1 DEF Typed, JobsOK, RequestState
  <2>2. s \in {"none", "waiting", "active", "done", "failed"}
    BY <2>1 DEF JobState
  <2>3. jobs' = [jobs EXCEPT ![j].state = s]
    BY <1>9 DEF enqueueAgentRun
  <2> HIDE DEF s
  <2>4. JobsOK'
    BY <2>2, <2>3, ReleaseType DEF Typed, JobsOK
  <2>5. RequestsOK'
    BY <1>1, <1>2, <1>9 DEF enqueueAgentRun
  <2>6. QED
    BY <1>9, <2>4, <2>5, Others, RowStays, AttemptsStay, UsedStays
    DEF enqueueAgentRun, Typed
<1>10. CASE retryClearsStop(r)
  <2>1. RequestsOK'
    BY <1>3, <1>10 DEF retryClearsStop
  <2>2. QED
    BY <1>10, <2>1, Others, RowStays, AttemptsStay, JobsStay, UsedStays
    DEF retryClearsStop, Typed
<1>11. CASE retryReopens(r)
  <2>1. RowOK' /\ SameVersion
    BY <1>11, StatusUpdate DEF retryReopens, Typed, Statuses
  <2>2. RequestsOK'
    BY <1>3, <1>11 DEF retryReopens
  <2>3. QED
    BY <1>11, <2>1, <2>2, Others, AttemptsStay, JobsStay, UsedStays DEF retryReopens, Typed
<1>12. CASE requestStop(r)
  <2>1. RequestsOK'
    <3>1. CASE requests[r].status = "pending"
      BY <1>3, <1>12, <3>1 DEF requestStop
    <3>2. CASE requests[r].status # "pending"
      BY <1>1, <1>2, <1>12, <3>2 DEF requestStop
    <3>3. QED
      BY <3>1, <3>2
  <2>2. QED
    BY <1>12, <2>1, Others, RowStays, AttemptsStay, JobsStay, UsedStays
    DEF requestStop, Typed
<1>13. CASE stopClosesPending(r)
  <2>1. RowOK' /\ SameVersion
    BY <1>13, StatusUpdate DEF stopClosesPending, Typed, Statuses
  <2>2. RequestsOK'
    BY <1>1, <1>2, <1>13 DEF stopClosesPending
  <2>3. QED
    BY <1>13, <2>1, <2>2, Others, AttemptsStay, JobsStay, UsedStays
    DEF stopClosesPending, Typed
<1>14. CASE VanishRequest(r)
  <2>1. RequestsOK' /\ UsedOK'
    BY <1>1, <1>2, <1>5, <1>14 DEF VanishRequest, Bounds
  <2>2. QED
    BY <1>14, <2>1, Others, RowStays, AttemptsStay, JobsStay DEF VanishRequest, Typed
<1>15. QED
  BY <1>6, <1>7, <1>8, <1>9, <1>10, <1>11, <1>12, <1>13, <1>14 DEF Ask, Handle

\* How an attempt starts.
LEMMA TypedStarts ==
  ASSUME Typed, NEW a \in Attempts,
         prepare(a) \/ resume(a) \/ \E j \in JobIds : pickUp(a, j)
  PROVE  Typed'
<1>1. row.checkpoint \in Checkpoint(Len(Flow)) /\ Empty \in Checkpoint(Len(Flow))
  BY IdleType DEF Typed, RowOK
<1>2. CASE prepare(a)
  <2>1. RowOK' /\ SameVersion
    BY <1>2, StatusUpdate DEF prepare, Typed, Statuses
  <2>2. AttemptsOK'
    BY <1>1, <1>2, <2>1, PreparedType, AttemptUpdate DEF prepare, Typed
  <2>3. QED
    BY <1>2, <2>1, <2>2, Others, RequestsStay, JobsStay, UsedStays DEF prepare, Typed
<1>3. CASE resume(a)
  <2> DEFINE e == Prepared(row.checkpoint, NoJob)
             answered == [e EXCEPT !.answered = TRUE]
  <2>1. RowOK' /\ SameVersion
    BY <1>3, RowStays DEF resume, Typed
  <2>2. e \in AttemptState(Len(Flow), Tries) /\ e.pc = "prepared"
    BY <1>1, PreparedType DEF Typed, Executions
  <2>3. attempts' = [attempts EXCEPT ![a] = answered]
    BY <1>3 DEF resume
  <2> HIDE DEF e
  <2>4. answered \in AttemptState(Len(Flow), Tries) /\ answered.pc = "prepared"
    BY <2>2 DEF AttemptState
  <2>5. answered \in Executions(Len(Flow), Tries)
    BY <2>4 DEF Executions
  <2>6. AttemptsOK'
    BY <2>1, <2>3, <2>5, AttemptUpdate DEF Typed
  <2>7. UsedOK'
    BY <1>3, UseType DEF resume, Bounds, Typed
  <2>8. QED
    BY <1>3, <2>1, <2>6, <2>7, Others, RequestsStay, JobsStay DEF resume, Typed
<1>4. ASSUME NEW j \in JobIds, pickUp(a, j) PROVE Typed'
  <2>1. RowOK' /\ SameVersion
    BY <1>4, RowStays DEF pickUp, Typed
  <2>2. CASE row.status \in PICKUP_STATUSES
    <3>1. AttemptsOK'
      BY <1>1, <1>4, <2>1, <2>2, PreparedType, AttemptUpdate DEF pickUp, Typed
    <3>2. JobsOK'
      <4>1. jobs' = [jobs EXCEPT ![j].state = "active"]
        BY <1>4, <2>2 DEF pickUp
      <4>2. [jobs EXCEPT ![j].state = "active"] \in [JobIds -> JobState]
        BY ReleaseType DEF Typed
      <4>3. QED
        BY <4>1, <4>2 DEF JobsOK
    <3>3. QED
      BY <1>4, <2>1, <3>1, <3>2, Others, RequestsStay, UsedStays DEF pickUp, Typed
  <2>3. CASE row.status \notin PICKUP_STATUSES
    <3>1. AttemptsOK'
      BY <1>4, <2>1, <2>3, AttemptsStay DEF pickUp, Typed
    <3>2. JobsOK'
      <4>1. jobs' = [jobs EXCEPT ![j].state = "done"]
        BY <1>4, <2>3 DEF pickUp, Release
      <4>2. [jobs EXCEPT ![j].state = "done"] \in [JobIds -> JobState]
        BY ReleaseType DEF Typed
      <4>3. QED
        BY <4>1, <4>2 DEF JobsOK
    <3>3. QED
      BY <1>4, <2>1, <3>1, <3>2, Others, RequestsStay, UsedStays DEF pickUp, Typed
  <2>4. QED
    BY <2>2, <2>3
<1>5. QED
  BY <1>2, <1>3, <1>4

\* What goes wrong.
LEMMA TypedFailures ==
  ASSUME Typed, NEW a \in Attempts, GoesWrong(a)
  PROVE  Typed'
<1> DEFINE e == attempts[a]
<1>1. e \in AttemptState(Len(Flow), Tries)
  BY ExecutionType
<1>2. e.job \in JobIds \cup {NoJob}
  BY <1>1 DEF AttemptState
<1>3. ASSUME NEW b \in Bounds, Use(b) PROVE UsedOK'
  BY <1>3, UseType DEF Typed
<1>4. Thrown(e) \in [JobIds -> JobState] /\ Stalled(e.job) \in [JobIds -> JobState]
  BY <1>1, <1>2, ThrownType, StalledType DEF Typed
<1>5. CASE Refuse(a)
  <2>1. RowOK' /\ SameVersion
    BY <1>5, RowStays, StatusUpdate DEF Refuse, Typed, Statuses
  <2>2. JobsOK' /\ UsedOK'
    BY <1>3, <1>4, <1>5 DEF Refuse, JobsOK, Bounds
  <2>3. AttemptsOK'
    BY <1>5, <2>1, IdleUpdate DEF Refuse
  <2>4. QED
    BY <1>5, <2>1, <2>2, <2>3, Others, RequestsStay DEF Refuse, Typed
<1>6. CASE Crash(a)
  <2>1. RowOK' /\ SameVersion
    BY <1>6, RowStays DEF Crash, Typed
  <2>2. JobsOK' /\ UsedOK'
    BY <1>3, <1>4, <1>6 DEF Crash, JobsOK, Bounds, Typed
  <2>3. AttemptsOK'
    BY <1>6, <2>1, IdleUpdate DEF Crash
  <2>4. QED
    BY <1>6, <2>1, <2>2, <2>3, Others, RequestsStay DEF Crash, Typed
<1>7. CASE Stall(a)
  <2>1. RowOK' /\ SameVersion
    BY <1>7, RowStays DEF Stall, Typed
  <2>2. JobsOK' /\ UsedOK'
    BY <1>3, <1>4, <1>7 DEF Stall, JobsOK, Bounds
  <2>3. AttemptsOK'
    BY <1>7, <2>1, StallUpdate DEF Stall
  <2>4. QED
    BY <1>7, <2>1, <2>2, <2>3, Others, RequestsStay DEF Stall, Typed
<1>8. CASE VanishAttempt(a)
  <2>1. RowOK' /\ SameVersion
    BY <1>8, RowStays DEF VanishAttempt, Typed
  <2>2. AttemptsOK' /\ UsedOK'
    BY <1>3, <1>8, <2>1, IdleUpdate DEF VanishAttempt, Bounds
  <2>3. QED
    BY <1>8, <2>1, <2>2, Others, RequestsStay, JobsStay DEF VanishAttempt, Typed
<1>9. CASE loseCredential(a)
  <2>1. RowOK' /\ SameVersion
    BY <1>9, RowStays DEF loseCredential, Typed
  <2>2. JobsOK' /\ UsedOK'
    BY <1>3, <1>4, <1>9 DEF loseCredential, JobsOK, Bounds
  <2>3. AttemptsOK'
    BY <1>9, <2>1, IdleUpdate DEF loseCredential
  <2>4. QED
    BY <1>9, <2>1, <2>2, <2>3, Others, RequestsStay DEF loseCredential, Typed
<1>10. CASE timeOut(a)
  <2>1. RowOK' /\ SameVersion
    BY <1>10, RowStays DEF timeOut, Typed
  <2>2. AttemptsOK' /\ UsedOK'
    BY <1>3, <1>10, <2>1, LeaveUpdate DEF timeOut, Bounds
  <2>3. QED
    BY <1>10, <2>1, <2>2, Others, RequestsStay, JobsStay DEF timeOut, Typed
<1>11. CASE stepFails(a)
  <2>1. UsedOK' /\ UNCHANGED <<jobs, stopFlag, requests, usage, writes>> /\ e.pc = "in_step"
    BY <1>3, <1>11 DEF stepFails, Bounds
  <2>2. ASSUME RowOK', SameVersion, AttemptsOK' PROVE Typed'
    BY <2>1, <2>2, Others, RequestsStay, JobsStay DEF Typed
  <2>3. ASSUME NEW c \in Flow[e.step + 1], e.try < Tries, UNCHANGED row,
               attempts' = [attempts EXCEPT ![a] =
                 [attempts[a] EXCEPT !.try = @ + 1, !.call = 0, !.calls = c]]
        PROVE  Typed'
    <3>1. RowOK' /\ SameVersion
      BY <2>3, RowStays DEF Typed
    <3>2. e.step + 1 \in 1..Len(Flow)
      <4>1. e.step < Len(Flow)
        BY <2>1, ExecutionType DEF Execution, Executions
      <4>2. QED
        BY <4>1, NextStepType
    <3>3. c \in Nat
      BY <2>3, <3>2, VersionType DEF Typed
    <3>4. AttemptsOK'
      BY <2>3, <3>1, <3>3, RetryUpdate
    <3>5. QED
      BY <2>2, <3>1, <3>4
  <2>4. CASE Settle(a)
    BY <2>1, <2>2, <2>4, SettleUpdate
  <2>5. CASE Leave(a, "failed") /\ UNCHANGED row
    BY <2>2, <2>5, LeaveUpdate, RowStays DEF Typed
  <2>6. QED
    BY <1>11, <2>3, <2>4, <2>5 DEF stepFails
<1>12. QED
  BY <1>5, <1>6, <1>7, <1>8, <1>9, <1>10, <1>11 DEF GoesWrong

\* What the ledger makes of a charge.
LEMMA ChargeTyped == ASSUME Typed, NEW a \in Attempts, charge(a) PROVE Typed'
<1> DEFINE e == attempts[a]
           work == [step |-> e.step + 1, try |-> e.try, call |-> e.call + 1]
           applied == \E u \in usage : u.seq = e.seq
           credits == IF applied THEN e.credits ELSE e.credits + 1
           exhausted == e.exhausted \/ credits >= Ceiling
<1>1. e \in AttemptState(Len(Flow), Tries) /\ e.step < Len(Flow)
  BY ExecutionType DEF charge, Execution, Executions
<1>2. RowOK' /\ SameVersion
  BY RowStays DEF charge, Typed
<1>3. credits \in Nat
  <2>1. e.credits \in Nat
    BY <1>1 DEF AttemptState
  <2>2. QED
    BY <2>1
<1>4. exhausted \in BOOLEAN
  BY <1>1 DEF AttemptState
<1>5. attempts' = [attempts EXCEPT ![a] =
        [attempts[a] EXCEPT !.call = @ + 1, !.seq = @ + 1, !.credits = credits,
                            !.exhausted = exhausted]]
  BY DEF charge
<1>6. usage' \subseteq usage \cup {[seq |-> e.seq, work |-> work]}
  BY DEF charge
<1>7. work \in Work
  <2>1. e.step + 1 \in Steps
    BY <1>1, NextStepType, VersionType DEF Typed
  <2>2. e.try \in 1..Tries /\ e.call \in Nat
    BY <1>1 DEF AttemptState
  <2>3. e.call + 1 \in Nat
    BY <2>2
  <2>4. QED
    BY <2>1, <2>2, <2>3 DEF Work
<1> HIDE DEF credits, exhausted, applied
<1>8. AttemptsOK'
  BY <1>2, <1>3, <1>4, <1>5, ChargeUpdate
<1> HIDE DEF work
<1>9. UsageOK'
  <2>1. [seq |-> e.seq, work |-> work] \in [seq : Nat, work : Work]
    BY <1>1, <1>7 DEF AttemptState
  <2>2. usage' \subseteq [seq : Nat, work : Work]
    BY <1>6, <2>1 DEF Typed, UsageOK
  <2>3. Work' = Work
    BY <1>2 DEF SameVersion, Work, Steps, Flow, Tries
  <2>4. QED
    BY <2>2, <2>3 DEF UsageOK
<1>10. QED
  BY <1>2, <1>8, <1>9, RequestsStay, JobsStay, UsedStays DEF charge, Typed

\* What an attempt does.
LEMMA TypedExecution ==
  ASSUME Typed, NEW a \in Attempts, Execute(a)
  PROVE  Typed'
<1> DEFINE e == attempts[a]
<1>1. e \in AttemptState(Len(Flow), Tries) /\ e \in Execution
  BY ExecutionType
<1>2. CASE startAttempt(a)
  <2>1. row.attempts + 1 \in JobIds
    BY <1>2 DEF startAttempt, Typed, RowOK, JobIds
  <2>2. SameVersion
    BY <1>2 DEF startAttempt, SameVersion, Typed, RowOK
  <2>3. RowOK'
    BY <1>2, <2>1, <2>2 DEF startAttempt, SameVersion, Typed, RowOK, Flow, Statuses
  <2>4. AttemptsOK'
    BY <1>2, <2>2, PcUpdate DEF startAttempt
  <2>5. QED
    BY <1>2, <2>2, <2>3, <2>4, Others, RequestsStay, JobsStay, UsedStays
    DEF startAttempt, Typed
<1>3. CASE findCredential(a)
  <2>1. RowOK' /\ SameVersion
    BY <1>3, RowStays DEF findCredential, Typed
  <2>2. AttemptsOK'
    BY <1>3, <2>1, PcUpdate DEF findCredential
  <2>3. QED
    BY <1>3, <2>1, <2>2, Others, RequestsStay, JobsStay, UsedStays DEF findCredential, Typed
<1>4. CASE stopBetween(a)
  <2>1. RowOK' /\ SameVersion
    BY <1>4, RowStays DEF stopBetween, Typed
  <2>2. AttemptsOK'
    BY <1>4, <2>1, LeaveUpdate DEF stopBetween
  <2>3. QED
    BY <1>4, <2>1, <2>2, Others, RequestsStay, JobsStay, UsedStays DEF stopBetween, Typed
<1>5. CASE enterStep(a)
  <2>1. RowOK' /\ SameVersion
    BY <1>5, RowStays DEF enterStep, Typed
  <2>2. e.step < Len(Flow) /\ e.step + 1 \in 1..Len(Flow)
    BY <1>5, NextStepType DEF enterStep
  <2>3. AttemptsOK'
    <3>1. CASE Leave(a, "asked")
      BY <2>1, <3>1, LeaveUpdate
    <3>2. ASSUME NEW c \in Flow[e.step + 1],
                 attempts' = [attempts EXCEPT ![a] =
                   [attempts[a] EXCEPT !.pc = "in_step", !.try = 1, !.call = 0, !.calls = c]]
          PROVE  AttemptsOK'
      <4>1. c \in Nat
        BY <2>2, <3>2, VersionType DEF Typed
      <4>2. QED
        BY <2>1, <2>2, <3>2, <4>1, EnterUpdate
    <3>3. QED
      BY <1>5, <3>1, <3>2 DEF enterStep
  <2>4. writes' \in Nat
    <3>1. writes' \in {writes, writes + 1}
      BY <1>5 DEF enterStep
    <3>2. QED
      BY <3>1 DEF Typed
  <2>5. QED
    BY <1>5, <2>1, <2>3, <2>4, Others, RequestsStay, JobsStay, UsedStays DEF enterStep, Typed
<1>6. CASE charge(a)
  BY <1>6, ChargeTyped
<1>7. CASE checkpointRun(a)
  <2>1. RowOK' /\ SameVersion /\ AttemptsOK'
    BY <1>7, SettleUpdate DEF checkpointRun
  <2>2. QED
    BY <1>7, <2>1, Others, RequestsStay, JobsStay, UsedStays DEF checkpointRun, Typed
<1>8. CASE finish(a)
  <2>1. RowOK' /\ SameVersion
    BY <1>8, RowStays DEF finish, Typed
  <2>2. AttemptsOK'
    BY <1>8, <2>1, LeaveUpdate DEF finish
  <2>3. QED
    BY <1>8, <2>1, <2>2, Others, RequestsStay, JobsStay, UsedStays DEF finish, Typed
<1>9. CASE decide(a)
  <2>1. RowOK' /\ SameVersion
    BY <1>9, RowStays DEF decide, Typed
  <2>2. AttemptsOK'
    BY <1>9, <2>1, DecideUpdate
  <2>3. QED
    BY <1>9, <2>1, <2>2, Others, RequestsStay, JobsStay, UsedStays DEF decide, Typed
<1>10. CASE persist(a)
  <2>1. e.end \in Closings
    BY <1>1, <1>10 DEF persist, Execution, Executions
  <2>2. Outcome(e.end) \subseteq Statuses
    BY <2>1 DEF Outcome, Closings, Statuses
  <2>3. PICK status \in Outcome(e.end) :
          row' = [row EXCEPT !.status = status, !.checkpoint = snapshot(e)]
    BY <1>10 DEF persist
  <2>4. snapshot(e) \in Checkpoint(Len(Flow))
    BY <1>1, SnapshotType DEF Typed
  <2>5. SameVersion
    BY <2>3 DEF SameVersion, Typed, RowOK
  <2>6. RowOK'
    BY <2>2, <2>3, <2>4, <2>5 DEF SameVersion, Typed, RowOK, Flow
  <2>7. AttemptsOK'
    BY <1>10, <2>5, PcUpdate DEF persist
  <2>8. QED
    BY <1>10, <2>5, <2>6, <2>7, Others, RequestsStay, JobsStay, UsedStays DEF persist, Typed
<1>11. CASE clearStop(a)
  <2>1. RowOK' /\ SameVersion
    BY <1>11, RowStays DEF clearStop, Typed
  <2>2. AttemptsOK'
    BY <1>11, <2>1, IdleUpdate DEF clearStop
  <2>3. JobsOK'
    BY <1>1, <1>11, FinishedType DEF clearStop, JobsOK, Typed
  <2>4. stopFlag' \in BOOLEAN
    BY <1>11 DEF clearStop
  <2>5. QED
    BY <1>11, <2>1, <2>2, <2>3, <2>4, Others, RequestsStay, UsedStays DEF clearStop, Typed
<1>12. QED
  BY <1>2, <1>3, <1>4, <1>5, <1>6, <1>7, <1>8, <1>9, <1>10, <1>11 DEF Execute

LEMMA TypedStep == Typed /\ [Next]_vars => Typed'
<1> SUFFICES ASSUME Typed, [Next]_vars PROVE Typed'
  OBVIOUS
<1>1. ASSUME stopExpires \/ UNCHANGED vars PROVE Typed'
  <2>1. UNCHANGED <<row, jobs, attempts, requests, usage, writes, used>>
        /\ stopFlag' \in BOOLEAN
    BY <1>1 DEF stopExpires, vars, Typed
  <2>2. QED
    BY <2>1, Others, RowStays, AttemptsStay, RequestsStay, JobsStay, UsedStays DEF Typed
<1>2. QED
  BY <1>1, TypedRequests, TypedStarts, TypedFailures, TypedExecution DEF Next

\* The types of the run's row, its jobs, its attempts and its books hold in
\* every state of every version of an agent (agent.service.ts, runner.ts).
THEOREM RunTyped == Spec => []TypeOK
<1>1. Init => Typed
  BY TypedInit
<1>2. Typed /\ [Next]_vars => Typed'
  BY TypedStep
<1>3. Typed => TypeOK
  BY TypedIsTypeOK
<1>4. QED
  BY <1>1, <1>2, <1>3, PTL DEF Spec

-----------------------------------------------------------------------------
(* What waits for a person.                                                *)
Answers == used.times["answers"]

\* An execution that holds an answer, or is behind the question, is there
\* because a person answered; so is one that executes what the question guards.
Passed(e, question, answers) ==
  /\ e.answered => answers > 0
  /\ question # 0 /\ e.step >= question => answers > 0
  /\ e.pc = "in_step" /\ e.step + 1 = question => e.answered

\* So is a checkpoint, and that of a tool loop holds no answer.
Saved(cp, question, answers, toolLoop) ==
  /\ cp.answered => answers > 0 /\ ~toolLoop
  /\ question # 0 /\ cp.step >= question => answers > 0

\* An answer that an execution holds and has not used.
Live == {"prepared", "claimed", "between", "in_step"}
Ticket(e, question) ==
  /\ e.answered /\ e.pc \in Live
  /\ \/ e.step + 1 < question
     \/ e.step + 1 = question /\ e.pc # "in_step"
Tickets == {a \in Attempts : Ticket(attempts[a], Question)}

\* Each answer is either held or used, so an answer executes one write at most.
Approved ==
  /\ \A a \in Attempts : Passed(attempts[a], Question, Answers)
  /\ Saved(row.checkpoint, Question, Answers, ToolLoop)
  /\ AskedFirst
  /\ ToolLoop => writes + Cardinality(Tickets) <= Answers

LEMMA AnswersType ==
  /\ Typed => Answers \in Nat
  /\ Typed' => Answers' \in Nat
BY DEF Typed, UsedOK, Answers, Bounds

LEMMA SameQuestion ==
  ASSUME SameVersion
  PROVE  Question' = Question /\ ToolLoop' = ToolLoop /\ Flow' = Flow
BY DEF SameVersion, Question, ToolLoop, Flow

\* The held answers, when one execution changes.
LEMMA TicketBook ==
  ASSUME Typed, SameVersion, NEW a \in Attempts, NEW e,
         attempts' = [attempts EXCEPT ![a] = e]
  PROVE  /\ Cardinality(Tickets) \in Nat /\ Cardinality(Tickets') \in Nat
         /\ Cardinality(Tickets') <= Cardinality(Tickets) + 1
         /\ (Ticket(e, Question) => Ticket(attempts[a], Question)) =>
              Cardinality(Tickets') <= Cardinality(Tickets)
         /\ ~Ticket(e, Question) /\ Ticket(attempts[a], Question) =>
              Cardinality(Tickets') = Cardinality(Tickets) - 1
<1>1. IsFiniteSet(Tickets) /\ Cardinality(Tickets) \in Nat
  BY AttemptsAssumption, FS_Subset, FS_CardinalityType DEF Tickets
<1>2. Tickets' = IF Ticket(e, Question) THEN Tickets \cup {a} ELSE Tickets \ {a}
  BY SameQuestion DEF Tickets, Typed, AttemptsOK
<1>3. a \in Tickets <=> Ticket(attempts[a], Question)
  BY DEF Tickets
<1>4. CASE Ticket(e, Question)
  <2>1. Tickets' = Tickets \cup {a}
    BY <1>2, <1>4
  <2>2. Cardinality(Tickets') =
          IF a \in Tickets THEN Cardinality(Tickets) ELSE Cardinality(Tickets) + 1
    BY <1>1, <2>1, FS_AddElement
  <2>3. QED
    BY <1>1, <1>3, <1>4, <2>2
<1>5. CASE ~Ticket(e, Question)
  <2>1. Tickets' = Tickets \ {a}
    BY <1>2, <1>5
  <2>2. IsFiniteSet(Tickets') /\ Cardinality(Tickets') =
          IF a \in Tickets THEN Cardinality(Tickets) - 1 ELSE Cardinality(Tickets)
    BY <1>1, <2>1, FS_RemoveElement
  <2>3. Cardinality(Tickets') \in Nat
    BY <2>2, FS_CardinalityType
  <2>4. QED
    BY <1>1, <1>3, <1>5, <2>2, <2>3
<1>6. QED
  BY <1>4, <1>5

\* One execution changes, and with it the checkpoint, the bills, the writes or
\* the answers.
LEMMA ApprovedBy ==
  ASSUME Typed, Typed', Approved, SameVersion, NEW a \in Attempts, NEW e,
         attempts' = [attempts EXCEPT ![a] = e],
         Passed(e, Question, Answers'), Answers' >= Answers,
         Saved(row'.checkpoint, Question, Answers', ToolLoop),
         \A u \in usage' \ usage : Question # 0 /\ u.work.step > Question => Answers' > 0,
         \/ /\ Ticket(e, Question) => Ticket(attempts[a], Question)
            /\ writes' = writes
         \/ /\ Ticket(attempts[a], Question) /\ ~Ticket(e, Question)
            /\ writes' = writes + 1
         \/ writes' = writes /\ Answers' = Answers + 1
         \/ ~ToolLoop
  PROVE  Approved'
<1>1. Answers \in Nat /\ Answers' \in Nat /\ writes \in Nat
  BY AnswersType DEF Typed
<1>2. ASSUME NEW b \in Attempts PROVE Passed(attempts'[b], Question', Answers')
  <2>1. CASE b = a
    BY <2>1, SameQuestion DEF Typed, AttemptsOK
  <2>2. CASE b # a
    <3>1. attempts'[b] = attempts[b] /\ Passed(attempts[b], Question, Answers)
      BY <2>2 DEF Typed, AttemptsOK, Approved
    <3>2. QED
      BY <1>1, <3>1, SameQuestion DEF Passed
  <2>3. QED
    BY <2>1, <2>2
<1>3. Saved(row'.checkpoint, Question', Answers', ToolLoop')
  BY SameQuestion
<1>4. AskedFirst'
  <2>1. ASSUME Question # 0, NEW u \in usage', u.work.step > Question PROVE Answers' > 0
    <3>1. CASE u \in usage
      BY <1>1, <2>1, <3>1 DEF Approved, AskedFirst, Happened, Answers
    <3>2. CASE u \notin usage
      BY <2>1, <3>2
    <3>3. QED
      BY <3>1, <3>2
  <2>2. QED
    BY <2>1, SameQuestion DEF AskedFirst, Happened, Answers
<1>5. ASSUME ToolLoop' PROVE writes' + Cardinality(Tickets') <= Answers'
  <2>1. ToolLoop /\ writes + Cardinality(Tickets) <= Answers /\ writes' \in Nat
    BY <1>5, SameQuestion DEF Approved, Typed
  <2> DEFINE before == Cardinality(Tickets)
             after == Cardinality(Tickets')
  <2>2. /\ before \in Nat /\ after \in Nat /\ after <= before + 1
        /\ (Ticket(e, Question) => Ticket(attempts[a], Question)) => after <= before
        /\ ~Ticket(e, Question) /\ Ticket(attempts[a], Question) => after = before - 1
    BY TicketBook
  <2>3. writes + before <= Answers
    BY <2>1
  <2> HIDE DEF before, after
  <2>4. \/ after <= before /\ writes' = writes
        \/ after = before - 1 /\ writes' = writes + 1
        \/ after <= before + 1 /\ writes' = writes /\ Answers' = Answers + 1
    BY <2>1, <2>2
  <2>5. writes' + after <= Answers'
    BY <1>1, <2>2, <2>3, <2>4
  <2>6. QED
    BY <2>5 DEF after
<1>6. QED
  BY <1>2, <1>3, <1>4, <1>5 DEF Approved

\* Nothing changes that an approval is about.
LEMMA ApprovedStays ==
  ASSUME Typed, Approved, SameVersion, row'.checkpoint = row.checkpoint,
         UNCHANGED <<attempts, usage, writes>>, Answers' = Answers
  PROVE  Approved'
<1>1. Tickets' = Tickets /\ (AskedFirst' <=> AskedFirst)
  BY SameQuestion DEF Tickets, AskedFirst, Happened, Answers
<1>2. QED
  BY <1>1, SameQuestion DEF Approved

LEMMA SavedLater ==
  ASSUME Typed, Typed', Approved, Answers' >= Answers, row'.checkpoint = row.checkpoint
  PROVE  Saved(row'.checkpoint, Question, Answers', ToolLoop)
BY AnswersType DEF Approved, Saved

\* An execution that is over, or goes on where it is, changes nothing either.
LEMMA ApprovedOnward ==
  ASSUME Typed, Typed', Approved, SameVersion, NEW a \in Attempts, NEW e,
         attempts' = [attempts EXCEPT ![a] = e],
         row'.checkpoint = row.checkpoint, UNCHANGED <<usage, writes>>, Answers' = Answers,
         \/ e = IdleAttempt
         \/ /\ e.answered = attempts[a].answered /\ e.step = attempts[a].step
            /\ \/ e.pc \notin Live
               \/ e.pc = attempts[a].pc
               \/ e.pc # "in_step" /\ attempts[a].pc \in {"prepared", "claimed"}
  PROVE  Approved'
<1>1. Question \in Nat /\ Answers \in Nat
  BY VersionType, AnswersType DEF Typed
<1>2. Passed(attempts[a], Question, Answers)
  BY DEF Approved
<1>3. Passed(e, Question, Answers') /\ (Ticket(e, Question) => Ticket(attempts[a], Question))
  <2>1. CASE e = IdleAttempt
    BY <1>1, <2>1 DEF IdleAttempt, Attempt, Empty, Passed, Ticket
  <2>2. CASE e # IdleAttempt
    BY <1>2, <2>2 DEF Passed, Ticket, Live
  <2>3. QED
    BY <2>1, <2>2
<1>4. Saved(row'.checkpoint, Question, Answers', ToolLoop)
  BY <1>1, SavedLater
<1>5. Answers' >= Answers /\ writes' = writes /\ usage' \ usage = {}
  BY <1>1
<1>6. QED
  BY <1>3, <1>4, <1>5, ApprovedBy

LEMMA RowKept ==
  ASSUME Typed, UNCHANGED row \/ \E s : row' = [row EXCEPT !.status = s]
  PROVE  SameVersion /\ row'.checkpoint = row.checkpoint
BY DEF Typed, RowOK, SameVersion

LEMMA AnswersKept ==
  ASSUME Typed, UNCHANGED used \/ \E b \in Bounds \ {"answers"} : Use(b)
  PROVE  Answers' = Answers
BY UseType DEF Typed, Answers, Bounds

\* What people ask for is no answer.
LEMMA ApprovedRequests ==
  ASSUME Typed, Approved, NEW r \in Requests, Ask(r) \/ Handle(r) \/ VanishRequest(r)
  PROVE  Approved'
<1>1. UNCHANGED <<attempts, usage, writes>>
  BY DEF Ask, Handle, queueRun, retryRun, stopRun, enqueueAgentRun, retryClearsStop,
         retryReopens, requestStop, stopClosesPending, VanishRequest
<1>2. UNCHANGED row \/ \E s : row' = [row EXCEPT !.status = s]
  BY DEF Ask, Handle, queueRun, retryRun, stopRun, enqueueAgentRun, retryClearsStop,
         retryReopens, requestStop, stopClosesPending, VanishRequest
<1>3. UNCHANGED used \/ \E b \in {"retries", "stops", "vanished"} : Use(b)
  BY DEF Ask, Handle, queueRun, retryRun, stopRun, enqueueAgentRun, retryClearsStop,
         retryReopens, requestStop, stopClosesPending, VanishRequest
<1>4. SameVersion /\ row'.checkpoint = row.checkpoint
  BY <1>2, RowKept
<1>5. Answers' = Answers
  BY <1>3, AnswersKept DEF Bounds
<1>6. QED
  BY <1>1, <1>4, <1>5, ApprovedStays

\* An attempt starts with what the checkpoint holds, or with a person's answer.
LEMMA ApprovedStarts ==
  ASSUME Typed, Typed', Approved, NEW a \in Attempts,
         prepare(a) \/ resume(a) \/ \E j \in JobIds : pickUp(a, j)
  PROVE  Approved'
<1>1. Answers \in Nat /\ Question \in Nat /\ ToolLoop \in BOOLEAN
  BY AnswersType, VersionType DEF Typed
<1>2. row.checkpoint \in Checkpoint(Len(Flow)) /\ Empty \in Checkpoint(Len(Flow))
      /\ Saved(row.checkpoint, Question, Answers, ToolLoop)
  BY IdleType DEF Typed, RowOK, Approved
<1>3. SameVersion /\ row'.checkpoint = row.checkpoint /\ UNCHANGED <<usage, writes>>
  BY RowKept DEF prepare, resume, pickUp
<1>4. CASE prepare(a)
  <2> DEFINE e == Prepared(Empty, NoJob)
  <2>1. e.answered = FALSE /\ e.step = 0 /\ e.pc = "prepared"
    BY DEF Prepared, Attempt, Empty
  <2>2. attempts' = [attempts EXCEPT ![a] = e] /\ Answers' = Answers
    BY <1>4, AnswersKept DEF prepare
  <2> HIDE DEF e
  <2>3. Passed(e, Question, Answers') /\ ~Ticket(e, Question)
    BY <1>1, <2>1 DEF Passed, Ticket
  <2>4. Saved(row'.checkpoint, Question, Answers', ToolLoop)
        /\ Answers' >= Answers /\ usage' \ usage = {}
    BY <1>1, <1>2, <1>3, <2>2
  <2>5. QED
    BY <1>3, <2>2, <2>3, <2>4, ApprovedBy
<1>5. CASE resume(a)
  <2> DEFINE e == [Prepared(row.checkpoint, NoJob) EXCEPT !.answered = TRUE]
  <2>1. e.pc = "prepared"
    BY DEF Prepared, Attempt
  <2>2. attempts' = [attempts EXCEPT ![a] = e] /\ Answers' = Answers + 1
    BY <1>5, UseType DEF resume, Answers, Bounds, Typed
  <2> HIDE DEF e
  <2>3. Passed(e, Question, Answers') /\ Answers' >= Answers /\ usage' \ usage = {}
    BY <1>1, <1>3, <2>1, <2>2 DEF Passed
  <2>4. Saved(row'.checkpoint, Question, Answers', ToolLoop)
    BY <1>3, <2>3, SavedLater
  <2>5. QED
    BY <1>3, <2>2, <2>3, <2>4, ApprovedBy
<1>6. ASSUME NEW j \in JobIds, pickUp(a, j), row.status \in PICKUP_STATUSES PROVE Approved'
  <2> DEFINE e == Prepared(row.checkpoint, j)
  <2>1. e.answered = row.checkpoint.answered /\ e.step = row.checkpoint.step
        /\ e.pc = "prepared"
    BY DEF Prepared, Attempt
  <2>2. attempts' = [attempts EXCEPT ![a] = e] /\ Answers' = Answers
    BY <1>6, AnswersKept DEF pickUp
  <2> HIDE DEF e
  <2>3. Passed(e, Question, Answers')
    BY <1>2, <2>1, <2>2 DEF Passed, Saved
  <2>4. Saved(row'.checkpoint, Question, Answers', ToolLoop)
        /\ Answers' >= Answers /\ usage' \ usage = {}
    BY <1>1, <1>2, <1>3, <2>2
  <2>5. CASE ToolLoop
    <3>1. ~Ticket(e, Question)
      BY <1>2, <2>1, <2>5 DEF Ticket, Saved
    <3>2. QED
      BY <1>3, <2>2, <2>3, <2>4, <3>1, ApprovedBy
  <2>6. CASE ~ToolLoop
    BY <1>3, <2>2, <2>3, <2>4, <2>6, ApprovedBy
  <2>7. QED
    BY <1>1, <2>5, <2>6
<1>7. ASSUME NEW j \in JobIds, pickUp(a, j), row.status \notin PICKUP_STATUSES
      PROVE  Approved'
  BY <1>3, <1>7, AnswersKept, ApprovedStays DEF pickUp
<1>8. QED
  BY <1>4, <1>5, <1>6, <1>7

\* A step that is done: what it was behind stays behind, and a ticket it used
\* stays used.
LEMMA ApprovedSettle ==
  ASSUME Typed, Typed', Approved, NEW a \in Attempts, Settle(a),
         attempts[a].pc = "in_step", UNCHANGED <<usage, writes>>, Answers' = Answers
  PROVE  Approved'
<1> DEFINE x == attempts[a]
           e == [x EXCEPT !.pc = "between", !.step = x.step + 1]
<1>1. x \in AttemptState(Len(Flow), Tries) /\ x.step \in Nat /\ x.answered \in BOOLEAN
  BY ExecutionType, VersionType DEF AttemptState, Typed
<1>2. e.answered = x.answered /\ e.step = x.step + 1 /\ e.pc = "between"
  BY <1>1 DEF AttemptState
<1>3. attempts' = [attempts EXCEPT ![a] = e] /\ row' = [row EXCEPT !.checkpoint = snapshot(e)]
  BY DEF Settle
<1>4. e \in AttemptState(Len(Flow), Tries)
  <2>1. attempts[a] \in Execution /\ x.step < Len(Flow)
    BY ExecutionType DEF Execution, Executions
  <2>2. x.step + 1 \in 0..Len(Flow)
    BY <1>1, <2>1, VersionType DEF Typed
  <2>3. QED
    BY <1>1, <2>2 DEF AttemptState
<1>5. snapshot(e).step \in {0, e.step} /\ snapshot(e).answered = (~ToolLoop /\ e.answered)
  BY <1>4, SnapshotType DEF Typed
<1>6. SameVersion /\ row'.checkpoint = snapshot(e)
  BY <1>3 DEF SameVersion, Typed, RowOK
<1>7. Question \in Nat /\ Answers \in Nat /\ Passed(x, Question, Answers)
  BY VersionType, AnswersType DEF Typed, Approved
<1> HIDE DEF e
<1>8. Question # 0 /\ e.step >= Question => Answers > 0
  <2>1. Question # 0 /\ x.step >= Question => Answers > 0
    BY <1>7 DEF Passed
  <2>2. x.step + 1 = Question => Answers > 0
    BY <1>7 DEF Passed
  <2>3. QED
    BY <1>1, <1>2, <1>7, <2>1, <2>2
<1>9. Passed(e, Question, Answers')
  BY <1>2, <1>7, <1>8 DEF Passed
<1>10. Saved(row'.checkpoint, Question, Answers', ToolLoop)
  <2>1. snapshot(e).answered => e.answered /\ ~ToolLoop
    BY <1>5
  <2>2. Question # 0 /\ snapshot(e).step >= Question => Answers > 0
    BY <1>5, <1>7, <1>8
  <2>3. QED
    BY <1>2, <1>6, <1>7, <2>1, <2>2 DEF Saved, Passed
<1>11. Ticket(e, Question) => Ticket(x, Question)
  BY <1>1, <1>2, <1>7 DEF Ticket, Live
<1>12. Answers' >= Answers /\ writes' = writes /\ usage' \ usage = {}
  BY <1>7
<1>13. QED
  BY <1>3, <1>6, <1>9, <1>10, <1>11, <1>12, ApprovedBy

\* An execution that is over is behind nothing it was not behind before.
LEMMA ApprovedLeave ==
  ASSUME Typed, Typed', Approved, NEW a \in Attempts, NEW end, Leave(a, end),
         UNCHANGED <<row, usage, writes>>, Answers' = Answers
  PROVE  Approved'
<1> DEFINE e == [attempts[a] EXCEPT !.pc = "ended", !.end = end]
<1>1. e.answered = attempts[a].answered /\ e.step = attempts[a].step /\ e.pc = "ended"
  BY ExecutionType DEF AttemptState
<1>2. attempts' = [attempts EXCEPT ![a] = e]
  BY DEF Leave
<1> HIDE DEF e
<1>3. SameVersion /\ row'.checkpoint = row.checkpoint
  BY RowKept
<1>4. QED
  BY <1>1, <1>2, <1>3, ApprovedOnward DEF Live

LEMMA ApprovedPc ==
  ASSUME Typed, Typed', Approved, SameVersion, NEW a \in Attempts,
         NEW pc \in {"claimed", "between", "closed"},
         pc = "claimed" => attempts[a].pc = "prepared",
         pc = "between" => attempts[a].pc = "claimed",
         attempts' = [attempts EXCEPT ![a].pc = pc],
         row'.checkpoint = row.checkpoint, UNCHANGED <<usage, writes>>, Answers' = Answers
  PROVE  Approved'
<1> DEFINE e == [attempts[a] EXCEPT !.pc = pc]
<1>1. e.answered = attempts[a].answered /\ e.step = attempts[a].step /\ e.pc = pc
  BY ExecutionType DEF AttemptState
<1>2. attempts' = [attempts EXCEPT ![a] = e]
  OBVIOUS
<1> HIDE DEF e
<1>3. QED
  BY <1>1, <1>2, ApprovedOnward DEF Live

\* A refusal, a death or a failure uses no answer and gives none.
LEMMA ApprovedFailures ==
  ASSUME Typed, Typed', Approved, NEW a \in Attempts, GoesWrong(a)
  PROVE  Approved'
<1>1. Answers' = Answers /\ UNCHANGED <<usage, writes>>
  <2>1. \E b \in {"failures", "crashes", "stalls", "vanished"} : Use(b)
    BY DEF GoesWrong, Refuse, Crash, Stall, VanishAttempt, loseCredential, timeOut, stepFails
  <2>2. UNCHANGED <<usage, writes>>
    BY DEF GoesWrong, Refuse, Crash, Stall, VanishAttempt, loseCredential, timeOut, stepFails
  <2>3. QED
    BY <2>1, <2>2, AnswersKept DEF Bounds
<1>2. CASE Refuse(a) \/ Crash(a) \/ VanishAttempt(a) \/ loseCredential(a)
  <2>1. attempts' = [attempts EXCEPT ![a] = IdleAttempt]
    BY <1>2 DEF Refuse, Crash, VanishAttempt, loseCredential
  <2>2. SameVersion /\ row'.checkpoint = row.checkpoint
    BY <1>2, RowKept DEF Refuse, Crash, VanishAttempt, loseCredential
  <2>3. QED
    BY <1>1, <2>1, <2>2, ApprovedOnward
<1>3. CASE Stall(a)
  <2> DEFINE e == [attempts[a] EXCEPT !.holds = FALSE]
  <2>1. e.answered = attempts[a].answered /\ e.step = attempts[a].step
        /\ e.pc = attempts[a].pc
    BY ExecutionType DEF AttemptState
  <2>2. attempts' = [attempts EXCEPT ![a] = e]
    BY <1>3 DEF Stall
  <2> HIDE DEF e
  <2>3. SameVersion /\ row'.checkpoint = row.checkpoint
    BY <1>3, RowKept DEF Stall
  <2>4. QED
    BY <1>1, <2>1, <2>2, <2>3, ApprovedOnward
<1>4. CASE timeOut(a)
  BY <1>1, <1>4, ApprovedLeave DEF timeOut
<1>5. CASE stepFails(a)
  <2>1. ASSUME NEW c, UNCHANGED row,
               attempts' = [attempts EXCEPT ![a] =
                 [attempts[a] EXCEPT !.try = @ + 1, !.call = 0, !.calls = c]]
        PROVE  Approved'
    <3> DEFINE e == [attempts[a] EXCEPT !.try = attempts[a].try + 1, !.call = 0, !.calls = c]
    <3>1. e.answered = attempts[a].answered /\ e.step = attempts[a].step
          /\ e.pc = attempts[a].pc
      BY ExecutionType DEF AttemptState
    <3>2. attempts' = [attempts EXCEPT ![a] = e]
      BY <2>1
    <3> HIDE DEF e
    <3>3. SameVersion /\ row'.checkpoint = row.checkpoint
      BY <2>1, RowKept
    <3>4. QED
      BY <1>1, <3>1, <3>2, <3>3, ApprovedOnward
  <2>2. CASE Settle(a)
    BY <1>1, <1>5, <2>2, ApprovedSettle DEF stepFails
  <2>3. CASE Leave(a, "failed") /\ UNCHANGED row
    BY <1>1, <2>3, ApprovedLeave
  <2>4. QED
    BY <1>5, <2>1, <2>2, <2>3 DEF stepFails
<1>6. QED
  BY <1>2, <1>3, <1>4, <1>5 DEF GoesWrong

\* The step that the question guards starts on an answer, and uses it.
LEMMA ApprovedEnter ==
  ASSUME Typed, Typed', Approved, NEW a \in Attempts, enterStep(a)
  PROVE  Approved'
<1> DEFINE x == attempts[a]
<1>1. x \in AttemptState(Len(Flow), Tries) /\ x.step \in Nat /\ x.answered \in BOOLEAN
  BY ExecutionType, VersionType DEF AttemptState, Typed
<1>2. Question \in Nat /\ Answers \in Nat /\ Passed(x, Question, Answers)
  BY VersionType, AnswersType DEF Typed, Approved
<1>3. SameVersion /\ row'.checkpoint = row.checkpoint /\ Answers' = Answers
      /\ usage' = usage /\ UNCHANGED row
  BY RowKept, AnswersKept DEF enterStep
<1>4. CASE x.step + 1 = Question /\ ~x.answered
  BY <1>3, <1>4, ApprovedLeave DEF enterStep
<1>5. CASE ~(x.step + 1 = Question /\ ~x.answered)
  <2>1. PICK c \in Flow[x.step + 1] :
          attempts' = [attempts EXCEPT ![a] =
            [x EXCEPT !.pc = "in_step", !.try = 1, !.call = 0, !.calls = c]]
    BY <1>5 DEF enterStep
  <2> DEFINE e == [x EXCEPT !.pc = "in_step", !.try = 1, !.call = 0, !.calls = c]
  <2>2. e.answered = x.answered /\ e.step = x.step /\ e.pc = "in_step"
    BY <1>1 DEF AttemptState
  <2>3. attempts' = [attempts EXCEPT ![a] = e]
    BY <2>1
  <2>4. x.pc = "between"
    BY DEF enterStep
  <2> HIDE DEF e
  <2>5. Passed(e, Question, Answers')
    BY <1>2, <1>3, <1>5, <2>2 DEF Passed
  <2>6. Saved(row'.checkpoint, Question, Answers', ToolLoop)
        /\ Answers' >= Answers /\ usage' \ usage = {}
    BY <1>2, <1>3, SavedLater
  <2>7. CASE x.step + 1 = Question
    <3>1. writes' = writes + 1
      BY <1>5, <2>7 DEF enterStep
    <3>2. Ticket(x, Question) /\ ~Ticket(e, Question)
      BY <1>1, <1>2, <1>5, <2>2, <2>4, <2>7 DEF Ticket, Live
    <3>3. QED
      BY <1>3, <2>3, <2>5, <2>6, <3>1, <3>2, ApprovedBy
  <2>8. CASE x.step + 1 # Question
    <3>1. writes' = writes
      BY <1>5, <2>8 DEF enterStep
    <3>2. Ticket(e, Question) => Ticket(x, Question)
      BY <2>2, <2>4, <2>8 DEF Ticket, Live
    <3>3. QED
      BY <1>3, <2>3, <2>5, <2>6, <3>1, <3>2, ApprovedBy
  <2>9. QED
    BY <2>7, <2>8
<1>6. QED
  BY <1>4, <1>5

\* What is billed behind the question is billed by an execution behind it.
LEMMA ApprovedCharge ==
  ASSUME Typed, Typed', Approved, NEW a \in Attempts, charge(a)
  PROVE  Approved'
<1> DEFINE x == attempts[a]
           work == [step |-> x.step + 1, try |-> x.try, call |-> x.call + 1]
           applied == \E u \in usage : u.seq = x.seq
           credits == IF applied THEN x.credits ELSE x.credits + 1
           exhausted == x.exhausted \/ credits >= Ceiling
           e == [x EXCEPT !.call = x.call + 1, !.seq = x.seq + 1, !.credits = credits,
                          !.exhausted = exhausted]
<1>1. x \in AttemptState(Len(Flow), Tries) /\ x.step \in Nat
  BY ExecutionType, VersionType DEF AttemptState, Typed
<1>2. Question \in Nat /\ Answers \in Nat /\ Passed(x, Question, Answers)
  BY VersionType, AnswersType DEF Typed, Approved
<1>3. SameVersion /\ row'.checkpoint = row.checkpoint /\ Answers' = Answers
      /\ writes' = writes
  BY RowKept, AnswersKept DEF charge
<1>4. attempts' = [attempts EXCEPT ![a] = e]
  BY DEF charge
<1>5. usage' \subseteq usage \cup {[seq |-> x.seq, work |-> work]}
  BY DEF charge
<1> HIDE DEF credits, exhausted, applied
<1>6. e.answered = x.answered /\ e.step = x.step /\ e.pc = x.pc
  BY <1>1 DEF AttemptState
<1> HIDE DEF e
<1>7. Passed(e, Question, Answers') /\ (Ticket(e, Question) => Ticket(x, Question))
  BY <1>2, <1>3, <1>6 DEF Passed, Ticket
<1>8. Saved(row'.checkpoint, Question, Answers', ToolLoop) /\ Answers' >= Answers
  BY <1>2, <1>3, SavedLater
<1>9. ASSUME NEW u \in usage' \ usage, Question # 0, u.work.step > Question
      PROVE  Answers' > 0
  <2>1. u.work.step = x.step + 1
    BY <1>5, <1>9
  <2>2. x.step >= Question
    BY <1>1, <1>2, <1>9, <2>1
  <2>3. QED
    BY <1>2, <1>3, <1>9, <2>2 DEF Passed
<1>10. QED
  BY <1>3, <1>4, <1>7, <1>8, <1>9, ApprovedBy

\* What an attempt leaves when it closes is what it knew.
LEMMA ApprovedPersist ==
  ASSUME Typed, Typed', Approved, NEW a \in Attempts, persist(a)
  PROVE  Approved'
<1> DEFINE x == attempts[a]
           e == [x EXCEPT !.pc = "closed"]
<1>1. x \in AttemptState(Len(Flow), Tries) /\ x.step \in Nat
  BY ExecutionType, VersionType DEF AttemptState, Typed
<1>2. Question \in Nat /\ Answers \in Nat /\ Passed(x, Question, Answers)
  BY VersionType, AnswersType DEF Typed, Approved
<1>3. e.answered = x.answered /\ e.step = x.step /\ e.pc = "closed"
  BY <1>1 DEF AttemptState
<1>4. attempts' = [attempts EXCEPT ![a] = e] /\ UNCHANGED <<usage, writes>> /\ Answers' = Answers
  BY AnswersKept DEF persist
<1> HIDE DEF e
<1>5. \E s : row' = [row EXCEPT !.status = s, !.checkpoint = snapshot(x)]
  BY DEF persist
<1>6. SameVersion /\ row'.checkpoint = snapshot(x)
  BY <1>5 DEF SameVersion, Typed, RowOK
<1>7. snapshot(x).step \in {0, x.step} /\ snapshot(x).answered = (~ToolLoop /\ x.answered)
  BY <1>1, SnapshotType DEF Typed
<1>8. Passed(e, Question, Answers') /\ ~Ticket(e, Question)
  BY <1>2, <1>3, <1>4 DEF Passed, Ticket, Live
<1>9. Saved(row'.checkpoint, Question, Answers', ToolLoop)
  <2>1. snapshot(x).answered => x.answered /\ ~ToolLoop
    BY <1>7
  <2>2. Question # 0 /\ snapshot(x).step >= Question => Answers > 0
    BY <1>2, <1>7 DEF Passed
  <2>3. QED
    BY <1>2, <1>4, <1>6, <2>1, <2>2 DEF Saved, Passed
<1>10. Answers' >= Answers /\ writes' = writes /\ usage' \ usage = {}
  BY <1>2, <1>4
<1>11. QED
  BY <1>4, <1>6, <1>8, <1>9, <1>10, ApprovedBy

LEMMA ApprovedExecution ==
  ASSUME Typed, Typed', Approved, NEW a \in Attempts, Execute(a)
  PROVE  Approved'
<1>1. CASE startAttempt(a)
  <2>1. SameVersion /\ row'.checkpoint = row.checkpoint
    BY <1>1 DEF startAttempt, SameVersion, Typed, RowOK
  <2>2. QED
    BY <1>1, <2>1, AnswersKept, ApprovedPc DEF startAttempt
<1>2. CASE findCredential(a)
  BY <1>2, RowKept, AnswersKept, ApprovedPc DEF findCredential
<1>3. CASE stopBetween(a)
  BY <1>3, AnswersKept, ApprovedLeave DEF stopBetween
<1>4. CASE enterStep(a)
  BY <1>4, ApprovedEnter
<1>5. CASE charge(a)
  BY <1>5, ApprovedCharge
<1>6. CASE checkpointRun(a)
  BY <1>6, AnswersKept, ApprovedSettle DEF checkpointRun
<1>7. CASE finish(a)
  BY <1>7, AnswersKept, ApprovedLeave DEF finish
<1>8. CASE decide(a)
  <2> DEFINE end == CASE attempts[a].end = "asked" -> "asked"
                      [] attempts[a].end # "asked" /\ stopFlag -> "stopped"
                      [] attempts[a].end # "asked" /\ ~stopFlag
                         /\ (attempts[a].end = "timed_out" \/ attempts[a].exhausted) -> "failed"
                      [] OTHER -> attempts[a].end
             e == [attempts[a] EXCEPT !.pc = "closing", !.end = end]
  <2>1. /\ attempts' = [attempts EXCEPT ![a] = e] /\ e.pc = "closing"
        /\ e.answered = attempts[a].answered /\ e.step = attempts[a].step
    <3>1. attempts' = [attempts EXCEPT ![a] = e]
      BY <1>8 DEF decide
    <3> HIDE DEF end
    <3>2. e.pc = "closing" /\ e.answered = attempts[a].answered /\ e.step = attempts[a].step
      BY ExecutionType DEF AttemptState
    <3>3. QED
      BY <3>1, <3>2
  <2> HIDE DEF e
  <2>2. SameVersion /\ row'.checkpoint = row.checkpoint /\ Answers' = Answers
        /\ UNCHANGED <<usage, writes>>
    BY <1>8, RowKept, AnswersKept DEF decide
  <2>3. QED
    BY <2>1, <2>2, ApprovedOnward DEF Live
<1>9. CASE persist(a)
  BY <1>9, ApprovedPersist
<1>10. CASE clearStop(a)
  <2>1. attempts' = [attempts EXCEPT ![a] = IdleAttempt]
    BY <1>10 DEF clearStop
  <2>2. SameVersion /\ row'.checkpoint = row.checkpoint /\ Answers' = Answers
        /\ UNCHANGED <<usage, writes>>
    BY <1>10, RowKept, AnswersKept DEF clearStop
  <2>3. QED
    BY <2>1, <2>2, ApprovedOnward
<1>11. QED
  BY <1>1, <1>2, <1>3, <1>4, <1>5, <1>6, <1>7, <1>8, <1>9, <1>10 DEF Execute

LEMMA ApprovedInit == Init => Approved
<1> SUFFICES ASSUME Init PROVE Approved
  OBVIOUS
<1>1. Typed
  BY TypedInit
<1>2. Question \in Nat /\ Answers \in Nat
  BY <1>1, VersionType, AnswersType DEF Typed
<1>3. row.checkpoint = Empty /\ \A a \in Attempts : attempts[a] = IdleAttempt
  BY DEF Init
<1>4. Tickets = {}
  BY <1>3 DEF Tickets, Ticket, IdleAttempt, Attempt, Empty
<1>5. writes + Cardinality(Tickets) <= Answers
  BY <1>2, <1>4, FS_EmptySet DEF Init
<1>6. AskedFirst
  BY DEF Init, AskedFirst
<1>7. Saved(row.checkpoint, Question, Answers, ToolLoop)
  BY <1>2, <1>3 DEF Saved, Empty
<1>8. \A a \in Attempts : Passed(attempts[a], Question, Answers)
  BY <1>2, <1>3 DEF Passed, IdleAttempt, Attempt, Empty
<1>9. QED
  BY <1>5, <1>6, <1>7, <1>8 DEF Approved

LEMMA ApprovedStep == Typed /\ Typed' /\ Approved /\ [Next]_vars => Approved'
<1> SUFFICES ASSUME Typed, Typed', Approved, [Next]_vars PROVE Approved'
  OBVIOUS
<1>1. ASSUME stopExpires \/ UNCHANGED vars PROVE Approved'
  <2>1. UNCHANGED <<row, attempts, usage, writes, used>>
    BY <1>1 DEF stopExpires, vars
  <2>2. QED
    BY <2>1, RowKept, AnswersKept, ApprovedStays
<1>2. QED
  BY <1>1, ApprovedRequests, ApprovedStarts, ApprovedFailures, ApprovedExecution DEF Next

LEMMA ApprovedHolds == Typed /\ Approved => ApprovalsHold
<1> SUFFICES ASSUME Typed, Approved PROVE ApprovalsHold
  OBVIOUS
<1>1. IsFiniteSet(Tickets)
  BY AttemptsAssumption, FS_Subset DEF Tickets
<1>2. Cardinality(Tickets) \in Nat
  BY <1>1, FS_CardinalityType
<1>3. writes \in Nat /\ Answers \in Nat
  BY AnswersType DEF Typed
<1>4. ToolLoop => writes <= Answers
  BY <1>2, <1>3 DEF Approved
<1>5. QED
  BY <1>4 DEF ApprovalsHold, WritesAreApproved, Approved, Answers

\* Nothing behind a question is billed before a person answered, and in a tool
\* loop each answer executes one write at most: however many attempts, retries,
\* stalled jobs and deaths there are (runner.ts, resume and runSingle).
THEOREM WritesNeedApproval == Spec => []ApprovalsHold
<1>1. Init => Typed /\ Approved
  BY TypedInit, ApprovedInit
<1>2. Typed /\ Approved /\ [Next]_vars => Typed' /\ Approved'
  BY TypedStep, ApprovedStep
<1>3. Typed /\ Approved => ApprovalsHold
  BY ApprovedHolds
<1>4. QED
  BY <1>1, <1>2, <1>3, PTL DEF Spec

-----------------------------------------------------------------------------
(* One attempt at a time.                                                  *)
Over == {"idle", "closed"}
AllOver == \A a \in Attempts : attempts[a].pc \in Over
OnlyOne ==
  \A a, b \in Attempts : attempts[a] # IdleAttempt /\ attempts[b] # IdleAttempt => a = b

\* An execution that got through the flow is at its end.
ReachedEnd(e, steps) ==
  e.pc \in {"ended", "closing"} /\ e.end = "finished" => e.step = steps

\* A run that nobody stops ended with its attempt, and one person at most is
\* about to reopen it, on the status it still has.
Retrying == {"clear", "reopen"}
Undisturbed ==
  /\ row.status \in Ended => AllOver
  /\ \A r \in Requests : requests[r].pc \notin {"flag", "close"}
  /\ used.times["retries"] <= 1 =>
       /\ \A r \in Requests : requests[r].pc \in Retrying =>
            row.status \in RETRYABLE_STATUSES /\ used.times["retries"] = 1
       /\ \A r, s \in Requests :
            requests[r].pc \in Retrying /\ requests[s].pc \in Retrying => r = s

Lone ==
  /\ \A a \in Attempts : ReachedEnd(attempts[a], Len(Flow))
  /\ OneAtATime =>
       /\ OnlyOne
       /\ row.status = "succeeded" =>
            AllOver /\ (~ToolLoop => row.checkpoint.step = Len(Flow))
       /\ ~Happened("stops") => Undisturbed

\* An event that is neither a stop nor a retry.
LEMMA CountsKept ==
  ASSUME Typed, UNCHANGED used \/ \E b \in Bounds \ {"stops", "retries"} : Use(b)
  PROVE  /\ used'.slots = used.slots
         /\ used'.times["stops"] = used.times["stops"]
         /\ used'.times["retries"] = used.times["retries"]
BY UseType DEF Typed, Bounds

\* The attempt that runs goes on; what it does to the row, it does while it is
\* not over.
LEMMA LoneBy ==
  ASSUME Typed, Typed', Lone, SameVersion, NEW a \in Attempts, NEW e,
         attempts' = [attempts EXCEPT ![a] = e], ReachedEnd(e, Len(Flow)),
         attempts[a] # IdleAttempt, UNCHANGED requests,
         used'.slots = used.slots, used'.times["stops"] = used.times["stops"],
         used'.times["retries"] = used.times["retries"],
         \/ /\ row'.status = row.status /\ row'.checkpoint = row.checkpoint
            /\ attempts[a].pc \in Over => e.pc \in Over
         \/ /\ attempts[a].pc \notin Over
            /\ row'.status # row.status /\ row'.status \in Ended => e.pc \in Over
            /\ row'.status # row.status /\ row'.status = "succeeded" /\ ~ToolLoop =>
                 row'.checkpoint.step = Len(Flow)
  PROVE  Lone'
<1>1. Len(Flow)' = Len(Flow) /\ ToolLoop' = ToolLoop
      /\ OneAtATime' = OneAtATime /\ Happened("stops")' = Happened("stops")
  BY SameQuestion DEF OneAtATime, Happened
<1>2. attempts'[a] = e /\ \A b \in Attempts : b # a => attempts'[b] = attempts[b]
  BY DEF Typed, AttemptsOK
<1>3. \A b \in Attempts : ReachedEnd(attempts'[b], Len(Flow)')
  BY <1>1, <1>2 DEF Lone
<1>4. ASSUME OneAtATime
      PROVE  /\ OnlyOne'
             /\ row'.status = "succeeded" =>
                  AllOver' /\ (~ToolLoop' => row'.checkpoint.step = Len(Flow)')
             /\ ~Happened("stops")' => Undisturbed'
  <2>1. OnlyOne /\ \A b \in Attempts : b # a => attempts[b] = IdleAttempt
    BY <1>4 DEF Lone, OnlyOne
  <2>2. OnlyOne'
    BY <1>2, <2>1 DEF OnlyOne
  <2>3. e.pc \in Over => AllOver'
    BY <1>2, <2>1 DEF AllOver, IdleAttempt, Attempt, Over
  <2>4. AllOver => attempts[a].pc \in Over
    BY DEF AllOver
  <2>5. row'.status = "succeeded" =>
          AllOver' /\ (~ToolLoop' => row'.checkpoint.step = Len(Flow)')
    <3>1. row.status = "succeeded" =>
            attempts[a].pc \in Over /\ (~ToolLoop => row.checkpoint.step = Len(Flow))
      BY <1>4, <2>4 DEF Lone
    <3>2. QED
      BY <1>1, <2>3, <3>1 DEF Ended
  <2>6. ASSUME ~Happened("stops") PROVE Undisturbed'
    <3>1. Undisturbed
      BY <1>4, <2>6 DEF Lone
    <3>2. row'.status \in Ended => AllOver'
      BY <2>3, <2>4, <3>1 DEF Undisturbed
    <3>3. \A r \in Requests : requests'[r].pc \notin {"flag", "close"}
      BY <3>1 DEF Undisturbed
    <3>4. ASSUME used.times["retries"] <= 1, NEW r \in Requests, requests[r].pc \in Retrying
          PROVE  row'.status \in RETRYABLE_STATUSES
      <4>1. row.status \in RETRYABLE_STATUSES
        BY <3>1, <3>4 DEF Undisturbed
      <4>2. attempts[a].pc \in Over
        BY <2>4, <3>1, <4>1 DEF Undisturbed, RETRYABLE_STATUSES, Ended
      <4>3. QED
        BY <4>1, <4>2
    <3>5. used'.times["retries"] <= 1 =>
            /\ \A r \in Requests : requests'[r].pc \in Retrying =>
                 row'.status \in RETRYABLE_STATUSES /\ used'.times["retries"] = 1
            /\ \A r, s \in Requests :
                 requests'[r].pc \in Retrying /\ requests'[s].pc \in Retrying => r = s
      BY <3>1, <3>4 DEF Undisturbed
    <3>6. QED
      BY <3>2, <3>3, <3>5 DEF Undisturbed
  <2>7. QED
    BY <1>1, <2>2, <2>5, <2>6
<1>5. QED
  BY <1>1, <1>3, <1>4 DEF Lone

\* An attempt starts on a run that has not ended, where there is room for it.
LEMMA LoneStarts ==
  ASSUME Typed, Typed', Lone, NEW a \in Attempts,
         prepare(a) \/ resume(a) \/ \E j \in JobIds : pickUp(a, j)
  PROVE  Lone'
<1>1. CASE UNCHANGED attempts
  <2>1. UNCHANGED <<row, requests, attempts, used>>
    <3>1. prepare(a) => FALSE
      <4>1. ASSUME prepare(a) PROVE attempts'[a].pc = "prepared" /\ attempts[a].pc = "idle"
        BY <4>1 DEF prepare, Free, Prepared, IdleAttempt, Attempt, Typed, AttemptsOK
      <4>2. QED
        BY <1>1, <4>1
    <3>2. resume(a) => FALSE
      <4>1. ASSUME resume(a) PROVE attempts'[a].pc = "prepared" /\ attempts[a].pc = "idle"
        BY <4>1 DEF resume, Free, Prepared, IdleAttempt, Attempt, Typed, AttemptsOK
      <4>2. QED
        BY <1>1, <4>1
    <3>3. QED
      BY <1>1, <3>1, <3>2 DEF pickUp
  <2>2. QED
    BY <2>1 DEF Lone, OneAtATime, OnlyOne, AllOver, Undisturbed, Happened, ToolLoop, Flow
<1>2. CASE attempts' # attempts
  <2>1. PICK e : attempts' = [attempts EXCEPT ![a] = e] /\ e.pc = "prepared"
    <3>1. CASE prepare(a)
      <4>1. Prepared(Empty, NoJob).pc = "prepared"
        BY DEF Prepared, Attempt
      <4>2. QED
        BY <3>1, <4>1 DEF prepare
    <3>2. CASE resume(a)
      <4> DEFINE e == [Prepared(row.checkpoint, NoJob) EXCEPT !.answered = TRUE]
      <4>1. e.pc = "prepared"
        BY DEF Prepared, Attempt
      <4>2. QED
        BY <3>2, <4>1 DEF resume
    <3>3. ASSUME NEW j \in JobIds, pickUp(a, j)
          PROVE  \E e : attempts' = [attempts EXCEPT ![a] = e] /\ e.pc = "prepared"
      <4>1. Prepared(row.checkpoint, j).pc = "prepared"
        BY DEF Prepared, Attempt
      <4>2. attempts' = [attempts EXCEPT ![a] = Prepared(row.checkpoint, j)]
        BY <1>2, <3>3 DEF pickUp
      <4>3. QED
        BY <4>1, <4>2
    <3>4. QED
      BY <3>1, <3>2, <3>3
  <2>2. /\ UNCHANGED requests /\ row.status \notin Ended /\ row'.status \notin Ended
        /\ SameVersion
    <3>1. CASE prepare(a)
      <4>1. row'.status = "pending" /\ row.status = "none"
        BY <3>1 DEF prepare, Typed, RowOK
      <4>2. QED
        BY <3>1, <4>1, RowKept DEF prepare, Ended
    <3>2. CASE resume(a)
      BY <3>2, RowKept DEF resume, Ended
    <3>3. ASSUME NEW j \in JobIds, pickUp(a, j)
          PROVE  /\ UNCHANGED requests /\ row.status \notin Ended /\ row'.status \notin Ended
                 /\ SameVersion
      BY <1>2, <3>3, RowKept DEF pickUp, Ended, PICKUP_STATUSES
    <3>4. QED
      BY <3>1, <3>2, <3>3
  <2>3. /\ used'.slots = used.slots /\ used'.times["stops"] = used.times["stops"]
        /\ used'.times["retries"] = used.times["retries"]
    BY CountsKept DEF prepare, resume, pickUp, Bounds
  <2>4. Len(Flow)' = Len(Flow) /\ OneAtATime' = OneAtATime
        /\ Happened("stops")' = Happened("stops")
    BY <2>2, <2>3, SameQuestion DEF OneAtATime, Happened
  <2>5. attempts'[a] = e /\ \A b \in Attempts : b # a => attempts'[b] = attempts[b]
    BY <2>1 DEF Typed, AttemptsOK
  <2>6. \A b \in Attempts : ReachedEnd(attempts'[b], Len(Flow)')
    BY <2>1, <2>4, <2>5 DEF Lone, ReachedEnd
  <2>7. ASSUME OneAtATime PROVE OnlyOne'
    <3> DEFINE busy == {b \in Attempts : attempts[b] # IdleAttempt}
    <3>1. Cardinality(busy) < 1 /\ IsFiniteSet(busy)
      BY <2>7, AttemptsAssumption, FS_Subset DEF prepare, resume, pickUp, Free, OneAtATime
    <3>2. busy = {}
      <4>1. Cardinality(busy) \in Nat
        BY <3>1, FS_CardinalityType
      <4>2. Cardinality(busy) = 0
        BY <3>1, <4>1
      <4>3. QED
        BY <3>1, <4>2, FS_EmptySet
    <3>3. QED
      BY <2>5, <3>2 DEF OnlyOne
  <2>8. ASSUME OneAtATime, ~Happened("stops") PROVE Undisturbed'
    <3>1. Undisturbed
      BY <2>8 DEF Lone
    <3>2. used.times["retries"] <= 1 => \A r \in Requests : requests[r].pc \notin Retrying
      BY <2>2, <3>1 DEF Undisturbed, RETRYABLE_STATUSES, Ended
    <3>3. QED
      BY <2>2, <2>3, <3>1, <3>2 DEF Undisturbed
  <2>9. row'.status # "succeeded"
    BY <2>2 DEF Ended
  <2>10. QED
    BY <2>4, <2>6, <2>7, <2>8, <2>9 DEF Lone
<1>3. QED
  BY <1>1, <1>2

\* The requests, which execute nothing.
LEMMA LoneRequest ==
  ASSUME Typed, Lone, SameVersion, UNCHANGED attempts, row'.checkpoint = row.checkpoint,
         used'.slots = used.slots, ~Happened("stops")' => ~Happened("stops"),
         row'.status = "succeeded" => row.status = "succeeded",
         OneAtATime /\ ~Happened("stops")' /\ Undisturbed => Undisturbed'
  PROVE  Lone'
<1>1. Len(Flow)' = Len(Flow) /\ ToolLoop' = ToolLoop /\ OneAtATime' = OneAtATime
      /\ OnlyOne' = OnlyOne /\ AllOver' = AllOver
  BY SameQuestion DEF OneAtATime, OnlyOne, AllOver
<1>2. QED
  BY <1>1 DEF Lone

LEMMA LoneRequests ==
  ASSUME Typed, Typed', Lone, NEW r \in Requests, Ask(r) \/ Handle(r) \/ VanishRequest(r)
  PROVE  Lone'
<1>1. /\ UNCHANGED attempts
      /\ UNCHANGED row \/ \E s : row' = [row EXCEPT !.status = s]
  BY DEF Ask, Handle, queueRun, retryRun, stopRun, enqueueAgentRun, retryClearsStop,
         retryReopens, requestStop, stopClosesPending, VanishRequest
<1>2. SameVersion /\ row'.checkpoint = row.checkpoint /\ AllOver' = AllOver
  BY <1>1, RowKept DEF AllOver
<1>3. \A q \in Requests : q # r => requests'[q] = requests[q]
  BY DEF Typed, RequestsOK, Ask, Handle, queueRun, retryRun, stopRun, enqueueAgentRun,
         retryClearsStop, retryReopens, requestStop, stopClosesPending, VanishRequest
<1>4. used.times["stops"] \in Nat /\ used.times["retries"] \in Nat
  BY DEF Typed, UsedOK, Bounds
<1>5. CASE queueRun(r)
  <2>1. row.status = "none" /\ row'.status = "pending" /\ requests'[r].pc = "enqueue"
        /\ UNCHANGED used
    BY <1>5 DEF queueRun, Typed, RowOK, RequestsOK
  <2>2. Undisturbed => Undisturbed'
    BY <1>3, <2>1 DEF Undisturbed, Ended, RETRYABLE_STATUSES, Retrying
  <2>3. QED
    BY <1>1, <1>2, <2>1, <2>2, LoneRequest DEF Happened
<1>6. CASE retryRun(r)
  <2>1. row.status \in RETRYABLE_STATUSES /\ UNCHANGED row /\ requests'[r].pc = "clear"
    BY <1>6 DEF retryRun, Typed, RequestsOK
  <2>2. /\ used'.slots = used.slots /\ used'.times["stops"] = used.times["stops"]
        /\ used'.times["retries"] = used.times["retries"] + 1
    BY <1>6, UseType DEF retryRun, Typed, Bounds
  <2>3. ASSUME Undisturbed PROVE Undisturbed'
    <3>1. ASSUME used'.times["retries"] <= 1
          PROVE  /\ used'.times["retries"] = 1
                 /\ \A q \in Requests : requests[q].pc \notin Retrying
      BY <1>4, <2>2, <2>3, <3>1 DEF Undisturbed
    <3>2. QED
      BY <1>2, <1>3, <2>1, <2>3, <3>1 DEF Undisturbed, Retrying
  <2>4. QED
    BY <1>1, <1>2, <2>1, <2>2, <2>3, LoneRequest DEF Happened
<1>7. CASE stopRun(r)
  <2>1. /\ used'.slots = used.slots /\ used'.times["stops"] = used.times["stops"] + 1
        /\ UNCHANGED row
    BY <1>7, UseType DEF stopRun, Typed, Bounds
  <2>2. Happened("stops")'
    BY <1>4, <2>1 DEF Happened
  <2>3. QED
    BY <1>1, <1>2, <2>1, <2>2, LoneRequest
<1>8. CASE enqueueAgentRun(r) \/ VanishRequest(r)
  <2>1. /\ UNCHANGED row /\ requests'[r].pc = "idle"
        /\ used'.slots = used.slots /\ used'.times["stops"] = used.times["stops"]
        /\ used'.times["retries"] = used.times["retries"]
    BY <1>8, CountsKept DEF enqueueAgentRun, VanishRequest, Typed, RequestsOK, IdleRequest, Bounds
  <2>2. Undisturbed => Undisturbed'
    BY <1>2, <1>3, <2>1 DEF Undisturbed, Retrying
  <2>3. QED
    BY <1>1, <1>2, <2>1, <2>2, LoneRequest DEF Happened
<1>9. CASE retryClearsStop(r)
  <2>1. UNCHANGED <<row, used>> /\ requests[r].pc = "clear" /\ requests'[r].pc = "reopen"
    BY <1>9 DEF retryClearsStop, Typed, RequestsOK
  <2>2. Undisturbed => Undisturbed'
    BY <1>2, <1>3, <2>1 DEF Undisturbed, Retrying
  <2>3. QED
    BY <1>1, <1>2, <2>1, <2>2, LoneRequest DEF Happened
<1>10. CASE retryReopens(r)
  <2>1. UNCHANGED used /\ requests[r].pc = "reopen" /\ requests'[r].pc = "enqueue"
        /\ row'.status = "pending"
    BY <1>10 DEF retryReopens, Typed, RequestsOK, RowOK
  <2>2. Undisturbed => Undisturbed'
    BY <1>3, <2>1 DEF Undisturbed, Retrying, Ended
  <2>3. QED
    BY <1>1, <1>2, <2>1, <2>2, LoneRequest DEF Happened
<1>11. CASE requestStop(r) \/ stopClosesPending(r)
  <2>1. requests[r].pc \in {"flag", "close"} /\ UNCHANGED used
        /\ row'.status \in {row.status, "stopped"}
    BY <1>11 DEF requestStop, stopClosesPending, Typed, RowOK
  <2>2. ~Undisturbed
    BY <2>1 DEF Undisturbed
  <2>3. QED
    BY <1>1, <1>2, <2>1, <2>2, LoneRequest DEF Happened
<1>12. QED
  BY <1>5, <1>6, <1>7, <1>8, <1>9, <1>10, <1>11 DEF Ask, Handle

\* An execution that leaves the flow, and one that dies.
LEMMA LoneLeave ==
  ASSUME Typed, Typed', Lone, NEW a \in Attempts, NEW end, Leave(a, end),
         attempts[a].pc \in {"between", "in_step"},
         end = "finished" => attempts[a].step = Len(Flow),
         UNCHANGED <<row, requests>>, used'.slots = used.slots,
         used'.times["stops"] = used.times["stops"],
         used'.times["retries"] = used.times["retries"]
  PROVE  Lone'
<1> DEFINE e == [attempts[a] EXCEPT !.pc = "ended", !.end = end]
<1>1. e.step = attempts[a].step /\ e.pc = "ended" /\ e.end = end
  BY ExecutionType DEF AttemptState
<1>2. attempts' = [attempts EXCEPT ![a] = e]
  BY DEF Leave
<1> HIDE DEF e
<1>3. SameVersion /\ attempts[a] # IdleAttempt /\ attempts[a].pc \notin Over
  BY RowKept DEF IdleAttempt, Attempt, Over
<1>4. ReachedEnd(e, Len(Flow))
  BY <1>1 DEF ReachedEnd
<1>5. QED
  BY <1>2, <1>3, <1>4, LoneBy

LEMMA LoneIdle ==
  ASSUME Typed, Typed', Lone, SameVersion, NEW a \in Attempts,
         attempts' = [attempts EXCEPT ![a] = IdleAttempt], attempts[a].pc # "idle",
         row'.checkpoint = row.checkpoint,
         \/ row'.status = row.status
         \/ attempts[a].pc = "prepared" /\ row'.status # "succeeded",
         UNCHANGED requests, used'.slots = used.slots,
         used'.times["stops"] = used.times["stops"],
         used'.times["retries"] = used.times["retries"]
  PROVE  Lone'
<1>1. IdleAttempt.pc \in Over /\ attempts[a] # IdleAttempt
  BY DEF IdleAttempt, Attempt, Over
<1>2. ReachedEnd(IdleAttempt, Len(Flow))
  BY DEF IdleAttempt, Attempt, ReachedEnd
<1>3. attempts[a].pc = "prepared" => attempts[a].pc \notin Over
  BY DEF Over
<1>4. QED
  BY <1>1, <1>2, <1>3, LoneBy

\* An execution that goes on, as it is about the end of the flow.
LEMMA LoneOnward ==
  ASSUME Typed, Typed', Lone, SameVersion, NEW a \in Attempts, NEW e,
         attempts' = [attempts EXCEPT ![a] = e], attempts[a].pc # "idle",
         ReachedEnd(e, Len(Flow)),
         e.pc = attempts[a].pc \/ attempts[a].pc \notin Over,
         row'.status = row.status, row'.checkpoint = row.checkpoint,
         UNCHANGED requests, used'.slots = used.slots,
         used'.times["stops"] = used.times["stops"],
         used'.times["retries"] = used.times["retries"]
  PROVE  Lone'
<1>1. attempts[a] # IdleAttempt
  BY DEF IdleAttempt, Attempt
<1>2. QED
  BY <1>1, LoneBy

LEMMA LoneSettle ==
  ASSUME Typed, Typed', Lone, NEW a \in Attempts, Settle(a), attempts[a].pc = "in_step",
         UNCHANGED requests, used'.slots = used.slots,
         used'.times["stops"] = used.times["stops"],
         used'.times["retries"] = used.times["retries"]
  PROVE  Lone'
<1> DEFINE e == [attempts[a] EXCEPT !.pc = "between", !.step = attempts[a].step + 1]
<1>1. attempts' = [attempts EXCEPT ![a] = e] /\ e.pc = "between"
  BY ExecutionType DEF Settle, AttemptState
<1>2. row'.status = row.status /\ SameVersion
  BY DEF Settle, Typed, RowOK, SameVersion
<1> HIDE DEF e
<1>3. ReachedEnd(e, Len(Flow)) /\ attempts[a] # IdleAttempt /\ attempts[a].pc \notin Over
  BY <1>1 DEF ReachedEnd, IdleAttempt, Attempt, Over
<1>4. QED
  BY <1>1, <1>2, <1>3, LoneBy

LEMMA LoneFailures ==
  ASSUME Typed, Typed', Lone, NEW a \in Attempts, GoesWrong(a)
  PROVE  Lone'
<1>1. /\ UNCHANGED requests /\ used'.slots = used.slots
      /\ used'.times["stops"] = used.times["stops"]
      /\ used'.times["retries"] = used.times["retries"]
  <2>1. \E b \in {"failures", "crashes", "stalls", "vanished"} : Use(b)
    BY DEF GoesWrong, Refuse, Crash, Stall, VanishAttempt, loseCredential, timeOut, stepFails
  <2>2. UNCHANGED requests
    BY DEF GoesWrong, Refuse, Crash, Stall, VanishAttempt, loseCredential, timeOut, stepFails
  <2>3. QED
    BY <2>1, <2>2, CountsKept DEF Bounds
<1>2. CASE Refuse(a)
  <2>1. SameVersion /\ row'.checkpoint = row.checkpoint
    BY <1>2, RowKept DEF Refuse
  <2>2. row'.status \in {row.status, "failed"} /\ attempts[a].pc = "prepared"
    BY <1>2 DEF Refuse, Typed, RowOK
  <2>3. attempts' = [attempts EXCEPT ![a] = IdleAttempt]
    BY <1>2 DEF Refuse
  <2>4. \/ row'.status = row.status
        \/ attempts[a].pc = "prepared" /\ row'.status # "succeeded"
    BY <2>2
  <2>5. QED
    BY <1>1, <2>1, <2>2, <2>3, <2>4, LoneIdle, Zenon
<1>3. CASE Crash(a) \/ VanishAttempt(a) \/ loseCredential(a)
  <2>1. attempts' = [attempts EXCEPT ![a] = IdleAttempt] /\ UNCHANGED row
        /\ attempts[a].pc # "idle"
    BY <1>3 DEF Crash, VanishAttempt, loseCredential
  <2>2. QED
    <3>1. SameVersion /\ row'.checkpoint = row.checkpoint /\ row'.status = row.status
      BY <2>1, RowKept
    <3>2. QED
      BY <1>1, <2>1, <3>1, LoneIdle, Zenon
<1>4. CASE Stall(a)
  <2> DEFINE e == [attempts[a] EXCEPT !.holds = FALSE]
  <2>1. e.step = attempts[a].step /\ e.pc = attempts[a].pc /\ e.end = attempts[a].end
    BY ExecutionType DEF AttemptState
  <2>2. attempts' = [attempts EXCEPT ![a] = e] /\ UNCHANGED row /\ attempts[a].pc # "idle"
    BY <1>4 DEF Stall
  <2> HIDE DEF e
  <2>3. ReachedEnd(e, Len(Flow))
    BY <2>1 DEF Lone, ReachedEnd
  <2>4. QED
    BY <1>1, <2>1, <2>2, <2>3, RowKept, LoneOnward
<1>5. CASE timeOut(a)
  BY <1>1, <1>5, LoneLeave DEF timeOut
<1>6. CASE stepFails(a)
  <2>1. ASSUME NEW c, UNCHANGED row,
               attempts' = [attempts EXCEPT ![a] =
                 [attempts[a] EXCEPT !.try = @ + 1, !.call = 0, !.calls = c]]
        PROVE  Lone'
    <3> DEFINE e == [attempts[a] EXCEPT !.try = attempts[a].try + 1, !.call = 0, !.calls = c]
    <3>1. e.pc = attempts[a].pc /\ attempts[a].pc = "in_step"
      BY <1>6, ExecutionType DEF AttemptState, stepFails
    <3>2. attempts' = [attempts EXCEPT ![a] = e]
      BY <2>1
    <3> HIDE DEF e
    <3>3. ReachedEnd(e, Len(Flow))
      BY <3>1 DEF ReachedEnd
    <3>4. QED
      BY <1>1, <2>1, <3>1, <3>2, <3>3, RowKept, LoneOnward
  <2>2. CASE Settle(a)
    BY <1>1, <1>6, <2>2, LoneSettle DEF stepFails
  <2>3. CASE Leave(a, "failed") /\ UNCHANGED row
    BY <1>1, <1>6, <2>3, LoneLeave DEF stepFails
  <2>4. QED
    BY <1>6, <2>1, <2>2, <2>3 DEF stepFails
<1>7. QED
  BY <1>2, <1>3, <1>4, <1>5, <1>6 DEF GoesWrong

\* The outcome is written by the attempt that runs; a flow that succeeded is at
\* its end.
LEMMA LonePersist ==
  ASSUME Typed, Typed', Lone, NEW a \in Attempts, persist(a),
         used'.slots = used.slots, used'.times["stops"] = used.times["stops"],
         used'.times["retries"] = used.times["retries"]
  PROVE  Lone'
<1> DEFINE x == attempts[a]
           e == [x EXCEPT !.pc = "closed"]
<1>1. x \in AttemptState(Len(Flow), Tries) /\ x \in Execution
  BY ExecutionType
<1>2. attempts' = [attempts EXCEPT ![a] = e] /\ e.pc = "closed" /\ UNCHANGED requests
  BY <1>1 DEF persist, AttemptState
<1>3. PICK status \in Outcome(x.end) :
        row' = [row EXCEPT !.status = status, !.checkpoint = snapshot(x)]
  BY DEF persist
<1>4. SameVersion /\ row'.checkpoint = snapshot(x) /\ row'.status = status
  BY <1>3 DEF SameVersion, Typed, RowOK
<1>5. status = "succeeded" => x.end = "finished"
  <2>1. x.end \in Closings
    BY <1>1 DEF persist, Execution, Executions
  <2>2. QED
    BY <1>3, <2>1 DEF Outcome, Closings
<1>6. x.end = "finished" => x.step = Len(Flow)
  BY DEF Lone, ReachedEnd, persist
<1>7. ~ToolLoop => snapshot(x).step = x.step
  BY DEF snapshot
<1> HIDE DEF e
<1>8. ReachedEnd(e, Len(Flow)) /\ e.pc \in Over
  BY <1>2 DEF ReachedEnd, Over
<1>9. x # IdleAttempt /\ x.pc \notin Over
  BY DEF persist, IdleAttempt, Attempt, Over
<1>10. QED
  BY <1>2, <1>4, <1>5, <1>6, <1>7, <1>8, <1>9, LoneBy

LEMMA LoneExecution ==
  ASSUME Typed, Typed', Lone, NEW a \in Attempts, Execute(a)
  PROVE  Lone'
<1> DEFINE x == attempts[a]
<1>1. x \in AttemptState(Len(Flow), Tries)
  BY ExecutionType
<1>2. /\ UNCHANGED <<requests, used>>
      /\ used'.slots = used.slots /\ used'.times["stops"] = used.times["stops"]
      /\ used'.times["retries"] = used.times["retries"]
  BY DEF Execute, startAttempt, findCredential, stopBetween, enterStep, charge,
         checkpointRun, finish, decide, persist, clearStop
<1>3. CASE startAttempt(a)
  <2> DEFINE e == [x EXCEPT !.pc = "claimed"]
  <2>1. attempts' = [attempts EXCEPT ![a] = e] /\ e.pc = "claimed" /\ x.pc = "prepared"
    BY <1>1, <1>3 DEF startAttempt, AttemptState
  <2>2. row'.status = "running" /\ row'.checkpoint = row.checkpoint /\ SameVersion
    BY <1>3 DEF startAttempt, Typed, RowOK, SameVersion
  <2> HIDE DEF e
  <2>3. ReachedEnd(e, Len(Flow)) /\ x # IdleAttempt /\ x.pc \notin Over
        /\ row'.status \notin Ended /\ row'.status # "succeeded"
    BY <2>1, <2>2 DEF ReachedEnd, IdleAttempt, Attempt, Over, Ended
  <2>4. QED
    BY <1>2, <2>1, <2>2, <2>3, LoneBy
<1>4. CASE findCredential(a)
  <2> DEFINE e == [x EXCEPT !.pc = "between"]
  <2>1. attempts' = [attempts EXCEPT ![a] = e] /\ e.pc = "between" /\ x.pc = "claimed"
        /\ UNCHANGED row
    BY <1>1, <1>4 DEF findCredential, AttemptState
  <2> HIDE DEF e
  <2>2. ReachedEnd(e, Len(Flow)) /\ x.pc \notin Over
    BY <2>1 DEF ReachedEnd, Over
  <2>3. QED
    BY <1>2, <2>1, <2>2, RowKept, LoneOnward
<1>5. CASE stopBetween(a)
  BY <1>2, <1>5, LoneLeave DEF stopBetween
<1>6. CASE enterStep(a)
  <2>1. x.pc = "between" /\ UNCHANGED row
    BY <1>6 DEF enterStep
  <2>2. CASE Leave(a, "asked")
    BY <1>2, <2>1, <2>2, LoneLeave
  <2>3. ASSUME NEW c, attempts' = [attempts EXCEPT ![a] =
                 [x EXCEPT !.pc = "in_step", !.try = 1, !.call = 0, !.calls = c]]
        PROVE  Lone'
    <3> DEFINE e == [x EXCEPT !.pc = "in_step", !.try = 1, !.call = 0, !.calls = c]
    <3>1. e.pc = "in_step" /\ attempts' = [attempts EXCEPT ![a] = e]
      BY <1>1, <2>3 DEF AttemptState
    <3> HIDE DEF e
    <3>2. ReachedEnd(e, Len(Flow)) /\ x.pc \notin Over
      BY <2>1, <3>1 DEF ReachedEnd, Over
    <3>3. QED
      BY <1>2, <2>1, <3>1, <3>2, RowKept, LoneOnward
  <2>4. QED
    BY <1>6, <2>2, <2>3 DEF enterStep
<1>7. CASE charge(a)
  <2> DEFINE applied == \E u \in usage : u.seq = x.seq
             credits == IF applied THEN x.credits ELSE x.credits + 1
             exhausted == x.exhausted \/ credits >= Ceiling
             e == [x EXCEPT !.call = x.call + 1, !.seq = x.seq + 1, !.credits = credits,
                            !.exhausted = exhausted]
  <2>1. attempts' = [attempts EXCEPT ![a] = e] /\ x.pc = "in_step" /\ UNCHANGED row
    BY <1>7 DEF charge
  <2> HIDE DEF credits, exhausted, applied
  <2>2. e.pc = "in_step"
    BY <1>1, <2>1 DEF AttemptState
  <2> HIDE DEF e
  <2>3. ReachedEnd(e, Len(Flow)) /\ x.pc \notin Over
    BY <2>1, <2>2 DEF ReachedEnd, Over
  <2>4. QED
    BY <1>2, <2>1, <2>3, RowKept, LoneOnward
<1>8. CASE checkpointRun(a)
  BY <1>2, <1>8, LoneSettle DEF checkpointRun
<1>9. CASE finish(a)
  BY <1>2, <1>9, LoneLeave DEF finish
<1>10. CASE decide(a)
  <2> DEFINE end == CASE x.end = "asked" -> "asked"
                      [] x.end # "asked" /\ stopFlag -> "stopped"
                      [] x.end # "asked" /\ ~stopFlag
                         /\ (x.end = "timed_out" \/ x.exhausted) -> "failed"
                      [] OTHER -> x.end
             e == [x EXCEPT !.pc = "closing", !.end = end]
  <2>1. attempts' = [attempts EXCEPT ![a] = e] /\ x.pc = "ended" /\ UNCHANGED row
    BY <1>10 DEF decide
  <2>2. end = "finished" => x.end = "finished"
    OBVIOUS
  <2> HIDE DEF end
  <2>3. e.pc = "closing" /\ e.end = end /\ e.step = x.step
    BY <1>1 DEF AttemptState
  <2> HIDE DEF e
  <2>4. ReachedEnd(e, Len(Flow)) /\ x.pc \notin Over
    BY <2>1, <2>2, <2>3 DEF Lone, ReachedEnd, Over
  <2>5. QED
    BY <1>2, <2>1, <2>4, RowKept, LoneOnward
<1>11. CASE persist(a)
  BY <1>2, <1>11, LonePersist
<1>12. CASE clearStop(a)
  <2>1. attempts' = [attempts EXCEPT ![a] = IdleAttempt] /\ UNCHANGED row
        /\ attempts[a].pc # "idle"
    BY <1>12 DEF clearStop
  <2>2. QED
    <3>1. SameVersion /\ row'.checkpoint = row.checkpoint /\ row'.status = row.status
      BY <2>1, RowKept
    <3>2. QED
      BY <1>2, <2>1, <3>1, LoneIdle
<1>13. QED
  BY <1>3, <1>4, <1>5, <1>6, <1>7, <1>8, <1>9, <1>10, <1>11, <1>12 DEF Execute

LEMMA LoneInit == Init => Lone
<1> SUFFICES ASSUME Init PROVE Lone
  OBVIOUS
<1>1. row.status = "none" /\ \A a \in Attempts : attempts[a] = IdleAttempt
  BY DEF Init
<1>2. \A r \in Requests : requests[r].pc = "idle"
  BY DEF Init, IdleRequest
<1>3. \A a \in Attempts : ReachedEnd(attempts[a], Len(Flow))
  BY <1>1 DEF ReachedEnd, IdleAttempt, Attempt
<1>4. OnlyOne /\ Undisturbed
  BY <1>1, <1>2 DEF OnlyOne, Undisturbed, Ended, Retrying
<1>5. QED
  BY <1>1, <1>3, <1>4 DEF Lone

LEMMA LoneStep == Typed /\ Typed' /\ Lone /\ [Next]_vars => Lone'
<1> SUFFICES ASSUME Typed, Typed', Lone, [Next]_vars PROVE Lone'
  OBVIOUS
<1>1. ASSUME stopExpires \/ UNCHANGED vars PROVE Lone'
  <2>1. UNCHANGED <<row, attempts, requests, used>>
    BY <1>1 DEF stopExpires, vars
  <2>2. QED
    BY <2>1 DEF Lone, OneAtATime, OnlyOne, AllOver, Undisturbed, Happened, ToolLoop, Flow
<1>2. QED
  BY <1>1, LoneRequests, LoneStarts, LoneFailures, LoneExecution DEF Next

LEMMA LoneRunSucceeds == Lone => SucceededIsComplete
BY DEF Lone, SucceededIsComplete

\* What may change the status of a run that ended: its retry, and nothing an
\* attempt or the queue still has to do.
LEMMA EndedStep ==
  ASSUME Typed, Lone, [Next]_vars, OneAtATime, ~Happened("stops"),
         used.times["retries"] <= 1, row.status \in Ended, row'.status # row.status
  PROVE  row.status \in RETRYABLE_STATUSES /\ row'.status = "pending"
<1>1. Undisturbed /\ AllOver
  BY DEF Lone, Undisturbed
<1>2. ASSUME NEW r \in Requests, Ask(r) \/ Handle(r) \/ VanishRequest(r)
      PROVE  row.status \in RETRYABLE_STATUSES /\ row'.status = "pending"
  <2>1. CASE queueRun(r)
    BY <2>1 DEF queueRun, Ended
  <2>2. CASE retryReopens(r)
    <3>1. requests[r].pc \in Retrying /\ row'.status = "pending"
      BY <2>2 DEF retryReopens, Retrying, Typed, RowOK
    <3>2. QED
      BY <1>1, <3>1 DEF Undisturbed
  <2>3. CASE stopClosesPending(r)
    BY <1>1, <2>3 DEF stopClosesPending, Undisturbed
  <2>4. QED
    BY <1>2, <2>1, <2>2, <2>3
    DEF Ask, Handle, retryRun, stopRun, enqueueAgentRun, retryClearsStop, requestStop,
        VanishRequest
<1>3. ASSUME NEW a \in Attempts,
             \/ prepare(a) \/ resume(a) \/ Execute(a) \/ GoesWrong(a)
             \/ \E j \in JobIds : pickUp(a, j)
      PROVE  UNCHANGED row
  <2>1. attempts[a].pc \in {"idle", "closed"}
    BY <1>1 DEF AllOver, Over
  <2>2. row.status # "none"
    BY DEF Ended
  <2>3. CASE prepare(a) \/ resume(a) \/ \E j \in JobIds : pickUp(a, j)
    BY <2>2, <2>3 DEF prepare, resume, pickUp
  <2>4. CASE Execute(a)
    BY <2>1, <2>4 DEF Execute, startAttempt, findCredential, stopBetween, enterStep, charge,
                      checkpointRun, finish, decide, persist, clearStop
  <2>5. CASE GoesWrong(a)
    BY <2>1, <2>5 DEF GoesWrong, Refuse, Crash, Stall, VanishAttempt, loseCredential,
                      timeOut, stepFails
  <2>6. QED
    BY <1>3, <2>3, <2>4, <2>5
<1>4. ASSUME stopExpires \/ UNCHANGED vars PROVE UNCHANGED row
  BY <1>4 DEF stopExpires, vars
<1>5. QED
  BY <1>2, <1>3, <1>4 DEF Next

\* While one attempt at a time executes it, a flow that succeeded got to its end,
\* whatever died, stalled, was stopped or was retried on the way (runner.ts,
\* persist).
THEOREM SuccessIsComplete == Spec => []SucceededIsComplete
<1>1. Init => Typed /\ Lone
  BY TypedInit, LoneInit
<1>2. Typed /\ Lone /\ [Next]_vars => Typed' /\ Lone'
  BY TypedStep, LoneStep
<1>3. Lone => SucceededIsComplete
  BY LoneRunSucceeds
<1>4. QED
  BY <1>1, <1>2, <1>3, PTL DEF Spec

\* A run that ended stays as it ended until somebody retries it: what the queue
\* delivers again does nothing (agent.processor.ts, runAgent).
THEOREM EndedRunStays == Spec => EndedUntilRetried
<1>1. Init => Typed /\ Lone
  BY TypedInit, LoneInit
<1>2. Typed /\ Lone /\ [Next]_vars => Typed' /\ Lone'
  BY TypedStep, LoneStep
<1>3. Typed /\ Lone /\ [Next]_vars =>
        [(/\ OneAtATime /\ ~Happened("stops") /\ used.times["retries"] <= 1
          /\ row.status \in Ended /\ row'.status # row.status) =>
           row.status \in RETRYABLE_STATUSES /\ row'.status = "pending"]_vars
  BY EndedStep
<1>4. QED
  BY <1>1, <1>2, <1>3, PTL DEF Spec, EndedUntilRetried

-----------------------------------------------------------------------------
(* The books of a run.                                                     *)

Bill == Cardinality(usage)
Kept == row.checkpoint.credits

\* What the attempts before the n-th may have billed past the ceiling, or billed
\* and never kept.
Past(n) == (n - 1) * LargestStep

\* What an execution can have billed in the step it is in.
Billed(e) == (e.try - 1) * (MostCalls - 1) + e.call

\* The meter of the n-th attempt e, next to the bill and to the credits the
\* checkpoint keeps.
Metered(e, kept, bill, n) ==
  /\ e.pc \in {"prepared", "claimed", "between", "closed"} => kept = e.credits
  /\ e.pc \notin {"idle", "prepared"} => n >= 1 /\ bill <= e.credits + Past(n)
  /\ e.pc = "in_step" =>
       bill <= kept + Past(n) + Billed(e) /\ bill < Ceiling + Past(n) + Billed(e)
  /\ e.pc = "claimed" \/ (e.pc \in {"between", "in_step"} /\ ~e.exhausted) =>
       bill < Ceiling + Past(n)

\* A step makes no more calls than it said it would.
InCalls(e) == e.pc = "in_step" => e.call <= e.calls /\ e.calls <= MostCalls

NobodyDied == ~Happened("crashes") /\ ~Happened("vanished")
AllIdle == \A a \in Attempts : attempts[a] = IdleAttempt

Books ==
  /\ IsFiniteSet(usage) /\ Kept <= Bill
  /\ \A a \in Attempts : attempts[a].credits <= Bill /\ InCalls(attempts[a])
  /\ row.status = "none" => Kept = 0 /\ AllIdle
  /\ OneAtATime =>
       /\ Bill < Ceiling + Past(row.attempts + 1)
       /\ Bill <= Kept + Past(row.attempts + 1)
       /\ \A a \in Attempts : Metered(attempts[a], Kept, Bill, row.attempts)
       /\ NobodyDied =>
            /\ AllIdle => Kept = Bill
            /\ \A a \in Attempts : attempts[a] # IdleAttempt => attempts[a].credits = Bill

\* A set of numbers that has one has a least.
LEMMA Least ==
  ASSUME NEW T, T \subseteq Nat, T # {}
  PROVE  \E m \in T : \A n \in T : m <= n
<1>1. IsWellFoundedOn(OpToRel(<, Nat), Nat)
  BY NatLessThanWellFounded, Zenon
<1>2. PICK m \in T : \A n \in T : <<n, m>> \notin OpToRel(<, Nat)
  BY <1>1, WFMin, Zenon
<1>3. \A n \in T : ~(n < m)
  BY <1>2 DEF OpToRel
<1>4. QED
  BY <1>3

\* A finite one has a largest too: the one that the fewest are above.
Above(S, m) == {d \in S : ~(d <= m)}

LEMMA Largest ==
  ASSUME NEW S \in SUBSET Nat, IsFiniteSet(S), S # {}
  PROVE  \E m \in S : \A d \in S : d <= m
<1> DEFINE Sizes == {n \in Nat : \E m \in S : n = Cardinality(Above(S, m))}
<1>1. ASSUME NEW m \in S
      PROVE  IsFiniteSet(Above(S, m)) /\ Cardinality(Above(S, m)) \in Nat
  <2>1. Above(S, m) \in SUBSET S
    BY DEF Above
  <2>2. QED
    BY <2>1, FS_Subset, FS_CardinalityType
<1>2. Sizes \subseteq Nat /\ Sizes # {}
  <2>1. PICK m \in S : TRUE
    OBVIOUS
  <2>2. Cardinality(Above(S, m)) \in Sizes
    BY <1>1, <2>1
  <2>3. QED
    BY <2>2
<1>3. PICK m \in S : \A n \in S : Cardinality(Above(S, m)) <= Cardinality(Above(S, n))
  <2>1. PICK k \in Sizes : \A l \in Sizes : k <= l
    <3> HIDE DEF Sizes
    <3>1. QED
      BY <1>2, Least
  <2>2. QED
    BY <1>1, <2>1
<1>4. ASSUME NEW d \in S, ~(d <= m) PROVE FALSE
  <2>1. d \in Nat /\ m \in Nat /\ \A x \in S : x \in Nat
    BY <1>4
  <2>2. d \in Above(S, m) /\ Above(S, d) \subseteq Above(S, m) \ {d}
    <3>1. ASSUME NEW x \in S, ~(x <= d) PROVE x # d /\ ~(x <= m)
      BY <1>4, <2>1, <3>1
    <3>2. QED
      BY <1>4, <3>1 DEF Above
  <2>3. /\ IsFiniteSet(Above(S, m) \ {d})
        /\ Cardinality(Above(S, m) \ {d}) = Cardinality(Above(S, m)) - 1
    BY <1>1, <2>2, FS_RemoveElement
  <2>4. Cardinality(Above(S, d)) <= Cardinality(Above(S, m) \ {d})
    BY <2>2, <2>3, FS_Subset
  <2>5. Cardinality(Above(S, m)) <= Cardinality(Above(S, d))
    BY <1>3, <1>4
  <2>6. QED
    BY <1>1, <1>4, <2>3, <2>4, <2>5
<1>5. QED
  BY <1>4

\* Products of numbers.
LEMMA Product ==
  ASSUME NEW m \in Nat, NEW n \in Nat
  PROVE  m * n \in Nat /\ (m + 1) * n = m * n + n /\ 0 * n = 0 /\ 1 * n = n
OBVIOUS

LEMMA ProductGrows ==
  ASSUME NEW l \in Nat, NEW m \in Nat, l <= m, NEW n \in Nat
  PROVE  l * n <= m * n
<1>1. m - l \in Nat /\ m = l + (m - l)
  OBVIOUS
<1>2. m * n = l * n + (m - l) * n /\ (m - l) * n \in Nat /\ l * n \in Nat
  BY <1>1, Product
<1>3. QED
  BY <1>2

\* What one attempt may bill past the ceiling.
LEMMA LargestStepType ==
  ASSUME RowOK
  PROVE  /\ MostCalls \in Nat \ {0} /\ LargestStep \in Nat
         /\ \A n \in Steps : \A c \in Flow[n] : c <= MostCalls
<1> DEFINE counts == {1} \cup UNION {Flow[n] : n \in Steps}
<1>1. /\ Steps = 1..Len(Flow) /\ Len(Flow) \in Nat /\ Tries \in Nat \ {0}
      /\ \A n \in Steps : Flow[n] \subseteq Nat
  BY VersionType
<1>2. \A n \in Steps : IsFiniteSet(Flow[n])
  BY DEF RowOK, Versions, Flow, Steps
<1>3. IsFiniteSet(counts) /\ counts \subseteq Nat /\ 1 \in counts
  <2>1. IsFiniteSet(Steps)
    BY <1>1, FS_Interval
  <2>2. IsFiniteSet({Flow[n] : n \in Steps})
    <3>1. [n \in Steps |-> Flow[n]] \in Surjection(Steps, {Flow[n] : n \in Steps})
      BY DEF Surjection
    <3>2. QED
      BY <2>1, <3>1, FS_Surjection
  <2>3. IsFiniteSet(UNION {Flow[n] : n \in Steps})
    <3> DEFINE sets == {Flow[n] : n \in Steps}
    <3>1. \A T \in sets : IsFiniteSet(T)
      BY <1>2
    <3>2. IsFiniteSet(sets)
      BY <2>2
    <3> HIDE DEF sets
    <3>3. IsFiniteSet(UNION sets)
      BY <3>1, <3>2, FS_UNION
    <3>4. QED
      BY <3>3 DEF sets
  <2>4. IsFiniteSet({1})
    BY FS_Singleton
  <2>5. IsFiniteSet(counts)
    BY <2>3, <2>4, FS_Union
  <2>6. QED
    BY <1>1, <2>5
<1>4. MostCalls = CHOOSE c \in counts : \A d \in counts : d <= c
  BY DEF MostCalls
<1>5. MostCalls \in counts /\ \A d \in counts : d <= MostCalls
  <2> HIDE DEF counts
  <2>1. \E c \in counts : \A d \in counts : d <= c
    BY <1>3, Largest
  <2>2. QED
    BY <1>4, <2>1
<1>6. MostCalls \in Nat \ {0}
  <2>1. MostCalls \in Nat /\ 1 <= MostCalls
    BY <1>3, <1>5
  <2>2. QED
    BY <2>1
<1>7. \A n \in Steps : \A c \in Flow[n] : c <= MostCalls
  BY <1>5
<1>8. (Tries - 1) * (MostCalls - 1) \in Nat
  BY <1>1, <1>6, Product
<1>9. LargestStep \in Nat
  BY <1>6, <1>8 DEF LargestStep
<1>10. QED
  BY <1>6, <1>7, <1>9

\* What is past grows by one attempt's largest step at a time.
LEMMA PastGrows ==
  ASSUME RowOK
  PROVE  /\ \A n \in Nat : Past(n + 1) \in Nat
         /\ \A n \in Nat \ {0} : Past(n) \in Nat /\ Past(n + 1) = Past(n) + LargestStep
<1>1. LargestStep \in Nat
  BY LargestStepType
<1>2. ASSUME NEW n \in Nat PROVE Past(n + 1) = n * LargestStep /\ Past(n + 1) \in Nat
  <2>1. n + 1 - 1 = n
    OBVIOUS
  <2>2. Past(n + 1) = n * LargestStep
    BY <2>1 DEF Past
  <2>3. QED
    BY <1>1, <2>2, Product
<1>3. ASSUME NEW n \in Nat \ {0}
      PROVE  Past(n) \in Nat /\ Past(n + 1) = Past(n) + LargestStep
  <2>1. n - 1 \in Nat /\ n - 1 + 1 = n /\ n \in Nat
    OBVIOUS
  <2>2. Past(n) = (n - 1) * LargestStep
    BY DEF Past
  <2>3. n * LargestStep = (n - 1) * LargestStep + LargestStep
    <3> DEFINE k == n - 1
    <3>1. k \in Nat /\ n = k + 1
      BY <2>1
    <3> HIDE DEF k
    <3>2. (k + 1) * LargestStep = k * LargestStep + LargestStep
      BY <1>1, <3>1, Product
    <3>3. k = n - 1
      BY DEF k
    <3>4. QED
      BY <3>1, <3>2, <3>3
  <2>4. Past(n) \in Nat
    BY <1>1, <2>1, <2>2, Product
  <2>5. QED
    BY <1>2, <2>1, <2>2, <2>3, <2>4
<1>4. QED
  BY <1>2, <1>3

\* The step an execution is in bills no more than the largest can, and the next
\* try of it what the failed one could.
LEMMA BilledBounds ==
  ASSUME Typed, NEW a \in Attempts, attempts[a].pc = "in_step", InCalls(attempts[a])
  PROVE  /\ Billed(attempts[a]) \in Nat /\ Billed(attempts[a]) <= LargestStep
         /\ attempts[a].call \in Nat
         /\ attempts[a].call < attempts[a].calls =>
              Billed(attempts[a]) <= attempts[a].try * (MostCalls - 1)
<1> DEFINE e == attempts[a]
           m == MostCalls - 1
<1>1. e.try \in Nat \ {0} /\ e.try <= Tries /\ Tries \in Nat \ {0} /\ e.call \in Nat /\ e.calls \in Nat
  <2>1. Tries \in Nat \ {0}
    BY VersionType DEF Typed
  <2>2. QED
    BY <2>1, ExecutionType DEF AttemptState
<1>2. MostCalls \in Nat \ {0} /\ m \in Nat /\ MostCalls = m + 1
  BY LargestStepType DEF Typed
<1>3. e.call <= e.calls /\ e.calls <= MostCalls
  BY DEF InCalls
<1> DEFINE t == e.try - 1
<1>4. t \in Nat /\ e.try = t + 1 /\ t <= Tries - 1 /\ Tries - 1 \in Nat
  <2> HIDE DEF e
  <2>1. QED
    BY <1>1
<1>5. Billed(e) = t * m + e.call /\ LargestStep = (Tries - 1) * m + MostCalls
  BY DEF Billed, LargestStep
<1> HIDE DEF e, m, t
<1>6. t * m \in Nat /\ t * m <= (Tries - 1) * m /\ (Tries - 1) * m \in Nat
      /\ (t + 1) * m = t * m + m
  BY <1>2, <1>4, Product, ProductGrows
<1> DEFINE before == t * m
           most == (Tries - 1) * m
<1>7. /\ before \in Nat /\ most \in Nat /\ before <= most
      /\ Billed(e) = before + e.call /\ LargestStep = most + MostCalls
      /\ e.try * m = before + m
  BY <1>4, <1>5, <1>6
<1> HIDE DEF before, most
<1>8. Billed(e) \in Nat /\ Billed(e) <= LargestStep
  <2>1. e.call <= MostCalls /\ e.call \in Nat /\ MostCalls \in Nat
    BY <1>1, <1>2, <1>3
  <2>2. QED
    BY <1>7, <2>1
<1>9. e.call < e.calls => Billed(e) <= e.try * m
  <2>1. e.call < e.calls => e.call <= m
    BY <1>1, <1>2, <1>3
  <2>2. QED
    BY <1>1, <1>2, <1>7, <2>1
<1>10. QED
  BY <1>1, <1>8, <1>9 DEF e, m

LEMMA SameLimits ==
  ASSUME SameVersion
  PROVE  /\ Ceiling' = Ceiling /\ Tries' = Tries /\ Steps' = Steps
         /\ MostCalls' = MostCalls /\ LargestStep' = LargestStep
<1>1. Ceiling' = Ceiling /\ Tries' = Tries /\ Flow' = Flow /\ Steps' = Steps
  BY DEF SameVersion, Ceiling, Tries, Flow, Steps
<1>2. MostCalls' = MostCalls
  BY <1>1 DEF MostCalls
<1>3. QED
  BY <1>1, <1>2 DEF LargestStep

\* The quantities of the books are numbers.
LEMMA BookNumbers ==
  ASSUME Typed, IsFiniteSet(usage)
  PROVE  /\ Bill \in Nat /\ Kept \in Nat /\ row.attempts \in Nat /\ Ceiling \in Nat \ {0}
         /\ \A a \in Attempts : attempts[a].credits \in Nat
<1>1. row.attempts \in Nat /\ Kept \in Nat /\ Ceiling \in Nat \ {0}
  BY DEF Typed, RowOK, JobIds, Checkpoint, Kept, Ceiling, Versions
<1>2. \A a \in Attempts : attempts[a].credits \in Nat
  BY ExecutionType DEF AttemptState
<1>3. QED
  BY <1>1, <1>2, FS_CardinalityType DEF Bill

\* An execution starts, or the one that runs goes on: the books, by its meter.
LEMMA BooksBy ==
  ASSUME Typed, Typed', Books, SameVersion, NEW a \in Attempts, NEW e,
         attempts' = [attempts EXCEPT ![a] = e],
         OneAtATime => \A b \in Attempts : b # a => attempts[b] = IdleAttempt,
         IsFiniteSet(usage'), Bill <= Bill', e.credits <= Bill', Kept' <= Bill',
         InCalls(e), row'.status # "none",
         used'.slots = used.slots, NobodyDied' => NobodyDied,
         OneAtATime =>
           /\ Bill' < Ceiling + Past(row'.attempts + 1)
           /\ Bill' <= Kept' + Past(row'.attempts + 1)
           /\ Metered(e, Kept', Bill', row'.attempts),
         OneAtATime /\ NobodyDied' =>
           IF e = IdleAttempt THEN Kept' = Bill' ELSE e.credits = Bill'
  PROVE  Books'
<1>1. attempts'[a] = e /\ \A b \in Attempts : b # a => attempts'[b] = attempts[b]
  BY DEF Typed, AttemptsOK
<1>2. OneAtATime' = OneAtATime
  BY DEF OneAtATime
<1>3. Bill \in Nat /\ Bill' \in Nat
  BY BookNumbers, FS_CardinalityType DEF Books, Bill
<1>4. \A b \in Attempts : attempts'[b].credits <= Bill'
  <2>1. \A b \in Attempts : attempts[b].credits \in Nat /\ attempts[b].credits <= Bill
    BY BookNumbers DEF Books
  <2>2. QED
    BY <1>1, <1>3, <2>1
<1>5. \A b \in Attempts : InCalls(attempts[b])' = InCalls(attempts'[b])
  BY SameLimits DEF InCalls
<1>6. \A b \in Attempts : InCalls(attempts'[b])
  BY <1>1 DEF Books
<1>7. ASSUME OneAtATime
      PROVE  /\ (Bill < Ceiling + Past(row.attempts + 1))'
             /\ (Bill <= Kept + Past(row.attempts + 1))'
             /\ \A b \in Attempts : Metered(attempts[b], Kept, Bill, row.attempts)'
             /\ NobodyDied' =>
                  /\ AllIdle' => Kept' = Bill'
                  /\ \A b \in Attempts :
                       attempts'[b] # IdleAttempt => attempts'[b].credits = Bill'
  <2>1. Past(row.attempts + 1)' = Past(row'.attempts + 1)
    BY SameLimits DEF Past
  <2>2. \A b \in Attempts : b # a => attempts'[b] = IdleAttempt
    BY <1>1, <1>7
  <2>3. ASSUME NEW b \in Attempts
        PROVE  Metered(attempts[b], Kept, Bill, row.attempts)'
    <3>1. Metered(attempts'[b], Kept', Bill', row'.attempts)
      <4>1. Metered(IdleAttempt, Kept', Bill', row'.attempts)
        BY DEF Metered, IdleAttempt, Attempt
      <4>2. QED
        BY <1>1, <1>7, <2>2, <4>1
    <3>2. QED
      BY <3>1, SameLimits DEF Metered, Past, Billed
  <2>4. NobodyDied' =>
          /\ AllIdle' => Kept' = Bill'
          /\ \A b \in Attempts :
               attempts'[b] # IdleAttempt => attempts'[b].credits = Bill'
    <3>1. AllIdle' => e = IdleAttempt
      BY <1>1 DEF AllIdle
    <3>2. \A b \in Attempts : attempts'[b] # IdleAttempt => b = a
      BY <2>2
    <3>3. QED
      BY <1>1, <1>7, <3>1, <3>2
  <2>5. QED
    BY <1>7, <2>1, <2>3, <2>4, SameLimits
<1>8. QED
  BY <1>2, <1>4, <1>5, <1>6, <1>7 DEF Books

\* What changes neither executions nor bill.
LEMMA BooksStay ==
  ASSUME Typed, Books, SameVersion, UNCHANGED <<attempts, usage>>,
         Kept' = Kept, row'.attempts = row.attempts,
         row'.status = "none" => row.status = "none",
         used'.slots = used.slots, NobodyDied' => NobodyDied
  PROVE  Books'
<1>1. Bill' = Bill /\ OneAtATime' = OneAtATime /\ AllIdle' = AllIdle
  BY DEF Bill, OneAtATime, AllIdle
<1>2. Past(row.attempts + 1)' = Past(row.attempts + 1)
  BY SameLimits DEF Past
<1>3. \A a \in Attempts :
        /\ Metered(attempts[a], Kept, Bill, row.attempts)'
             <=> Metered(attempts[a], Kept, Bill, row.attempts)
        /\ InCalls(attempts[a])' <=> InCalls(attempts[a])
  BY <1>1, SameLimits DEF Metered, Past, Billed, InCalls
<1>4. QED
  BY <1>1, <1>2, <1>3, SameLimits DEF Books

\* The executions that are not this one.
LEMMA Alone ==
  ASSUME Lone, OneAtATime, NEW a \in Attempts, attempts[a] # IdleAttempt
  PROVE  \A b \in Attempts : b # a => attempts[b] = IdleAttempt
BY DEF Lone, OnlyOne

\* The execution that runs goes on or is over, and nothing is billed or kept.
LEMMA BooksOnward ==
  ASSUME Typed, Typed', Books, Lone, SameVersion, NEW a \in Attempts, NEW e,
         attempts' = [attempts EXCEPT ![a] = e], attempts[a].pc # "idle",
         UNCHANGED usage, Kept' = Kept, row'.attempts = row.attempts,
         row'.status = "none" => row.status = "none",
         used'.slots = used.slots, NobodyDied' => NobodyDied, InCalls(e),
         OneAtATime => Metered(e, Kept, Bill, row.attempts),
         \/ e.credits = attempts[a].credits /\ e # IdleAttempt
         \/ e = IdleAttempt /\ (OneAtATime /\ NobodyDied' => Kept = attempts[a].credits)
  PROVE  Books'
<1>1. attempts[a] # IdleAttempt
  BY DEF IdleAttempt, Attempt
<1>2. row'.status # "none" /\ Bill' = Bill /\ IsFiniteSet(usage')
  BY <1>1 DEF Books, AllIdle, Bill
<1>3. e.credits <= Bill' /\ Kept' <= Bill' /\ Bill <= Bill'
  <2>1. IdleAttempt.credits = 0
    BY DEF IdleAttempt, Attempt, Empty
  <2>2. Bill \in Nat /\ attempts[a].credits <= Bill /\ Kept <= Bill
    BY BookNumbers DEF Books
  <2>3. QED
    BY <1>2, <2>1, <2>2
<1>4. OneAtATime => \A b \in Attempts : b # a => attempts[b] = IdleAttempt
  BY <1>1, Alone
<1>5. OneAtATime =>
        /\ Bill' < Ceiling + Past(row'.attempts + 1)
        /\ Bill' <= Kept' + Past(row'.attempts + 1)
        /\ Metered(e, Kept', Bill', row'.attempts)
  BY <1>2 DEF Books
<1>6. OneAtATime /\ NobodyDied' =>
        IF e = IdleAttempt THEN Kept' = Bill' ELSE e.credits = Bill'
  BY <1>1, <1>2 DEF Books
<1>7. QED
  BY <1>2, <1>3, <1>4, <1>5, <1>6, BooksBy

\* Which deaths the counters show.
LEMMA DeathsKept ==
  ASSUME Typed, UNCHANGED used \/ \E b \in Bounds : Use(b)
  PROVE  used'.slots = used.slots /\ (NobodyDied' => NobodyDied)
<1>1. /\ used.times["crashes"] \in Nat /\ used.times["vanished"] \in Nat
  BY DEF Typed, UsedOK, Bounds
<1>2. ASSUME NEW b \in Bounds, Use(b)
      PROVE  /\ used'.slots = used.slots
             /\ used'.times["crashes"] \in {used.times["crashes"], used.times["crashes"] + 1}
             /\ used'.times["vanished"] \in {used.times["vanished"], used.times["vanished"] + 1}
  BY <1>1, <1>2, UseType DEF Typed, Bounds
<1>3. CASE UNCHANGED used
  BY <1>3 DEF NobodyDied, Happened
<1>4. ASSUME NEW b \in Bounds, Use(b)
      PROVE  used'.slots = used.slots /\ (NobodyDied' => NobodyDied)
  <2>1. /\ used'.times["crashes"] \in {used.times["crashes"], used.times["crashes"] + 1}
        /\ used'.times["vanished"] \in {used.times["vanished"], used.times["vanished"] + 1}
        /\ used'.slots = used.slots
    BY <1>2, <1>4
  <2>2. QED
    BY <1>1, <2>1 DEF NobodyDied, Happened
<1>5. QED
  BY <1>3, <1>4

LEMMA BooksRequests ==
  ASSUME Typed, Typed', Books, NEW r \in Requests, Ask(r) \/ Handle(r) \/ VanishRequest(r)
  PROVE  Books'
<1>1. /\ UNCHANGED <<attempts, usage>>
      /\ UNCHANGED row \/ \E s \in Statuses \ {"none"} : row' = [row EXCEPT !.status = s]
  BY DEF Statuses, Ask, Handle, queueRun, retryRun, stopRun, enqueueAgentRun,
         retryClearsStop, retryReopens, requestStop, stopClosesPending, VanishRequest
<1>2. SameVersion /\ Kept' = Kept
  BY <1>1, RowKept DEF Kept
<1>3. row'.attempts = row.attempts /\ (row'.status = "none" => row.status = "none")
  BY <1>1 DEF Typed, RowOK
<1>4. UNCHANGED used \/ \E b \in Bounds : Use(b)
  BY DEF Bounds, Ask, Handle, queueRun, retryRun, stopRun, enqueueAgentRun,
         retryClearsStop, retryReopens, requestStop, stopClosesPending, VanishRequest
<1>5. QED
  BY <1>1, <1>2, <1>3, <1>4, DeathsKept, BooksStay

\* Where there is room for one execution alone, nothing executes.
LEMMA FreeIsAlone ==
  ASSUME Typed, NEW a \in Attempts, Free(a), OneAtATime
  PROVE  AllIdle
<1> DEFINE busy == {b \in Attempts : attempts[b] # IdleAttempt}
<1>1. Cardinality(busy) < 1 /\ IsFiniteSet(busy)
  BY AttemptsAssumption, FS_Subset DEF Free, OneAtATime
<1>2. Cardinality(busy) = 0
  <2>1. Cardinality(busy) \in Nat
    BY <1>1, FS_CardinalityType
  <2>2. QED
    BY <1>1, <2>1
<1>3. busy = {}
  BY <1>1, <1>2, FS_EmptySet
<1>4. QED
  BY <1>3 DEF AllIdle

\* An execution starts from the checkpoint, with the credits that it keeps.
LEMMA BooksPrepared ==
  ASSUME Typed, Typed', Books, SameVersion, NEW a \in Attempts, NEW e, Free(a),
         attempts' = [attempts EXCEPT ![a] = e], e.pc = "prepared", e.credits = Kept,
         UNCHANGED usage, Kept' = Kept, row'.attempts = row.attempts, row'.status # "none",
         used'.slots = used.slots, NobodyDied' => NobodyDied
  PROVE  Books'
<1>1. OneAtATime => AllIdle
  BY FreeIsAlone
<1>2. Bill' = Bill /\ IsFiniteSet(usage') /\ Bill \in Nat /\ Kept <= Bill
  BY BookNumbers DEF Books, Bill
<1>3. e # IdleAttempt /\ InCalls(e)
  BY DEF IdleAttempt, Attempt, InCalls
<1>4. Metered(e, Kept, Bill, row.attempts)
  BY DEF Metered
<1>5. OneAtATime /\ NobodyDied' => e.credits = Bill'
  BY <1>1, <1>2 DEF Books
<1>6. OneAtATime =>
        /\ Bill' < Ceiling + Past(row'.attempts + 1)
        /\ Bill' <= Kept' + Past(row'.attempts + 1)
        /\ Metered(e, Kept', Bill', row'.attempts)
  BY <1>2, <1>4 DEF Books
<1>7. Bill <= Bill' /\ e.credits <= Bill' /\ Kept' <= Bill'
  BY <1>2
<1>8. OneAtATime => \A b \in Attempts : b # a => attempts[b] = IdleAttempt
  BY <1>1 DEF AllIdle
<1>9. QED
  BY <1>2, <1>3, <1>5, <1>6, <1>7, <1>8, BooksBy

LEMMA BooksStarts ==
  ASSUME Typed, Typed', Books, NEW a \in Attempts,
         prepare(a) \/ resume(a) \/ \E j \in JobIds : pickUp(a, j)
  PROVE  Books'
<1>1. used'.slots = used.slots /\ (NobodyDied' => NobodyDied)
  BY DeathsKept DEF prepare, resume, pickUp, Bounds
<1>2. CASE prepare(a)
  <2> DEFINE e == Prepared(Empty, NoJob)
  <2>1. e.pc = "prepared" /\ e.credits = 0
    BY DEF Prepared, Attempt, Empty
  <2>2. attempts' = [attempts EXCEPT ![a] = e] /\ Free(a) /\ UNCHANGED usage
    BY <1>2 DEF prepare
  <2>3. row'.status # "none" /\ row'.attempts = row.attempts
    BY <1>2 DEF prepare, Typed, RowOK
  <2>4. SameVersion /\ Kept' = Kept
    BY <1>2, RowKept DEF prepare, Kept
  <2>5. Kept = 0
    BY <1>2 DEF prepare, Books
  <2> HIDE DEF e
  <2>6. QED
    BY <1>1, <2>1, <2>2, <2>3, <2>4, <2>5, BooksPrepared
<1>3. CASE resume(a)
  <2> DEFINE p == Prepared(row.checkpoint, NoJob)
             e == [p EXCEPT !.answered = TRUE]
  <2>1. e.pc = "prepared" /\ e.credits = Kept
    BY DEF Prepared, Attempt, Kept
  <2>2. attempts' = [attempts EXCEPT ![a] = e] /\ Free(a) /\ UNCHANGED <<usage, row>>
        /\ row.status = "awaiting_input"
    BY <1>3 DEF resume
  <2> HIDE DEF e
  <2>3. SameVersion /\ Kept' = Kept /\ row'.status # "none" /\ row'.attempts = row.attempts
    BY <2>2, RowKept DEF Kept
  <2>4. QED
    BY <1>1, <2>1, <2>2, <2>3, BooksPrepared
<1>4. ASSUME NEW j \in JobIds, pickUp(a, j) PROVE Books'
  <2>1. UNCHANGED <<usage, row>> /\ Free(a)
    BY <1>4 DEF pickUp
  <2>2. SameVersion /\ Kept' = Kept /\ row'.attempts = row.attempts /\ row'.status = row.status
    BY <2>1, RowKept DEF Kept
  <2>3. CASE UNCHANGED attempts
    BY <1>1, <2>1, <2>2, <2>3, BooksStay
  <2>4. CASE row.status \in PICKUP_STATUSES
    <3> DEFINE e == Prepared(row.checkpoint, j)
    <3>1. e.pc = "prepared" /\ e.credits = Kept
      BY DEF Prepared, Attempt, Kept
    <3>2. attempts' = [attempts EXCEPT ![a] = e] /\ row'.status # "none"
      BY <1>4, <2>2, <2>4 DEF pickUp, PICKUP_STATUSES
    <3> HIDE DEF e
    <3>3. QED
      BY <1>1, <2>1, <2>2, <3>1, <3>2, BooksPrepared
  <2>5. QED
    BY <1>4, <2>3, <2>4 DEF pickUp
<1>5. QED
  BY <1>2, <1>3, <1>4

\* An execution that leaves the flow.
LEMMA BooksLeave ==
  ASSUME Typed, Typed', Books, Lone, NEW a \in Attempts, NEW end, Leave(a, end),
         attempts[a].pc \in {"between", "in_step"}, UNCHANGED <<row, usage>>,
         used'.slots = used.slots, NobodyDied' => NobodyDied
  PROVE  Books'
<1> DEFINE x == attempts[a]
           e == [x EXCEPT !.pc = "ended", !.end = end]
<1>1. e.pc = "ended" /\ e.credits = x.credits
  BY ExecutionType DEF AttemptState
<1>2. attempts' = [attempts EXCEPT ![a] = e]
  BY DEF Leave
<1> HIDE DEF e
<1>3. SameVersion /\ Kept' = Kept /\ row'.attempts = row.attempts /\ row'.status = row.status
  BY RowKept DEF Kept
<1>4. e # IdleAttempt /\ InCalls(e) /\ x.pc # "idle"
  BY <1>1 DEF IdleAttempt, Attempt, InCalls
<1>5. OneAtATime => Metered(e, Kept, Bill, row.attempts)
  <2>1. OneAtATime => Metered(x, Kept, Bill, row.attempts)
    BY DEF Books
  <2>2. QED
    BY <1>1, <2>1 DEF Metered
<1>6. QED
  BY <1>1, <1>2, <1>3, <1>4, <1>5, BooksOnward

\* A step that is done is kept, with what it billed.
LEMMA BooksSettle ==
  ASSUME Typed, Typed', Books, Lone, NEW a \in Attempts, Settle(a),
         attempts[a].pc = "in_step", UNCHANGED usage,
         used'.slots = used.slots, NobodyDied' => NobodyDied
  PROVE  Books'
<1> DEFINE x == attempts[a]
           e == [x EXCEPT !.pc = "between", !.step = x.step + 1]
<1>1. /\ attempts' = [attempts EXCEPT ![a] = e]
      /\ e.pc = "between" /\ e.credits = x.credits /\ e.exhausted = x.exhausted
  BY ExecutionType DEF Settle, AttemptState
<1>2. row' = [row EXCEPT !.checkpoint = snapshot(e)]
  BY DEF Settle
<1> HIDE DEF e
<1>3. snapshot(e).credits = x.credits
  BY <1>1 DEF snapshot
<1>4. SameVersion /\ Kept' = x.credits /\ row'.attempts = row.attempts
      /\ row'.status = row.status
  BY <1>2, <1>3 DEF Kept, Typed, RowOK, SameVersion
<1>5. e # IdleAttempt /\ InCalls(e) /\ x # IdleAttempt
  BY <1>1 DEF IdleAttempt, Attempt, InCalls
<1>6. row'.status # "none" /\ Bill' = Bill /\ IsFiniteSet(usage')
      /\ x.credits <= Bill
  BY <1>4, <1>5 DEF Books, AllIdle, Bill
<1>7. Bill \in Nat /\ x.credits \in Nat /\ row.attempts \in Nat
  BY BookNumbers DEF Books
<1>8. OneAtATime =>
        /\ Bill < Ceiling + Past(row.attempts + 1)
        /\ Bill <= x.credits + Past(row.attempts + 1)
        /\ Metered(e, x.credits, Bill, row.attempts)
  <2>1. OneAtATime => Metered(x, Kept, Bill, row.attempts)
    BY DEF Books
  <2>2. OneAtATime => row.attempts >= 1 /\ Bill <= x.credits + Past(row.attempts)
    BY <2>1 DEF Metered
  <2>3. OneAtATime => Metered(e, x.credits, Bill, row.attempts)
    BY <1>1, <2>1, <2>2 DEF Metered
  <2>4. OneAtATime => Bill <= x.credits + Past(row.attempts + 1)
    <3>1. row.attempts >= 1 =>
            Past(row.attempts) \in Nat /\ Past(row.attempts + 1) = Past(row.attempts) + LargestStep
      <4>1. row.attempts >= 1 => row.attempts \in Nat \ {0}
        BY <1>7
      <4>2. QED
        BY <4>1, PastGrows DEF Typed
    <3>2. LargestStep \in Nat
      BY LargestStepType DEF Typed
    <3>3. QED
      BY <1>7, <2>2, <3>1, <3>2
  <2>5. QED
    BY <2>3, <2>4 DEF Books
<1>9. OneAtATime /\ NobodyDied' => e.credits = Bill'
  BY <1>1, <1>5, <1>6 DEF Books
<1>10. OneAtATime => \A b \in Attempts : b # a => attempts[b] = IdleAttempt
  BY <1>5, Alone
<1>11. Bill <= Bill' /\ e.credits <= Bill' /\ Kept' <= Bill'
  BY <1>1, <1>4, <1>6, <1>7
<1>12. OneAtATime =>
         /\ Bill' < Ceiling + Past(row'.attempts + 1)
         /\ Bill' <= Kept' + Past(row'.attempts + 1)
         /\ Metered(e, Kept', Bill', row'.attempts)
  BY <1>4, <1>6, <1>8
<1>13. QED
  BY <1>1, <1>4, <1>5, <1>6, <1>9, <1>10, <1>11, <1>12, BooksBy

\* An execution that is over, before it billed or after it was kept.
LEMMA BooksOver ==
  ASSUME Typed, Typed', Books, Lone, SameVersion, NEW a \in Attempts,
         attempts' = [attempts EXCEPT ![a] = IdleAttempt], attempts[a].pc # "idle",
         UNCHANGED usage, Kept' = Kept, row'.attempts = row.attempts,
         row'.status = "none" => row.status = "none",
         used'.slots = used.slots, NobodyDied' => NobodyDied,
         attempts[a].pc \in {"prepared", "claimed", "closed"} \/ ~NobodyDied'
  PROVE  Books'
<1>1. InCalls(IdleAttempt) /\ Metered(IdleAttempt, Kept, Bill, row.attempts)
  BY DEF InCalls, Metered, IdleAttempt, Attempt
<1>2. OneAtATime /\ NobodyDied' => Kept = attempts[a].credits
  BY DEF Books, Metered
<1>3. QED
  BY <1>1, <1>2, BooksOnward

\* A step that is tried again has billed no more than its tries may.
LEMMA BooksRetry ==
  ASSUME Typed, Typed', Books, Lone, NEW a \in Attempts,
         attempts[a].pc = "in_step", attempts[a].call < attempts[a].calls,
         NEW c \in Flow[attempts[a].step + 1],
         attempts' = [attempts EXCEPT ![a] =
           [attempts[a] EXCEPT !.try = @ + 1, !.call = 0, !.calls = c]],
         UNCHANGED <<row, usage>>, used'.slots = used.slots, NobodyDied' => NobodyDied
  PROVE  Books'
<1> DEFINE x == attempts[a]
           e == [x EXCEPT !.try = x.try + 1, !.call = 0, !.calls = c]
<1>1. /\ e.pc = "in_step" /\ e.credits = x.credits /\ e.exhausted = x.exhausted
      /\ e.try = x.try + 1 /\ e.call = 0 /\ e.calls = c
  BY ExecutionType DEF AttemptState
<1>2. attempts' = [attempts EXCEPT ![a] = e]
  OBVIOUS
<1> HIDE DEF e
<1>3. SameVersion /\ Kept' = Kept /\ row'.attempts = row.attempts /\ row'.status = row.status
  BY RowKept DEF Kept
<1>4. c \in Nat /\ c <= MostCalls
  <2>1. x.step + 1 \in Steps /\ Steps = 1..Len(Flow)
    <3>1. x.step < Len(Flow)
      BY ExecutionType DEF Execution, Executions
    <3>2. QED
      BY <3>1, NextStepType, VersionType DEF Typed
  <2>2. Flow[x.step + 1] \subseteq Nat
    BY <2>1, VersionType DEF Typed
  <2>3. QED
    BY <2>1, <2>2, LargestStepType DEF Typed
<1>5. InCalls(e) /\ e # IdleAttempt
  BY <1>1, <1>4 DEF InCalls, IdleAttempt, Attempt
<1>6. Billed(e) \in Nat /\ Billed(x) \in Nat /\ Billed(x) <= Billed(e)
  <2>1. /\ Billed(x) \in Nat /\ Billed(x) <= x.try * (MostCalls - 1)
    BY BilledBounds DEF Books
  <2>2. x.try \in Nat \ {0} /\ MostCalls - 1 \in Nat
    <3>1. MostCalls \in Nat \ {0} /\ Tries \in Nat \ {0}
      BY LargestStepType, VersionType DEF Typed
    <3>2. x.try \in 1..Tries
      BY ExecutionType DEF AttemptState
    <3>3. QED
      BY <3>1, <3>2
  <2>3. e.try - 1 = x.try
    BY <1>1, <2>2
  <2>4. x.try * (MostCalls - 1) \in Nat
    BY <2>2, Product
  <2>5. Billed(e) = x.try * (MostCalls - 1)
    BY <1>1, <2>3, <2>4 DEF Billed
  <2>6. QED
    BY <2>1, <2>4, <2>5
<1>7. OneAtATime => Metered(e, Kept, Bill, row.attempts)
  <2>1. OneAtATime => Metered(x, Kept, Bill, row.attempts)
    BY DEF Books
  <2>2. Bill \in Nat /\ Kept \in Nat /\ Ceiling \in Nat /\ row.attempts \in Nat
    BY BookNumbers DEF Books
  <2>3. row.attempts >= 1 => Past(row.attempts) \in Nat
    BY <2>2, PastGrows DEF Typed
  <2>4. OneAtATime =>
          /\ row.attempts >= 1
          /\ Bill <= Kept + Past(row.attempts) + Billed(x)
          /\ Bill < Ceiling + Past(row.attempts) + Billed(x)
    BY <2>1 DEF Metered
  <2>5. OneAtATime =>
          /\ Bill <= Kept + Past(row.attempts) + Billed(e)
          /\ Bill < Ceiling + Past(row.attempts) + Billed(e)
    <3> DEFINE p == Past(row.attempts)
               k == Billed(x)
               l == Billed(e)
    <3>1. k \in Nat /\ l \in Nat /\ k <= l
      BY <1>6
    <3>2. OneAtATime => p \in Nat /\ Bill <= Kept + p + k /\ Bill < Ceiling + p + k
      BY <2>3, <2>4
    <3> HIDE DEF p, k, l
    <3>3. ASSUME OneAtATime PROVE Bill <= Kept + p + l /\ Bill < Ceiling + p + l
      <4>1. p \in Nat /\ Bill <= Kept + p + k /\ Bill < Ceiling + p + k
        BY <3>2, <3>3
      <4>2. Bill <= Kept + p + l
        BY <2>2, <3>1, <4>1
      <4>3. Bill < Ceiling + p + l
        BY <2>2, <3>1, <4>1
      <4>4. QED
        BY <4>2, <4>3
    <3>4. QED
      BY <3>3 DEF p, l
  <2>6. QED
    BY <1>1, <2>1, <2>5 DEF Metered
<1>8. x.pc # "idle"
  OBVIOUS
<1>9. QED
  BY <1>1, <1>2, <1>3, <1>5, <1>7, <1>8, BooksOnward

LEMMA BooksFailures ==
  ASSUME Typed, Typed', Books, Lone, NEW a \in Attempts, GoesWrong(a)
  PROVE  Books'
<1>1. UNCHANGED usage /\ used'.slots = used.slots /\ (NobodyDied' => NobodyDied)
  <2>1. \E b \in Bounds : Use(b)
    BY DEF Bounds, GoesWrong, Refuse, Crash, Stall, VanishAttempt, loseCredential, timeOut,
           stepFails
  <2>2. UNCHANGED usage
    BY DEF GoesWrong, Refuse, Crash, Stall, VanishAttempt, loseCredential, timeOut, stepFails
  <2>3. QED
    BY <2>1, <2>2, DeathsKept
<1>2. CASE Refuse(a)
  <2>1. SameVersion /\ Kept' = Kept
    BY <1>2, RowKept DEF Refuse, Kept
  <2>2. row'.status \in {row.status, "failed"} /\ row'.attempts = row.attempts
    BY <1>2 DEF Refuse, Typed, RowOK
  <2>3. attempts' = [attempts EXCEPT ![a] = IdleAttempt] /\ attempts[a].pc = "prepared"
    BY <1>2 DEF Refuse
  <2>4. row'.status = "none" => row.status = "none"
    BY <2>2
  <2>5. QED
    BY <1>1, <2>1, <2>2, <2>3, <2>4, BooksOver
<1>3. CASE Crash(a) \/ VanishAttempt(a)
  <2>1. attempts' = [attempts EXCEPT ![a] = IdleAttempt] /\ UNCHANGED row
        /\ attempts[a].pc # "idle"
    BY <1>3 DEF Crash, VanishAttempt
  <2>2. ~NobodyDied'
    <3>1. \E b \in {"crashes", "vanished"} : Use(b)
      BY <1>3 DEF Crash, VanishAttempt
    <3>2. PICK b \in {"crashes", "vanished"} : Use(b)
      BY <3>1
    <3>3. b \in Bounds /\ used.times[b] \in Nat /\ used'.times[b] = used.times[b] + 1
      BY <3>2, UseType DEF Typed, UsedOK, Bounds
    <3>4. used'.times[b] > 0
      BY <3>3
    <3>5. QED
      BY <3>2, <3>4 DEF NobodyDied, Happened
  <2>3. SameVersion /\ Kept' = Kept /\ row'.attempts = row.attempts /\ row'.status = row.status
    BY <2>1, RowKept DEF Kept
  <2>4. QED
    BY <1>1, <2>1, <2>2, <2>3, BooksOver
<1>4. CASE loseCredential(a)
  <2>1. attempts' = [attempts EXCEPT ![a] = IdleAttempt] /\ UNCHANGED row
        /\ attempts[a].pc = "claimed"
    BY <1>4 DEF loseCredential
  <2>2. SameVersion /\ Kept' = Kept /\ row'.attempts = row.attempts /\ row'.status = row.status
    BY <2>1, RowKept DEF Kept
  <2>3. QED
    BY <1>1, <2>1, <2>2, BooksOver
<1>5. CASE Stall(a)
  <2> DEFINE x == attempts[a]
             e == [x EXCEPT !.holds = FALSE]
  <2>1. /\ e.pc = x.pc /\ e.credits = x.credits /\ e.exhausted = x.exhausted
        /\ e.try = x.try /\ e.call = x.call /\ e.calls = x.calls
    BY ExecutionType DEF AttemptState
  <2>2. attempts' = [attempts EXCEPT ![a] = e] /\ UNCHANGED row /\ x.pc # "idle"
    BY <1>5 DEF Stall
  <2> HIDE DEF e
  <2>3. SameVersion /\ Kept' = Kept /\ row'.attempts = row.attempts /\ row'.status = row.status
    BY <2>2, RowKept DEF Kept
  <2>4. InCalls(e) /\ (OneAtATime => Metered(e, Kept, Bill, row.attempts))
    BY <2>1 DEF Books, InCalls, Metered, Billed
  <2>5. e # IdleAttempt
    BY <2>1, <2>2 DEF IdleAttempt, Attempt
  <2>6. QED
    BY <1>1, <2>1, <2>2, <2>3, <2>4, <2>5, BooksOnward
<1>6. CASE timeOut(a)
  BY <1>1, <1>6, BooksLeave DEF timeOut
<1>7. CASE stepFails(a)
  <2>1. attempts[a].pc = "in_step" /\ attempts[a].call < attempts[a].calls
    BY <1>7 DEF stepFails
  <2>2. ASSUME NEW c \in Flow[attempts[a].step + 1], UNCHANGED row,
               attempts' = [attempts EXCEPT ![a] =
                 [attempts[a] EXCEPT !.try = @ + 1, !.call = 0, !.calls = c]]
        PROVE  Books'
    BY <1>1, <2>1, <2>2, BooksRetry
  <2>3. CASE Settle(a)
    BY <1>1, <2>1, <2>3, BooksSettle
  <2>4. CASE Leave(a, "failed") /\ UNCHANGED row
    BY <1>1, <2>1, <2>4, BooksLeave
  <2>5. QED
    BY <1>7, <2>2, <2>3, <2>4 DEF stepFails
<1>8. QED
  BY <1>2, <1>3, <1>4, <1>5, <1>6, <1>7 DEF GoesWrong

\* The attempt is claimed: what the ones before it left behind is past.
LEMMA BooksClaim ==
  ASSUME Typed, Typed', Books, Lone, NEW a \in Attempts, startAttempt(a)
  PROVE  Books'
<1> DEFINE x == attempts[a]
           e == [x EXCEPT !.pc = "claimed"]
           n == row.attempts
<1>1. e.pc = "claimed" /\ e.credits = x.credits /\ x.pc = "prepared" /\ UNCHANGED <<usage, used>>
      /\ attempts' = [attempts EXCEPT ![a] = e]
  BY ExecutionType DEF startAttempt, AttemptState
<1>2. /\ row'.attempts = n + 1 /\ row'.status = "running" /\ SameVersion
      /\ row'.checkpoint = row.checkpoint
  BY DEF startAttempt, Typed, RowOK, SameVersion
<1> HIDE DEF e
<1>3. Bill' = Bill /\ Kept' = Kept /\ IsFiniteSet(usage') /\ used'.slots = used.slots
      /\ (NobodyDied' => NobodyDied)
  BY <1>1, <1>2 DEF Books, Bill, Kept, NobodyDied, Happened
<1>4. Bill \in Nat /\ Kept \in Nat /\ n \in Nat /\ Ceiling \in Nat /\ x.credits \in Nat
      /\ Kept <= Bill /\ x.credits <= Bill
  BY BookNumbers DEF Books
<1>5. e # IdleAttempt /\ InCalls(e) /\ x # IdleAttempt
  BY <1>1 DEF IdleAttempt, Attempt, InCalls
<1>6. /\ LargestStep \in Nat /\ Past(n + 1) \in Nat
      /\ Past(n + 1 + 1) = Past(n + 1) + LargestStep
  <2>1. n + 1 \in Nat \ {0}
    BY <1>4
  <2>2. QED
    BY <2>1, <1>4, PastGrows, LargestStepType DEF Typed
<1>7. OneAtATime =>
        /\ Bill < Ceiling + Past(n + 1) /\ Bill <= Kept + Past(n + 1)
        /\ Kept = x.credits
  BY <1>1 DEF Books, Metered
<1>8. OneAtATime =>
        /\ Bill < Ceiling + Past(n + 1 + 1)
        /\ Bill <= Kept + Past(n + 1 + 1)
  <2> DEFINE p == Past(n + 1)
             q == Past(n + 1 + 1)
  <2>1. p \in Nat /\ q = p + LargestStep /\ LargestStep \in Nat
        /\ (OneAtATime => Bill < Ceiling + p /\ Bill <= Kept + p)
    BY <1>6, <1>7
  <2> HIDE DEF p, q
  <2>2. OneAtATime => Bill < Ceiling + q /\ Bill <= Kept + q
    BY <1>4, <2>1
  <2>3. QED
    BY <2>2 DEF q
<1>9. OneAtATime => Metered(e, Kept, Bill, n + 1)
  <2>1. n + 1 >= 1
    BY <1>4
  <2>2. QED
    BY <1>1, <1>7, <2>1 DEF Metered
<1>10. OneAtATime /\ NobodyDied' => e.credits = Bill'
  BY <1>1, <1>3, <1>5 DEF Books
<1>11. OneAtATime => \A b \in Attempts : b # a => attempts[b] = IdleAttempt
  BY <1>5, Alone
<1>12. Bill <= Bill' /\ e.credits <= Bill' /\ Kept' <= Bill'
  BY <1>1, <1>3, <1>4
<1>13. OneAtATime =>
         /\ Bill' < Ceiling + Past(row'.attempts + 1)
         /\ Bill' <= Kept' + Past(row'.attempts + 1)
         /\ Metered(e, Kept', Bill', row'.attempts)
  BY <1>2, <1>3, <1>8, <1>9
<1>14. row'.status # "none"
  BY <1>2
<1>15. QED
  BY <1>1, <1>2, <1>3, <1>5, <1>10, <1>11, <1>12, <1>13, <1>14, BooksBy

\* A step starts while the ceiling was not reached, and has billed nothing.
LEMMA BooksEnter ==
  ASSUME Typed, Typed', Books, Lone, NEW a \in Attempts,
         attempts[a].pc = "between", attempts[a].step < Len(Flow), ~attempts[a].exhausted,
         NEW c \in Flow[attempts[a].step + 1],
         attempts' = [attempts EXCEPT ![a] =
           [attempts[a] EXCEPT !.pc = "in_step", !.try = 1, !.call = 0, !.calls = c]],
         UNCHANGED <<row, usage, used>>
  PROVE  Books'
<1> DEFINE x == attempts[a]
           e == [x EXCEPT !.pc = "in_step", !.try = 1, !.call = 0, !.calls = c]
<1>1. /\ e.pc = "in_step" /\ e.credits = x.credits /\ e.exhausted = x.exhausted
      /\ e.try = 1 /\ e.call = 0 /\ e.calls = c
  BY ExecutionType DEF AttemptState
<1>2. attempts' = [attempts EXCEPT ![a] = e]
  OBVIOUS
<1> HIDE DEF e
<1>3. SameVersion /\ Kept' = Kept /\ row'.attempts = row.attempts /\ row'.status = row.status
      /\ used'.slots = used.slots /\ (NobodyDied' => NobodyDied)
  BY RowKept DEF Kept, NobodyDied, Happened
<1>4. c \in Nat /\ c <= MostCalls /\ MostCalls \in Nat \ {0}
  <2>1. x.step + 1 \in Steps /\ Steps = 1..Len(Flow)
    BY NextStepType, VersionType DEF Typed
  <2>2. Flow[x.step + 1] \subseteq Nat
    BY <2>1, VersionType DEF Typed
  <2>3. QED
    BY <2>1, <2>2, LargestStepType DEF Typed
<1>5. InCalls(e) /\ e # IdleAttempt /\ x.pc # "idle"
  BY <1>1, <1>4 DEF InCalls, IdleAttempt, Attempt
<1>6. Billed(e) = 0
  <2>1. MostCalls - 1 \in Nat /\ 1 - 1 = 0
    BY <1>4
  <2>2. 0 * (MostCalls - 1) = 0
    BY <2>1, Product
  <2>3. QED
    BY <1>1, <2>1, <2>2 DEF Billed
<1>7. OneAtATime => Metered(e, Kept, Bill, row.attempts)
  <2>1. OneAtATime => Metered(x, Kept, Bill, row.attempts)
    BY DEF Books
  <2>2. Bill \in Nat /\ Kept \in Nat /\ Ceiling \in Nat /\ row.attempts \in Nat
    BY BookNumbers DEF Books
  <2>3. row.attempts >= 1 => Past(row.attempts) \in Nat
    BY <2>2, PastGrows DEF Typed
  <2>4. OneAtATime =>
          /\ row.attempts >= 1 /\ Kept = x.credits
          /\ Bill <= x.credits + Past(row.attempts)
          /\ Bill < Ceiling + Past(row.attempts)
    BY <2>1 DEF Metered
  <2>5. OneAtATime =>
          /\ Bill <= Kept + Past(row.attempts) + Billed(e)
          /\ Bill < Ceiling + Past(row.attempts) + Billed(e)
    BY <1>6, <2>2, <2>3, <2>4
  <2>6. QED
    BY <1>1, <2>4, <2>5 DEF Metered
<1>8. QED
  BY <1>1, <1>2, <1>3, <1>5, <1>7, BooksOnward

\* What a charge does to the bill and to the credits of its attempt.
LEMMA ChargeBills ==
  ASSUME Typed, Books, NEW a \in Attempts, charge(a)
  PROVE  \E credits \in Nat, exhausted \in BOOLEAN :
           /\ attempts' = [attempts EXCEPT ![a] =
                [attempts[a] EXCEPT !.call = attempts[a].call + 1,
                                    !.seq = attempts[a].seq + 1, !.credits = credits,
                                    !.exhausted = exhausted]]
           /\ exhausted <=> attempts[a].exhausted \/ credits >= Ceiling
           /\ IsFiniteSet(usage')
           /\ \/ credits = attempts[a].credits /\ Bill' = Bill
              \/ credits = attempts[a].credits + 1 /\ Bill' = Bill + 1
<1> DEFINE e == attempts[a]
           applied == \E u \in usage : u.seq = e.seq
           credits == IF applied THEN e.credits ELSE e.credits + 1
           exhausted == e.exhausted \/ credits >= Ceiling
           new == [seq |-> e.seq,
                   work |-> [step |-> e.step + 1, try |-> e.try, call |-> e.call + 1]]
<1>1. /\ attempts' = [attempts EXCEPT ![a] =
           [e EXCEPT !.call = e.call + 1, !.seq = e.seq + 1, !.credits = credits,
                     !.exhausted = exhausted]]
      /\ usage' = IF applied THEN usage ELSE usage \cup {new}
  BY DEF charge
<1>2. credits \in Nat /\ IsFiniteSet(usage)
  BY BookNumbers DEF Books
<1>3. exhausted \in BOOLEAN
  OBVIOUS
<1>4. ~applied => new \notin usage
  OBVIOUS
<1>5. /\ IsFiniteSet(usage')
      /\ IF applied THEN Bill' = Bill ELSE Bill' = Bill + 1
  <2> HIDE DEF applied, new
  <2>1. CASE applied
    BY <1>1, <1>2, <2>1 DEF Bill
  <2>2. CASE ~applied
    <3>1. usage' = usage \cup {new}
      BY <1>1, <2>2
    <3>2. IsFiniteSet(usage \cup {new}) /\ Cardinality(usage \cup {new}) = Cardinality(usage) + 1
      BY <1>2, <1>4, <2>2, FS_AddElement
    <3>3. QED
      BY <2>2, <3>1, <3>2 DEF Bill
  <2>3. QED
    BY <2>1, <2>2
<1>6. \/ credits = e.credits /\ Bill' = Bill
      \/ credits = e.credits + 1 /\ Bill' = Bill + 1
  <2> HIDE DEF applied
  <2>1. QED
    BY <1>5
<1>7. exhausted <=> e.exhausted \/ credits >= Ceiling
  <2> HIDE DEF credits
  <2>1. e.exhausted \in BOOLEAN
    BY ExecutionType DEF AttemptState
  <2>2. QED
    OBVIOUS
<1> HIDE DEF credits, exhausted, applied
<1>8. QED
  BY <1>1, <1>2, <1>3, <1>5, <1>6, <1>7

\* A charge counts one call, bills and credits it once, and notices the ceiling.
LEMMA BooksCharge ==
  ASSUME Typed, Typed', Books, Lone, NEW a \in Attempts, charge(a)
  PROVE  Books'
<1> DEFINE x == attempts[a]
           n == row.attempts
<1>1. PICK credits \in Nat, exhausted \in BOOLEAN :
           /\ attempts' = [attempts EXCEPT ![a] =
                [x EXCEPT !.call = x.call + 1, !.seq = x.seq + 1, !.credits = credits,
                          !.exhausted = exhausted]]
           /\ exhausted <=> x.exhausted \/ credits >= Ceiling
           /\ IsFiniteSet(usage')
           /\ \/ credits = x.credits /\ Bill' = Bill
              \/ credits = x.credits + 1 /\ Bill' = Bill + 1
  BY ChargeBills
<1> DEFINE e == [x EXCEPT !.call = x.call + 1, !.seq = x.seq + 1, !.credits = credits,
                          !.exhausted = exhausted]
<1>2. /\ e.pc = x.pc /\ e.credits = credits /\ e.exhausted = exhausted
      /\ e.try = x.try /\ e.call = x.call + 1 /\ e.calls = x.calls
  BY ExecutionType DEF AttemptState
<1>3. attempts' = [attempts EXCEPT ![a] = e]
  BY <1>1
<1> HIDE DEF e
<1>4. x.pc = "in_step" /\ x.call < x.calls /\ UNCHANGED <<row, used>>
  BY DEF charge
<1>5. SameVersion /\ Kept' = Kept /\ row'.attempts = n /\ row'.status = row.status
      /\ used'.slots = used.slots /\ (NobodyDied' => NobodyDied)
  BY <1>4, RowKept DEF Kept, NobodyDied, Happened
<1>6. x # IdleAttempt /\ e # IdleAttempt
  BY <1>2, <1>4 DEF IdleAttempt, Attempt
<1>7. /\ Bill \in Nat /\ Kept \in Nat /\ n \in Nat /\ Ceiling \in Nat /\ x.credits \in Nat
      /\ Kept <= Bill /\ x.credits <= Bill
  BY BookNumbers DEF Books
<1>8. /\ x.call \in Nat /\ x.calls \in Nat /\ InCalls(x) /\ MostCalls \in Nat
  BY ExecutionType, LargestStepType DEF Books, AttemptState, Typed
<1>9. InCalls(e)
  BY <1>2, <1>4, <1>8 DEF InCalls
<1>10. Bill' \in Nat /\ Bill <= Bill' /\ Bill' <= Bill + 1 /\ e.credits <= Bill' /\ Kept' <= Bill'
  <2> DEFINE c == x.credits
             bill == Bill'
             kept == Kept'
  <2>1. /\ c \in Nat /\ Bill \in Nat /\ c <= Bill /\ Kept \in Nat /\ Kept <= Bill
        /\ kept = Kept
        /\ (credits = c /\ bill = Bill) \/ (credits = c + 1 /\ bill = Bill + 1)
    BY <1>1, <1>5, <1>7
  <2> HIDE DEF c, bill, kept
  <2>2. bill \in Nat /\ Bill <= bill /\ bill <= Bill + 1 /\ credits <= bill /\ kept <= bill
    BY <2>1
  <2>3. QED
    BY <1>2, <2>2 DEF bill, kept
<1>11. row'.status # "none"
  BY <1>5, <1>6 DEF Books, AllIdle
<1>12. Billed(e) = Billed(x) + 1 /\ Billed(x) \in Nat /\ Billed(x) + 1 <= LargestStep
  <2>1. Billed(x) \in Nat
    BY <1>4, <1>8, BilledBounds
  <2>2. Billed(e) = Billed(x) + 1
    <3> DEFINE tries == (x.try - 1) * (MostCalls - 1)
    <3>1. tries \in Nat
      <4>1. x.try - 1 \in Nat /\ MostCalls - 1 \in Nat
        <5>1. x.try \in 1..Tries
          BY ExecutionType DEF AttemptState
        <5>2. Tries \in Nat \ {0} /\ MostCalls \in Nat \ {0}
          BY VersionType, LargestStepType DEF Typed
        <5>3. QED
          BY <5>1, <5>2
      <4>2. QED
        BY <4>1, Product
    <3>2. Billed(x) = tries + x.call /\ Billed(e) = tries + (x.call + 1)
      BY <1>2 DEF Billed
    <3> HIDE DEF tries
    <3>3. QED
      BY <1>8, <3>1, <3>2
  <2>3. Billed(e) <= LargestStep
    <3>1. attempts'[a] = e /\ attempts'[a].pc = "in_step"
      BY <1>2, <1>3, <1>4 DEF Typed, AttemptsOK
    <3>2. Billed(attempts[a])' = Billed(e) /\ LargestStep' = LargestStep
          /\ InCalls(attempts[a])'
      BY <1>5, <1>9, <3>1, SameLimits DEF Billed, InCalls
    <3>3. (/\ Typed /\ a \in Attempts /\ attempts[a].pc = "in_step" /\ InCalls(attempts[a])
           => Billed(attempts[a]) <= LargestStep)'
      BY BilledBounds, PTL
    <3>4. QED
      BY <3>1, <3>2, <3>3
  <2>4. QED
    BY <2>1, <2>2, <2>3
<1> DEFINE k == Billed(x)
           p == Past(n)
           bill == Bill'
<1>b. /\ k \in Nat /\ Billed(e) = k + 1 /\ k + 1 <= LargestStep /\ bill \in Nat
      /\ \/ credits = x.credits /\ bill = Bill
         \/ credits = x.credits + 1 /\ bill = Bill + 1
  BY <1>1, <1>10, <1>12
<1>13. ASSUME OneAtATime
       PROVE  /\ Bill' < Ceiling + Past(n + 1) /\ Bill' <= Kept + Past(n + 1)
              /\ Metered(e, Kept, Bill', n)
  <2>1. Metered(x, Kept, Bill, n)
    BY <1>13 DEF Books
  <2>2. /\ n >= 1 /\ Bill <= x.credits + Past(n)
        /\ Bill <= Kept + Past(n) + Billed(x) /\ Bill < Ceiling + Past(n) + Billed(x)
    BY <1>4, <2>1 DEF Metered
  <2>3. Past(n) \in Nat /\ Past(n + 1) = Past(n) + LargestStep /\ LargestStep \in Nat
    <3>1. n \in Nat \ {0}
      BY <1>7, <2>2
    <3>2. QED
      BY <3>1, PastGrows, LargestStepType DEF Typed
  <2>a. /\ p \in Nat /\ LargestStep \in Nat /\ Bill <= x.credits + p
        /\ Bill <= Kept + p + k /\ Bill < Ceiling + p + k
    BY <2>2, <2>3
  <2>b. bill <= credits + p
    <3> DEFINE c == x.credits
    <3>1. /\ c \in Nat /\ Bill \in Nat /\ Bill <= c + p /\ p \in Nat
          /\ (credits = c /\ bill = Bill) \/ (credits = c + 1 /\ bill = Bill + 1)
      BY <1>b, <1>7, <2>a
    <3> HIDE DEF bill, p, k, n, c
    <3>2. QED
      BY <3>1
  <2>c. /\ bill <= Kept + p + (k + 1) /\ bill < Ceiling + p + (k + 1)
        /\ bill <= Kept + (p + LargestStep) /\ bill < Ceiling + (p + LargestStep)
    <3> HIDE DEF bill, p, k, n
    <3>1. bill <= Bill + 1 /\ Bill \in Nat /\ bill \in Nat /\ Kept \in Nat /\ Ceiling \in Nat
      BY <1>b, <1>7
    <3>2. bill <= Kept + p + (k + 1)
      BY <1>b, <2>a, <3>1
    <3>3. bill < Ceiling + p + (k + 1)
      BY <1>b, <2>a, <3>1
    <3>4. bill <= Kept + (p + LargestStep) /\ bill < Ceiling + (p + LargestStep)
      BY <1>b, <2>a, <3>1, <3>2, <3>3
    <3>5. QED
      BY <3>2, <3>3, <3>4
  <2>4. Bill' <= e.credits + Past(n)
    BY <1>2, <2>b
  <2>5. Bill' <= Kept + Past(n) + Billed(e) /\ Bill' < Ceiling + Past(n) + Billed(e)
    BY <1>b, <2>c
  <2>6. ~e.exhausted => Bill' < Ceiling + Past(n)
    <3>1. ~e.exhausted => ~(credits >= Ceiling)
      BY <1>1, <1>2
    <3>2. QED
      BY <1>2, <1>7, <1>10, <2>3, <2>4, <3>1
  <2>7. Bill' < Ceiling + Past(n + 1) /\ Bill' <= Kept + Past(n + 1)
    BY <2>3, <2>c
  <2>8. QED
    BY <1>2, <1>4, <2>2, <2>4, <2>5, <2>6, <2>7 DEF Metered
<1>14. OneAtATime /\ NobodyDied' => e.credits = Bill'
  <2>1. OneAtATime /\ NobodyDied' => x.credits = Bill
    BY <1>5, <1>6 DEF Books
  <2>2. QED
    BY <1>1, <1>2, <2>1
<1>15. OneAtATime => \A b \in Attempts : b # a => attempts[b] = IdleAttempt
  BY <1>6, Alone
<1>16. OneAtATime =>
         /\ Bill' < Ceiling + Past(row'.attempts + 1)
         /\ Bill' <= Kept' + Past(row'.attempts + 1)
         /\ Metered(e, Kept', Bill', row'.attempts)
  BY <1>5, <1>13
<1>17. QED
  BY <1>1, <1>3, <1>5, <1>6, <1>9, <1>10, <1>11, <1>14, <1>15, <1>16, BooksBy

\* The outcome is written with every credit of the attempt.
LEMMA BooksPersist ==
  ASSUME Typed, Typed', Books, Lone, NEW a \in Attempts, persist(a)
  PROVE  Books'
<1> DEFINE x == attempts[a]
           e == [x EXCEPT !.pc = "closed"]
           n == row.attempts
<1>1. /\ attempts' = [attempts EXCEPT ![a] = e] /\ UNCHANGED <<usage, used>>
      /\ e.pc = "closed" /\ e.credits = x.credits /\ x.pc = "closing"
  BY ExecutionType DEF persist, AttemptState
<1>2. PICK status \in Outcome(x.end) :
        row' = [row EXCEPT !.status = status, !.checkpoint = snapshot(x)]
  BY DEF persist
<1>3. SameVersion /\ Kept' = x.credits /\ row'.status = status /\ row'.attempts = n
  <2>1. row'.checkpoint = snapshot(x) /\ row'.version = row.version /\ row'.status = status
        /\ row'.attempts = n
    BY <1>2 DEF Typed, RowOK
  <2>2. snapshot(x).credits = x.credits
    BY DEF snapshot
  <2>3. QED
    BY <2>1, <2>2 DEF SameVersion, Kept
<1>4. status # "none"
  <2>1. x.end \in Closings
    BY <1>1, ExecutionType DEF Execution, Executions
  <2>2. QED
    BY <1>2, <2>1 DEF Outcome, Closings
<1> HIDE DEF e
<1>5. e # IdleAttempt /\ x # IdleAttempt /\ InCalls(e)
  BY <1>1 DEF IdleAttempt, Attempt, InCalls
<1>6. Bill' = Bill /\ IsFiniteSet(usage') /\ used'.slots = used.slots
      /\ (NobodyDied' => NobodyDied)
  BY <1>1 DEF Books, Bill, NobodyDied, Happened
<1>7. /\ Bill \in Nat /\ n \in Nat /\ Ceiling \in Nat /\ x.credits \in Nat /\ x.credits <= Bill
  BY BookNumbers DEF Books
<1>8. ASSUME OneAtATime
      PROVE  /\ Bill < Ceiling + Past(n + 1) /\ Bill <= x.credits + Past(n + 1)
             /\ Metered(e, x.credits, Bill, n)
  <2>1. n >= 1 /\ Bill <= x.credits + Past(n)
    BY <1>1, <1>8 DEF Books, Metered
  <2>2. Past(n) \in Nat /\ Past(n + 1) = Past(n) + LargestStep /\ LargestStep \in Nat
    <3>1. n \in Nat \ {0}
      BY <1>7, <2>1
    <3>2. QED
      BY <3>1, PastGrows, LargestStepType DEF Typed
  <2>3. Bill <= x.credits + Past(n + 1)
    BY <1>7, <2>1, <2>2
  <2>4. QED
    BY <1>1, <1>8, <2>1, <2>3 DEF Books, Metered
<1>9. OneAtATime /\ NobodyDied' => e.credits = Bill'
  BY <1>1, <1>5, <1>6 DEF Books
<1>10. OneAtATime => \A b \in Attempts : b # a => attempts[b] = IdleAttempt
  BY <1>5, Alone
<1>11. Bill <= Bill' /\ e.credits <= Bill' /\ Kept' <= Bill'
  BY <1>1, <1>3, <1>6, <1>7
<1>12. OneAtATime =>
         /\ Bill' < Ceiling + Past(row'.attempts + 1)
         /\ Bill' <= Kept' + Past(row'.attempts + 1)
         /\ Metered(e, Kept', Bill', row'.attempts)
  BY <1>3, <1>6, <1>8
<1>13. QED
  BY <1>1, <1>3, <1>4, <1>5, <1>6, <1>9, <1>10, <1>11, <1>12, BooksBy

LEMMA BooksExecution ==
  ASSUME Typed, Typed', Books, Lone, NEW a \in Attempts, Execute(a)
  PROVE  Books'
<1> DEFINE x == attempts[a]
<1>1. used'.slots = used.slots /\ (NobodyDied' => NobodyDied) /\ UNCHANGED used
  BY DEF Execute, startAttempt, findCredential, stopBetween, enterStep, charge,
         checkpointRun, finish, decide, persist, clearStop, NobodyDied, Happened
<1>2. ASSUME UNCHANGED row
      PROVE  /\ SameVersion /\ Kept' = Kept /\ row'.attempts = row.attempts
             /\ row'.status = row.status
  BY <1>2, RowKept DEF Kept
<1>3. CASE findCredential(a)
  <2> DEFINE e == [x EXCEPT !.pc = "between"]
  <2>1. /\ attempts' = [attempts EXCEPT ![a] = e] /\ UNCHANGED <<row, usage>>
        /\ e.pc = "between" /\ e.credits = x.credits /\ x.pc = "claimed"
    BY <1>3, ExecutionType DEF findCredential, AttemptState
  <2> HIDE DEF e
  <2>2. e # IdleAttempt /\ InCalls(e)
    BY <2>1 DEF IdleAttempt, Attempt, InCalls
  <2>3. OneAtATime => Metered(e, Kept, Bill, row.attempts)
    BY <2>1 DEF Books, Metered
  <2>4. QED
    BY <1>1, <1>2, <2>1, <2>2, <2>3, BooksOnward
<1>4. CASE stopBetween(a) \/ finish(a)
  <2>1. PICK end \in {"stopped", "finished"} : Leave(a, end)
    BY <1>4 DEF stopBetween, finish
  <2>2. attempts[a].pc \in {"between", "in_step"} /\ UNCHANGED <<row, usage>>
    BY <1>4 DEF stopBetween, finish
  <2>3. QED
    BY <1>1, <2>1, <2>2, BooksLeave
<1>5. CASE enterStep(a)
  <2>1. x.pc = "between" /\ x.step < Len(Flow) /\ ~x.exhausted /\ UNCHANGED <<row, usage, used>>
    BY <1>5 DEF enterStep
  <2>2. CASE Leave(a, "asked")
    BY <1>1, <2>1, <2>2, BooksLeave
  <2>3. ASSUME NEW c \in Flow[x.step + 1],
               attempts' = [attempts EXCEPT ![a] =
                 [x EXCEPT !.pc = "in_step", !.try = 1, !.call = 0, !.calls = c]]
        PROVE  Books'
    BY <2>1, <2>3, BooksEnter
  <2>4. QED
    BY <1>5, <2>2, <2>3 DEF enterStep
<1>6. CASE checkpointRun(a)
  BY <1>1, <1>6, BooksSettle DEF checkpointRun
<1>7. CASE decide(a)
  <2> DEFINE end == CASE x.end = "asked" -> "asked"
                      [] x.end # "asked" /\ stopFlag -> "stopped"
                      [] x.end # "asked" /\ ~stopFlag
                         /\ (x.end = "timed_out" \/ x.exhausted) -> "failed"
                      [] OTHER -> x.end
             e == [x EXCEPT !.pc = "closing", !.end = end]
  <2>1. attempts' = [attempts EXCEPT ![a] = e] /\ x.pc = "ended" /\ UNCHANGED <<row, usage>>
    BY <1>7 DEF decide
  <2> HIDE DEF end
  <2>2. e.pc = "closing" /\ e.credits = x.credits
    BY ExecutionType DEF AttemptState
  <2> HIDE DEF e
  <2>3. e # IdleAttempt /\ InCalls(e)
    BY <2>2 DEF IdleAttempt, Attempt, InCalls
  <2>4. OneAtATime => Metered(e, Kept, Bill, row.attempts)
    BY <2>1, <2>2 DEF Books, Metered
  <2>5. QED
    BY <1>1, <1>2, <2>1, <2>2, <2>3, <2>4, BooksOnward
<1>8. CASE clearStop(a)
  <2>1. attempts' = [attempts EXCEPT ![a] = IdleAttempt] /\ UNCHANGED <<row, usage>>
        /\ attempts[a].pc = "closed"
    BY <1>8 DEF clearStop
  <2>2. QED
    BY <1>1, <1>2, <2>1, BooksOver
<1>9. QED
  BY <1>3, <1>4, <1>5, <1>6, <1>7, <1>8, BooksClaim, BooksCharge, BooksPersist DEF Execute

LEMMA BooksInit == Init => Books
<1> SUFFICES ASSUME Init PROVE Books
  OBVIOUS
<1>0. Typed
  BY TypedInit
<1>1. /\ usage = {} /\ row.status = "none" /\ row.attempts = 0 /\ Kept = 0 /\ AllIdle
  BY DEF Init, Empty, Kept, AllIdle
<1>2. Bill = 0 /\ IsFiniteSet(usage)
  BY <1>1, FS_EmptySet DEF Bill
<1>3. \A a \in Attempts :
        /\ attempts[a].credits = 0 /\ InCalls(attempts[a])
        /\ Metered(attempts[a], Kept, Bill, row.attempts)
  BY <1>1 DEF AllIdle, IdleAttempt, Attempt, Empty, InCalls, Metered
<1>4. Past(0 + 1) \in Nat /\ Ceiling \in Nat \ {0}
  BY <1>0, <1>2, PastGrows, BookNumbers DEF Typed
<1>5. Bill < Ceiling + Past(row.attempts + 1) /\ Bill <= Kept + Past(row.attempts + 1)
  BY <1>1, <1>2, <1>4
<1>6. QED
  BY <1>1, <1>2, <1>3, <1>5 DEF Books, AllIdle

LEMMA BooksStep == Typed /\ Typed' /\ Lone /\ Books /\ [Next]_vars => Books'
<1> SUFFICES ASSUME Typed, Typed', Lone, Books, [Next]_vars PROVE Books'
  OBVIOUS
<1>1. ASSUME stopExpires \/ UNCHANGED vars PROVE Books'
  <2>1. UNCHANGED <<row, attempts, usage, used>>
    BY <1>1 DEF stopExpires, vars
  <2>2. SameVersion /\ Kept' = Kept
    BY <2>1, RowKept DEF Kept
  <2>3. QED
    BY <2>1, <2>2, BooksStay DEF NobodyDied, Happened
<1>2. QED
  BY <1>1, BooksRequests, BooksStarts, BooksFailures, BooksExecution DEF Next

LEMMA BooksHold == Typed /\ Books => BudgetsHold
<1> SUFFICES ASSUME Typed, Books PROVE BudgetsHold
  OBVIOUS
<1>1. TypeOK
  BY TypedIsTypeOK
<1>2. CeilingHolds
  <2>1. row.attempts \in Nat /\ row.attempts + 1 - 1 = row.attempts
    BY BookNumbers DEF Books
  <2>2. Past(row.attempts + 1) = row.attempts * LargestStep
    BY <2>1 DEF Past
  <2>3. QED
    BY <2>2 DEF CeilingHolds, Books, Bill
<1>3. CreditsCoverTheBill
  BY DEF CreditsCoverTheBill, Books, Bill, Kept, NobodyDied, AllIdle
<1>4. QED
  BY <1>1, <1>2, <1>3 DEF BudgetsHold

\* Whatever dies, fails, is retried, stopped or answered: the credits a run is held
\* to have cost were billed, exactly so while one attempt at a time executes it and
\* none died; and then its bill passes its ceiling by at most the largest step of
\* each attempt (runner.ts, charge, stopCheck and checkpointRun).
THEOREM BudgetsAreKept == Spec => []BudgetsHold
<1>1. Init => Typed /\ Lone /\ Books
  BY TypedInit, LoneInit, BooksInit
<1>2. Typed /\ Lone /\ Books /\ [Next]_vars => Typed' /\ Lone' /\ Books'
  BY TypedStep, LoneStep, BooksStep
<1>3. Typed /\ Books => BudgetsHold
  BY BooksHold
<1>4. QED
  BY <1>1, <1>2, <1>3, PTL DEF Spec

-----------------------------------------------------------------------------
(* The order of the bill.                                                  *)

\* The flow of the cases, and its calls.
LEMMA FixedFlow ==
  ASSUME FlowIsFixed, NEW c \in Cases
  PROVE  /\ OneFlow = c.version.flow /\ Len(OneFlow) \in Nat /\ DOMAIN OneFlow = 1..Len(OneFlow)
         /\ \A n \in 1..Len(OneFlow) : OneFlow[n] = {CallsOf(n)} /\ CallsOf(n) \in Nat
<1>1. c.version \in {d.version : d \in Cases} /\ c.version.flow = OneFlow
  BY DEF FlowIsFixed
<1>2. OneFlow \in Seq(SUBSET Nat)
  BY <1>1
<1>3. DOMAIN OneFlow = 1..Len(OneFlow) /\ Len(OneFlow) \in Nat
  BY <1>2
<1>4. ASSUME NEW n \in 1..Len(OneFlow)
      PROVE  OneFlow[n] = {CallsOf(n)} /\ CallsOf(n) \in Nat
  <2>1. OneFlow[n] \subseteq Nat
    BY <1>2, <1>3
  <2>2. OneFlow[n] = {CallsOf(n)}
    BY <1>3 DEF FlowIsFixed
  <2> HIDE DEF FlowIsFixed
  <2>3. CallsOf(n) \in OneFlow[n]
    BY <2>2
  <2>4. QED
    BY <2>1, <2>2, <2>3
<1>5. QED
  BY <1>1, <1>3, <1>4

FlowCall(n, c) == [step |-> n, try |-> 1, call |-> c]

LEMMA FlowCallsAre ==
  ASSUME FlowIsFixed, Cases # {}
  PROVE  /\ Len(OneFlow) \in Nat /\ IsFiniteSet(FlowCalls)
         /\ \A n \in 1..Len(OneFlow) : \A c \in 1..CallsOf(n) : FlowCall(n, c) \in FlowCalls
         /\ \A w \in FlowCalls :
              /\ w.step \in 1..Len(OneFlow) /\ w.call \in 1..CallsOf(w.step)
              /\ w.call \in Nat \ {0} /\ w.step \in Nat \ {0} /\ w = FlowCall(w.step, w.call)
<1>1. /\ Len(OneFlow) \in Nat /\ DOMAIN OneFlow = 1..Len(OneFlow)
      /\ \A n \in 1..Len(OneFlow) : CallsOf(n) \in Nat
  BY FixedFlow
<1> DEFINE Of(n) == {FlowCall(n, c) : c \in 1..CallsOf(n)}
<1>2. FlowCalls = UNION {Of(n) : n \in 1..Len(OneFlow)}
  BY <1>1 DEF FlowCalls, FlowCall
<1>3. ASSUME NEW n \in 1..Len(OneFlow) PROVE IsFiniteSet(Of(n))
  <2>1. IsFiniteSet(1..CallsOf(n))
    <3>1. CallsOf(n) \in Nat
      BY <1>1
    <3>2. QED
      BY ONLY <3>1, FS_Interval
  <2>2. [c \in 1..CallsOf(n) |-> FlowCall(n, c)] \in Surjection(1..CallsOf(n), Of(n))
    BY DEF Surjection
  <2>3. QED
    BY <2>1, <2>2, FS_Surjection
<1>4. IsFiniteSet(FlowCalls)
  <2> DEFINE parts == {Of(n) : n \in 1..Len(OneFlow)}
  <2>1. IsFiniteSet(1..Len(OneFlow))
    BY <1>1, FS_Interval
  <2>2. [n \in 1..Len(OneFlow) |-> Of(n)] \in Surjection(1..Len(OneFlow), parts)
    <3> HIDE DEF Of
    <3>1. QED
      BY DEF Surjection
  <2>3. IsFiniteSet(parts)
    BY <2>1, <2>2, FS_Surjection
  <2>4. \A T \in parts : IsFiniteSet(T)
    BY <1>3
  <2> HIDE DEF parts
  <2>5. IsFiniteSet(UNION parts)
    BY <2>3, <2>4, FS_UNION
  <2>6. QED
    BY <1>2, <2>5 DEF parts
<1>5. ASSUME NEW n \in 1..Len(OneFlow), NEW c \in 1..CallsOf(n) PROVE FlowCall(n, c) \in FlowCalls
  BY <1>2
<1>6. ASSUME NEW w \in FlowCalls
      PROVE  /\ w.step \in 1..Len(OneFlow) /\ w.call \in 1..CallsOf(w.step)
             /\ w.call \in Nat \ {0} /\ w.step \in Nat \ {0} /\ w = FlowCall(w.step, w.call)
  <2>1. PICK n \in 1..Len(OneFlow) : w \in Of(n)
    BY <1>2
  <2>2. PICK c \in 1..CallsOf(n) : w = FlowCall(n, c)
    BY <2>1
  <2>3. w.step = n /\ w.call = c
    BY <2>2 DEF FlowCall
  <2>4. n \in Nat \ {0} /\ CallsOf(n) \in Nat
    BY <1>1
  <2>5. c \in Nat \ {0}
    BY <2>4
  <2>6. QED
    BY <2>2, <2>3, <2>4, <2>5
<1>7. QED
  BY <1>1, <1>4, <1>5, <1>6

\* The calls up to the k-th of the step behind s: how far an attempt has got that
\* has done s steps and k calls of the next.
UpTo(s, k) == {v \in FlowCalls : v.step <= s \/ (v.step = s + 1 /\ v.call <= k)}
Rank(s, k) == Cardinality(UpTo(s, k))

LEMMA RankType ==
  ASSUME FlowIsFixed, Cases # {}, NEW s \in Nat, NEW k \in Nat
  PROVE  IsFiniteSet(UpTo(s, k)) /\ Rank(s, k) \in Nat /\ Rank(s, k) <= Cardinality(FlowCalls)
<1>1. UpTo(s, k) \in SUBSET FlowCalls
  BY DEF UpTo
<1>2. IsFiniteSet(FlowCalls)
  BY FlowCallsAre
<1>3. IsFiniteSet(UpTo(s, k)) /\ Rank(s, k) <= Cardinality(FlowCalls)
  BY <1>1, <1>2, FS_Subset DEF Rank
<1>4. QED
  BY <1>3, FS_CardinalityType DEF Rank

\* Before the first call there is none; the last of a step is followed by the
\* next step.
LEMMA RankStarts ==
  ASSUME FlowIsFixed, Cases # {}
  PROVE  /\ Rank(0, 0) = 0
         /\ \A s \in 0..(Len(OneFlow) - 1) : Rank(s, CallsOf(s + 1)) = Rank(s + 1, 0)
<1>1. \A w \in FlowCalls :
        w.step \in Nat \ {0} /\ w.call \in Nat \ {0} /\ w.call \in 1..CallsOf(w.step)
  BY FlowCallsAre
<1>2. UpTo(0, 0) = {}
  BY <1>1 DEF UpTo
<1>3. ASSUME NEW s \in 0..(Len(OneFlow) - 1) PROVE UpTo(s, CallsOf(s + 1)) = UpTo(s + 1, 0)
  <2>1. ASSUME NEW w \in FlowCalls
        PROVE  (w.step <= s \/ (w.step = s + 1 /\ w.call <= CallsOf(s + 1)))
                 <=> (w.step <= s + 1 \/ (w.step = s + 1 + 1 /\ w.call <= 0))
    <3>1. w.step \in Nat /\ w.call \in Nat \ {0} /\ s \in Nat
      BY <1>1, <2>1
    <3>2. w.step = s + 1 => w.call <= CallsOf(s + 1)
      BY <1>1, <2>1
    <3>3. QED
      BY <3>1, <3>2
  <2>2. QED
    BY <2>1 DEF UpTo
<1>4. QED
  BY <1>2, <1>3, FS_EmptySet DEF Rank

\* One more call is one more.
LEMMA RankGrows ==
  ASSUME FlowIsFixed, Cases # {}, NEW s \in 0..(Len(OneFlow) - 1),
         NEW k \in Nat, k < CallsOf(s + 1)
  PROVE  /\ FlowCall(s + 1, k + 1) \in FlowCalls
         /\ Number(FlowCall(s + 1, k + 1)) = Rank(s, k)
         /\ Rank(s, k + 1) = Rank(s, k) + 1
         /\ Rank(s, k) < Cardinality(FlowCalls)
<1> DEFINE w == FlowCall(s + 1, k + 1)
<1>1. /\ Len(OneFlow) \in Nat
      /\ \A n \in 1..Len(OneFlow) : CallsOf(n) \in Nat
  BY FlowCallsAre, FixedFlow
<1>2. s \in Nat /\ s + 1 \in 1..Len(OneFlow) /\ k + 1 \in 1..CallsOf(s + 1) /\ k + 1 \in Nat
  BY <1>1
<1>3. w \in FlowCalls
  BY <1>2, FlowCallsAre
<1>4. w.step = s + 1 /\ w.call = k + 1
  BY DEF FlowCall
<1>5. \A v \in FlowCalls :
        v.step \in Nat /\ v.call \in Nat /\ v = FlowCall(v.step, v.call)
  BY FlowCallsAre
<1> HIDE DEF w
<1>6. Number(w) = Rank(s, k)
  <2>1. \A v \in FlowCalls :
          (v.step < w.step \/ (v.step = w.step /\ v.call < w.call))
            <=> (v.step <= s \/ (v.step = s + 1 /\ v.call <= k))
    BY <1>2, <1>4, <1>5
  <2>2. QED
    BY <2>1 DEF Number, Rank, UpTo
<1>7. w \notin UpTo(s, k)
  BY <1>2, <1>4 DEF UpTo
<1>8. UpTo(s, k + 1) = UpTo(s, k) \cup {w}
  <2>1. ASSUME NEW v \in FlowCalls
        PROVE  (v.step <= s \/ (v.step = s + 1 /\ v.call <= k + 1))
                 <=> (v.step <= s \/ (v.step = s + 1 /\ v.call <= k)) \/ v = w
    <3>1. v.step \in Nat /\ v.call \in Nat /\ v = FlowCall(v.step, v.call)
      BY <1>5
    <3>2. v = w <=> v.step = s + 1 /\ v.call = k + 1
      BY <1>4, <3>1 DEF w
    <3>3. QED
      BY <1>2, <3>1, <3>2
  <2>2. QED
    BY <1>3, <2>1 DEF UpTo
<1>9. Rank(s, k + 1) = Rank(s, k) + 1
  <2>1. IsFiniteSet(UpTo(s, k))
    BY <1>2, RankType
  <2>2. Cardinality(UpTo(s, k) \cup {w}) = Cardinality(UpTo(s, k)) + 1
    BY ONLY <1>7, <2>1, FS_AddElement
  <2>3. QED
    BY <1>8, <2>2 DEF Rank
<1>10. Rank(s, k) < Cardinality(FlowCalls)
  <2>1. Rank(s, k) \in Nat
    BY <1>2, RankType
  <2>next. Rank(s, k + 1) <= Cardinality(FlowCalls) /\ Rank(s, k + 1) \in Nat
    BY <1>2, RankType
  <2>2. Cardinality(FlowCalls) \in Nat
    BY FlowCallsAre, FS_CardinalityType
  <2>3. QED
    BY <1>9, <2>1, <2>next, <2>2
<1>11. QED
  BY <1>3, <1>6, <1>9, <1>10 DEF w

\* No two calls of the flow have one number.
LEMMA NumbersDiffer ==
  ASSUME FlowIsFixed, Cases # {}, NEW v \in FlowCalls, NEW w \in FlowCalls,
         Number(v) = Number(w)
  PROVE  v = w
<1> DEFINE Before(x) == {u \in FlowCalls : u.step < x.step \/ (u.step = x.step /\ u.call < x.call)}
<1>1. \A u \in FlowCalls : u.step \in Nat /\ u.call \in Nat /\ u = FlowCall(u.step, u.call)
  BY FlowCallsAre
<1>2. IsFiniteSet(FlowCalls)
  BY FlowCallsAre
<1>3. ASSUME NEW x \in FlowCalls, NEW y \in FlowCalls, Number(x) = Number(y),
             x.step < y.step \/ (x.step = y.step /\ x.call < y.call)
      PROVE  FALSE
  <2>1. Before(x) \in SUBSET Before(y)
    BY <1>1, <1>3
  <2>2. x \in Before(y) /\ x \notin Before(x)
    BY <1>1, <1>3
  <2>3. Number(x) = Cardinality(Before(x)) /\ Number(y) = Cardinality(Before(y))
    BY DEF Number
  <2>4. IsFiniteSet(Before(y))
    <3>1. Before(y) \in SUBSET FlowCalls
      OBVIOUS
    <3>2. QED
      BY <1>2, <3>1, FS_Subset
  <2> HIDE DEF Before
  <2>5. Before(y) = Before(x)
    BY <1>3, <2>1, <2>3, <2>4, FS_Subset
  <2>6. QED
    BY <2>2, <2>5
<1>4. v.step = w.step /\ v.call = w.call
  <2>1. v.step \in Nat /\ v.call \in Nat /\ w.step \in Nat /\ w.call \in Nat
    BY <1>1
  <2>2. ~(v.step < w.step \/ (v.step = w.step /\ v.call < w.call))
    BY <1>3
  <2>3. ~(w.step < v.step \/ (w.step = v.step /\ w.call < v.call))
    BY <1>3
  <2>4. QED
    BY <2>1, <2>2, <2>3
<1>5. v = FlowCall(v.step, v.call) /\ w = FlowCall(w.step, w.call)
  BY <1>1
<1>6. QED
  BY <1>4, <1>5

\* An attempt has the number its place in the flow has, and everything below it
\* is billed.
Progress(e) == IF e.pc = "in_step" THEN e.call ELSE 0
OnCourse(e, billed) ==
  /\ e.seq = Rank(e.step, Progress(e)) /\ e.seq <= billed
  /\ e.pc = "in_step" => e.try = 1 /\ e.calls = CallsOf(e.step + 1) /\ e.call <= e.calls

\* The references billed are the first numbers of the flow's calls, each for the
\* call that has it; attempts and their checkpoint go by the same numbers.
InOrder ==
  /\ used.limit["failures"] = 0 /\ Flow = OneFlow /\ ~ToolLoop
  /\ IsFiniteSet(usage) /\ {u.seq : u \in usage} = 0..(Bill - 1)
  /\ \A u \in usage : u.work \in FlowCalls /\ Number(u.work) = u.seq
  /\ row.checkpoint.seq = Rank(row.checkpoint.step, 0) /\ row.checkpoint.seq <= Bill
  /\ \A a \in Attempts : OnCourse(attempts[a], Bill)

\* The step billed nothing.
Unbilled == UNCHANGED usage /\ SameVersion /\ used'.limit = used.limit

LEMMA OrderType ==
  ASSUME Typed, InOrder, FlowIsFixed
  PROVE  /\ Cases # {} /\ Bill \in Nat /\ Len(OneFlow) \in Nat /\ Rank(0, 0) = 0
         /\ \A a \in Attempts :
              /\ attempts[a].seq \in Nat /\ attempts[a].step \in 0..Len(OneFlow)
              /\ attempts[a].call \in Nat
<1>1. Cases # {}
  BY DEF Typed, RowOK, Versions
<1>2. Bill \in Nat
  BY FS_CardinalityType DEF InOrder, Bill
<1>3. Len(OneFlow) \in Nat /\ Rank(0, 0) = 0
  BY <1>1, RankStarts, FlowCallsAre
<1>4. ASSUME NEW a \in Attempts
      PROVE  /\ attempts[a].seq \in Nat /\ attempts[a].step \in 0..Len(OneFlow)
             /\ attempts[a].call \in Nat
  <2>1. attempts[a] \in AttemptState(Len(Flow), Tries) /\ Flow = OneFlow
    BY ExecutionType DEF InOrder
  <2>2. QED
    BY <2>1 DEF AttemptState
<1>5. QED
  BY <1>1, <1>2, <1>3, <1>4

LEMMA OrderBy ==
  ASSUME Typed, InOrder, Unbilled,
         row'.checkpoint.seq = Rank(row'.checkpoint.step, 0), row'.checkpoint.seq <= Bill,
         \A a \in Attempts : OnCourse(attempts'[a], Bill)
  PROVE  InOrder'
<1>1. Bill' = Bill /\ usage' = usage /\ used'.limit = used.limit
  BY DEF Bill, Unbilled
<1>2. Flow' = Flow /\ ToolLoop' = ToolLoop
  BY DEF Unbilled, SameVersion, Flow, ToolLoop
<1>3. QED
  BY <1>1, <1>2 DEF InOrder

LEMMA OrderUpdate ==
  ASSUME Typed, InOrder, Unbilled, row'.checkpoint = row.checkpoint,
         NEW a \in Attempts, NEW f, attempts' = [attempts EXCEPT ![a] = f], OnCourse(f, Bill)
  PROVE  InOrder'
<1>1. \A b \in Attempts : attempts'[b] = IF b = a THEN f ELSE attempts[b]
  BY DEF Typed, AttemptsOK
<1>2. \A b \in Attempts : OnCourse(attempts'[b], Bill)
  BY <1>1 DEF InOrder
<1>3. row'.checkpoint.seq = Rank(row'.checkpoint.step, 0) /\ row'.checkpoint.seq <= Bill
  BY DEF InOrder
<1>4. QED
  BY <1>2, <1>3, OrderBy

\* An attempt that is given up, and one that goes on at the same place.
LEMMA OrderIdle ==
  ASSUME Typed, InOrder, FlowIsFixed
  PROVE  OnCourse(IdleAttempt, Bill)
         /\ \A j \in JobIds \cup {NoJob} :
              /\ OnCourse(Prepared(Empty, j), Bill)
              /\ OnCourse(Prepared(row.checkpoint, j), Bill)
              /\ OnCourse([Prepared(row.checkpoint, j) EXCEPT !.answered = TRUE], Bill)
<1>1. Rank(0, 0) = 0 /\ Bill \in Nat
  BY OrderType
<1>2. row.checkpoint.seq = Rank(row.checkpoint.step, 0) /\ row.checkpoint.seq <= Bill
  BY DEF InOrder
<1>3. /\ IdleAttempt.pc = "idle" /\ IdleAttempt.seq = 0 /\ IdleAttempt.step = 0
  BY DEF IdleAttempt, Attempt, Empty
<1>4. OnCourse(IdleAttempt, Bill)
  BY <1>1, <1>3 DEF OnCourse, Progress
<1>5. ASSUME NEW j \in JobIds \cup {NoJob}, NEW cp, cp.seq = Rank(cp.step, 0), cp.seq <= Bill
      PROVE  /\ OnCourse(Prepared(cp, j), Bill)
             /\ OnCourse([Prepared(cp, j) EXCEPT !.answered = TRUE], Bill)
  <2> DEFINE f == Prepared(cp, j)
             g == [f EXCEPT !.answered = TRUE]
  <2>1. f.pc = "prepared" /\ f.seq = cp.seq /\ f.step = cp.step
    BY DEF Prepared, Attempt
  <2>2. g.pc = "prepared" /\ g.seq = cp.seq /\ g.step = cp.step
    BY DEF Prepared, Attempt
  <2> HIDE DEF f, g
  <2>3. OnCourse(f, Bill) /\ OnCourse(g, Bill)
    BY <1>5, <2>1, <2>2 DEF OnCourse, Progress
  <2>4. QED
    BY <2>3 DEF f, g
<1>6. Empty.seq = Rank(Empty.step, 0) /\ Empty.seq <= Bill
  BY <1>1 DEF Empty
<1>7. QED
  BY <1>2, <1>4, <1>5, <1>6

LEMMA OrderOnward ==
  ASSUME Typed, InOrder, Unbilled, row'.checkpoint = row.checkpoint, NEW a \in Attempts,
         NEW f, attempts' = [attempts EXCEPT ![a] = f],
         f.seq = attempts[a].seq, f.step = attempts[a].step,
         f.pc # "in_step", attempts[a].pc # "in_step"
  PROVE  InOrder'
<1>1. OnCourse(attempts[a], Bill)
  BY DEF InOrder
<1>2. OnCourse(f, Bill)
  BY <1>1 DEF OnCourse, Progress
<1>3. QED
  BY <1>2, OrderUpdate

\* No call fails.
LEMMA NothingFails == ASSUME Typed, InOrder PROVE ~Use("failures")
<1>1. used.times["failures"] \in Nat
  BY DEF Typed, UsedOK, Bounds
<1>2. QED
  BY <1>1 DEF Use, InOrder

LEMMA UseKeepsLimit ==
  ASSUME Typed, NEW b \in Bounds, Use(b) PROVE used'.limit = used.limit
BY DEF Use, Typed, UsedOK

LEMMA RowKeepsCheckpoint ==
  ASSUME Typed, NEW s, row' = [row EXCEPT !.status = s]
  PROVE  row'.checkpoint = row.checkpoint /\ SameVersion
BY DEF Typed, RowOK, SameVersion

\* Requests.
LEMMA OrderRequests ==
  ASSUME Typed, InOrder, NEW r \in Requests, Ask(r) \/ Handle(r) \/ VanishRequest(r)
  PROVE  InOrder'
<1>1. UNCHANGED <<attempts, usage>>
  BY DEF Ask, Handle, queueRun, retryRun, stopRun, enqueueAgentRun, retryClearsStop,
         retryReopens, requestStop, stopClosesPending, VanishRequest
<1>2. used'.limit = used.limit
  <2>1. Use("retries") \/ Use("stops") \/ Use("vanished") \/ UNCHANGED used
    BY DEF Ask, Handle, queueRun, retryRun, stopRun, enqueueAgentRun, retryClearsStop,
           retryReopens, requestStop, stopClosesPending, VanishRequest
  <2>2. QED
    BY <2>1, UseKeepsLimit DEF Bounds
<1>3. row'.checkpoint = row.checkpoint /\ SameVersion
  <2>1. row' = row \/ \E s \in Statuses : row' = [row EXCEPT !.status = s]
    BY DEF Ask, Handle, queueRun, retryRun, stopRun, enqueueAgentRun, retryClearsStop,
           retryReopens, requestStop, stopClosesPending, VanishRequest, Statuses
  <2>2. QED
    BY <2>1, RowKeepsCheckpoint DEF SameVersion
<1>4. QED
  BY <1>1, <1>2, <1>3, OrderBy DEF Unbilled, InOrder

LEMMA OrderStarts ==
  ASSUME Typed, InOrder, FlowIsFixed, NEW a \in Attempts,
         prepare(a) \/ resume(a) \/ \E j \in JobIds : pickUp(a, j)
  PROVE  InOrder'
<1>1. /\ UNCHANGED usage /\ row'.checkpoint = row.checkpoint /\ SameVersion
      /\ used'.limit = used.limit
  <2>1. row' = row \/ row' = [row EXCEPT !.status = "pending"]
    BY DEF prepare, resume, pickUp
  <2>2. Use("answers") \/ UNCHANGED used
    BY DEF prepare, resume, pickUp
  <2>3. used'.limit = used.limit
    BY <2>2, UseKeepsLimit DEF Bounds
  <2>4. row'.checkpoint = row.checkpoint /\ SameVersion
    BY <2>1, RowKeepsCheckpoint DEF SameVersion
  <2>5. QED
    BY <2>3, <2>4 DEF prepare, resume, pickUp
<1>2. Unbilled
  BY <1>1 DEF Unbilled
<1>3. CASE UNCHANGED attempts
  BY <1>1, <1>2, <1>3, OrderBy DEF InOrder
<1>4. CASE \E j \in JobIds \cup {NoJob} :
             \/ attempts' = [attempts EXCEPT ![a] = Prepared(Empty, j)]
             \/ attempts' = [attempts EXCEPT ![a] = Prepared(row.checkpoint, j)]
             \/ attempts' = [attempts EXCEPT ![a] =
                              [Prepared(row.checkpoint, j) EXCEPT !.answered = TRUE]]
  <2>1. PICK j \in JobIds \cup {NoJob} :
             \/ attempts' = [attempts EXCEPT ![a] = Prepared(Empty, j)]
             \/ attempts' = [attempts EXCEPT ![a] = Prepared(row.checkpoint, j)]
             \/ attempts' = [attempts EXCEPT ![a] =
                              [Prepared(row.checkpoint, j) EXCEPT !.answered = TRUE]]
    BY <1>4
  <2>2. PICK f : /\ attempts' = [attempts EXCEPT ![a] = f]
                 /\ \/ f = Prepared(Empty, j) \/ f = Prepared(row.checkpoint, j)
                    \/ f = [Prepared(row.checkpoint, j) EXCEPT !.answered = TRUE]
    BY <2>1
  <2>3. OnCourse(f, Bill)
    BY <2>2, OrderIdle
  <2>4. QED
    BY <1>1, <1>2, <2>2, <2>3, OrderUpdate
<1>5. QED
  BY <1>3, <1>4 DEF prepare, resume, pickUp

LEMMA OrderFailures ==
  ASSUME Typed, InOrder, FlowIsFixed, NEW a \in Attempts, GoesWrong(a)
  PROVE  InOrder'
<1>1. ~Refuse(a) /\ ~loseCredential(a) /\ ~timeOut(a) /\ ~stepFails(a)
  BY NothingFails DEF Refuse, loseCredential, timeOut, stepFails
<1>2. CASE Crash(a) \/ VanishAttempt(a)
  <2>1. UNCHANGED <<row, usage>> /\ attempts' = [attempts EXCEPT ![a] = IdleAttempt]
    BY <1>2 DEF Crash, VanishAttempt
  <2>2. used'.limit = used.limit
    BY <1>2, UseKeepsLimit DEF Crash, VanishAttempt, Bounds
  <2>3. OnCourse(IdleAttempt, Bill)
    BY OrderIdle
  <2>4. Unbilled
    BY <2>1, <2>2 DEF Unbilled, SameVersion
  <2>5. QED
    BY <2>1, <2>3, <2>4, OrderUpdate
<1>3. CASE Stall(a)
  <2>1. PICK f : f = [attempts[a] EXCEPT !.holds = FALSE]
    OBVIOUS
  <2>2. UNCHANGED <<row, usage>> /\ attempts' = [attempts EXCEPT ![a] = f]
    BY <1>3, <2>1 DEF Stall
  <2>3. used'.limit = used.limit
    BY <1>3, UseKeepsLimit DEF Stall, Bounds
  <2>4. OnCourse(f, Bill)
    <3>1. attempts[a] \in AttemptState(Len(Flow), Tries) /\ OnCourse(attempts[a], Bill)
      BY ExecutionType DEF InOrder
    <3>2. /\ f.pc = attempts[a].pc /\ f.seq = attempts[a].seq /\ f.step = attempts[a].step
          /\ f.call = attempts[a].call /\ f.calls = attempts[a].calls /\ f.try = attempts[a].try
      BY <2>1, <3>1 DEF AttemptState
    <3>3. QED
      BY <3>1, <3>2 DEF OnCourse, Progress
  <2>5. Unbilled
    BY <2>2, <2>3 DEF Unbilled, SameVersion
  <2>6. QED
    BY <2>2, <2>4, <2>5, OrderUpdate
<1>4. QED
  BY <1>1, <1>2, <1>3 DEF GoesWrong

\* A step starts at its first call.
LEMMA OrderEnter ==
  ASSUME Typed, InOrder, FlowIsFixed, NEW a \in Attempts, enterStep(a)
  PROVE  InOrder'
<1>1. Unbilled /\ row'.checkpoint = row.checkpoint
  BY DEF enterStep, Unbilled, SameVersion
<1>2. /\ OnCourse(attempts[a], Bill) /\ attempts[a].pc = "between"
      /\ attempts[a].step < Len(Flow) /\ attempts[a] \in AttemptState(Len(Flow), Tries)
  BY ExecutionType DEF InOrder, enterStep
<1>3. CASE Leave(a, "asked")
  <2>1. PICK f : f = [attempts[a] EXCEPT !.pc = "ended", !.end = "asked"]
    OBVIOUS
  <2>2. attempts' = [attempts EXCEPT ![a] = f]
    BY <1>3, <2>1 DEF Leave
  <2>3. f.seq = attempts[a].seq /\ f.step = attempts[a].step /\ f.pc = "ended"
    BY <1>2, <2>1 DEF AttemptState
  <2>4. QED
    BY <1>1, <1>2, <2>2, <2>3, OrderOnward
<1>4. CASE \E c \in Flow[attempts[a].step + 1] :
             attempts' = [attempts EXCEPT ![a] =
               [attempts[a] EXCEPT !.pc = "in_step", !.try = 1, !.call = 0, !.calls = c]]
  <2>1. PICK c \in Flow[attempts[a].step + 1] :
             attempts' = [attempts EXCEPT ![a] =
               [attempts[a] EXCEPT !.pc = "in_step", !.try = 1, !.call = 0, !.calls = c]]
    BY <1>4
  <2>2. PICK f : f = [attempts[a] EXCEPT !.pc = "in_step", !.try = 1, !.call = 0, !.calls = c]
    OBVIOUS
  <2>3. /\ f.seq = attempts[a].seq /\ f.step = attempts[a].step /\ f.pc = "in_step"
        /\ f.try = 1 /\ f.call = 0 /\ f.calls = c
    BY <1>2, <2>2 DEF AttemptState
  <2>4. attempts[a].step + 1 \in 1..Len(OneFlow) /\ Flow = OneFlow
    BY <1>2, NextStepType DEF InOrder
  <2>5. PICK d \in Cases : TRUE
    BY OrderType
  <2>6. OneFlow[attempts[a].step + 1] = {CallsOf(attempts[a].step + 1)}
        /\ CallsOf(attempts[a].step + 1) \in Nat
    BY <2>4, <2>5, FixedFlow
  <2>7. c = CallsOf(attempts[a].step + 1) /\ c \in Nat
    BY <2>1, <2>4, <2>6
  <2>8. OnCourse(f, Bill)
    BY <1>2, <2>3, <2>7 DEF OnCourse, Progress
  <2>9. QED
    BY <1>1, <2>1, <2>2, <2>8, OrderUpdate
<1>5. QED
  BY <1>3, <1>4 DEF enterStep

\* A step that is done is the place before the next.
LEMMA OrderSettle ==
  ASSUME Typed, InOrder, FlowIsFixed, NEW a \in Attempts, checkpointRun(a)
  PROVE  InOrder'
<1>1. PICK done : done = [attempts[a] EXCEPT !.pc = "between", !.step = @ + 1]
  OBVIOUS
<1>2. /\ attempts' = [attempts EXCEPT ![a] = done]
      /\ row' = [row EXCEPT !.checkpoint = snapshot(done)]
      /\ UNCHANGED <<usage, used>> /\ attempts[a].pc = "in_step"
      /\ attempts[a].call = attempts[a].calls
  BY <1>1 DEF checkpointRun, Settle
<1>3. attempts[a] \in Execution /\ attempts[a] \in AttemptState(Len(Flow), Tries)
      /\ OnCourse(attempts[a], Bill) /\ Flow = OneFlow /\ ~ToolLoop
  BY ExecutionType DEF InOrder
<1>4. attempts[a].step < Len(Flow) /\ attempts[a].step \in Nat /\ Len(OneFlow) \in Nat
  BY <1>2, <1>3, OrderType DEF Execution, Executions, AttemptState
<1>5. /\ done.pc = "between" /\ done.step = attempts[a].step + 1
      /\ done.seq = attempts[a].seq
  BY <1>1, <1>3 DEF AttemptState
<1>6. attempts[a].seq = Rank(attempts[a].step, CallsOf(attempts[a].step + 1))
      /\ attempts[a].seq <= Bill
  BY <1>2, <1>3 DEF OnCourse, Progress
<1>7. Rank(attempts[a].step, CallsOf(attempts[a].step + 1)) = Rank(attempts[a].step + 1, 0)
  BY <1>3, <1>4, OrderType, RankStarts
<1>8. done.seq = Rank(done.step, 0) /\ done.seq <= Bill
  BY <1>5, <1>6, <1>7
<1>9. OnCourse(done, Bill)
  BY <1>5, <1>8 DEF OnCourse, Progress
<1>10. row'.checkpoint = snapshot(done) /\ Unbilled
  BY <1>2 DEF Typed, RowOK, Unbilled, SameVersion
<1>11. row'.checkpoint.seq = done.seq /\ row'.checkpoint.step = done.step
  BY <1>3, <1>10 DEF snapshot
<1>12. \A b \in Attempts : attempts'[b] = IF b = a THEN done ELSE attempts[b]
  BY <1>2 DEF Typed, AttemptsOK
<1>13. \A b \in Attempts : OnCourse(attempts'[b], Bill)
  BY <1>9, <1>12 DEF InOrder
<1>14. QED
  BY <1>8, <1>10, <1>11, <1>13, OrderBy

\* So is the place an attempt leaves off.
LEMMA OrderPersist ==
  ASSUME Typed, InOrder, FlowIsFixed, NEW a \in Attempts, persist(a)
  PROVE  InOrder'
<1>1. PICK f : f = [attempts[a] EXCEPT !.pc = "closed"]
  OBVIOUS
<1>2. PICK s : row' = [row EXCEPT !.status = s, !.checkpoint = snapshot(attempts[a])]
  BY DEF persist
<1>3. /\ attempts' = [attempts EXCEPT ![a] = f]
      /\ UNCHANGED <<usage, used>> /\ attempts[a].pc = "closing"
  BY <1>1 DEF persist
<1>4. attempts[a] \in AttemptState(Len(Flow), Tries)
      /\ OnCourse(attempts[a], Bill) /\ ~ToolLoop
  BY ExecutionType DEF InOrder
<1>5. f.pc = "closed" /\ f.step = attempts[a].step /\ f.seq = attempts[a].seq
  BY <1>1, <1>4 DEF AttemptState
<1>6. attempts[a].seq = Rank(attempts[a].step, 0) /\ attempts[a].seq <= Bill
  BY <1>3, <1>4 DEF OnCourse, Progress
<1>7. row'.checkpoint = snapshot(attempts[a]) /\ Unbilled
  BY <1>2, <1>3 DEF Typed, RowOK, Unbilled, SameVersion
<1>8. row'.checkpoint.seq = attempts[a].seq /\ row'.checkpoint.step = attempts[a].step
  BY <1>4, <1>7 DEF snapshot
<1>9. OnCourse(f, Bill)
  BY <1>5, <1>6 DEF OnCourse, Progress
<1>10. \A b \in Attempts : attempts'[b] = IF b = a THEN f ELSE attempts[b]
  BY <1>3 DEF Typed, AttemptsOK
<1>11. \A b \in Attempts : OnCourse(attempts'[b], Bill)
  BY <1>9, <1>10 DEF InOrder
<1>12. QED
  BY <1>6, <1>7, <1>8, <1>11, OrderBy

\* A charge under a number the ledger has changes nothing there; any other one
\* is the next number of the bill, and the call it pays for is the flow's next.
LEMMA OrderOfCharge ==
  ASSUME Typed, InOrder, FlowIsFixed, NEW a \in Attempts, charge(a)
  PROVE  \E s \in 0..(Len(OneFlow) - 1), k \in Nat : \E f :
           /\ attempts' = [attempts EXCEPT ![a] = f]
           /\ k < CallsOf(s + 1) /\ f.pc = "in_step" /\ f.try = 1 /\ f.step = s
           /\ f.call = k + 1 /\ f.calls = CallsOf(s + 1) /\ f.seq = Rank(s, k) + 1
           /\ \/ usage' = usage /\ Rank(s, k) < Bill
              \/ /\ Rank(s, k) = Bill
                 /\ usage' = usage \cup {[seq |-> Bill, work |-> FlowCall(s + 1, k + 1)]}
<1> DEFINE e == attempts[a]
           applied == \E u \in usage : u.seq = e.seq
           credits == IF applied THEN e.credits ELSE e.credits + 1
           f == [e EXCEPT !.call = e.call + 1, !.seq = e.seq + 1, !.credits = credits,
                          !.exhausted = e.exhausted \/ credits >= Ceiling]
           new == [seq |-> e.seq,
                   work |-> [step |-> e.step + 1, try |-> e.try, call |-> e.call + 1]]
<1>1. /\ attempts' = [attempts EXCEPT ![a] = f]
      /\ usage' = IF applied THEN usage ELSE usage \cup {new}
      /\ e.pc = "in_step" /\ e.call < e.calls
  BY DEF charge
<1>2. e \in Execution /\ e \in AttemptState(Len(Flow), Tries) /\ OnCourse(e, Bill)
      /\ Flow = OneFlow
  BY ExecutionType DEF InOrder
<1>3. e.step < Len(Flow) /\ e.step \in Nat /\ Len(OneFlow) \in Nat /\ e.call \in Nat
      /\ e.seq \in Nat /\ Bill \in Nat
  BY <1>1, <1>2, OrderType DEF Execution, Executions, AttemptState
<1> HIDE DEF credits
<1>4. /\ f.pc = "in_step" /\ f.step = e.step /\ f.call = e.call + 1 /\ f.seq = e.seq + 1
      /\ f.calls = e.calls /\ f.try = e.try
  BY <1>1, <1>2 DEF AttemptState
<1>5. e.try = 1 /\ e.calls = CallsOf(e.step + 1) /\ e.seq = Rank(e.step, e.call)
      /\ e.seq <= Bill
  BY <1>1, <1>2 DEF OnCourse, Progress
<1>6. applied <=> e.seq < Bill
  <2>1. applied <=> e.seq \in {u.seq : u \in usage}
    OBVIOUS
  <2>2. {u.seq : u \in usage} = 0..(Bill - 1)
    BY DEF InOrder
  <2>3. e.seq \in 0..(Bill - 1) <=> e.seq < Bill
    BY <1>3
  <2>4. QED
    BY <2>1, <2>2, <2>3
<1> HIDE DEF applied, f
<1>7. e.step \in 0..(Len(OneFlow) - 1)
  BY <1>2, <1>3
<1>8. new = [seq |-> e.seq, work |-> FlowCall(e.step + 1, e.call + 1)]
  BY <1>5 DEF FlowCall
<1> HIDE DEF new
<1>9. \/ usage' = usage /\ e.seq < Bill
      \/ e.seq = Bill /\ usage' = usage \cup {[seq |-> Bill, work |-> FlowCall(e.step + 1, e.call + 1)]}
  <2>1. CASE applied
    BY <1>1, <1>6, <2>1
  <2>2. CASE ~applied
    <3>1. e.seq = Bill
      BY <1>3, <1>5, <1>6, <2>2
    <3>2. QED
      BY <1>1, <1>8, <2>2, <3>1
  <2>3. QED
    BY <2>1, <2>2
<1>10. /\ attempts' = [attempts EXCEPT ![a] = f]
       /\ e.call < CallsOf(e.step + 1) /\ f.pc = "in_step" /\ f.try = 1 /\ f.step = e.step
       /\ f.call = e.call + 1 /\ f.calls = CallsOf(e.step + 1)
       /\ f.seq = Rank(e.step, e.call) + 1
  BY <1>1, <1>4, <1>5
<1>11. \/ usage' = usage /\ Rank(e.step, e.call) < Bill
       \/ /\ Rank(e.step, e.call) = Bill
          /\ usage' = usage \cup {[seq |-> Bill, work |-> FlowCall(e.step + 1, e.call + 1)]}
  BY <1>5, <1>9
<1>12. PICK s \in 0..(Len(OneFlow) - 1) : s = e.step
  BY <1>7
<1>13. PICK k \in Nat : k = e.call
  BY <1>3
<1>after. PICK g : g = f
  OBVIOUS
<1>14. /\ attempts' = [attempts EXCEPT ![a] = g]
       /\ k < CallsOf(s + 1) /\ g.pc = "in_step" /\ g.try = 1 /\ g.step = s
       /\ g.call = k + 1 /\ g.calls = CallsOf(s + 1) /\ g.seq = Rank(s, k) + 1
  BY <1>10, <1>12, <1>13, <1>after
<1>15. \/ usage' = usage /\ Rank(s, k) < Bill
       \/ /\ Rank(s, k) = Bill
          /\ usage' = usage \cup {[seq |-> Bill, work |-> FlowCall(s + 1, k + 1)]}
  BY <1>11, <1>12, <1>13
<1> HIDE DEF e
<1>16. QED
  BY <1>14, <1>15

LEMMA OrderCharge ==
  ASSUME Typed, InOrder, FlowIsFixed, NEW a \in Attempts, charge(a)
  PROVE  InOrder'
<1>1. Cases # {} /\ Bill \in Nat
  BY OrderType
<1>call. PICK s \in 0..(Len(OneFlow) - 1), k \in Nat : \E f :
           /\ attempts' = [attempts EXCEPT ![a] = f]
           /\ k < CallsOf(s + 1) /\ f.pc = "in_step" /\ f.try = 1 /\ f.step = s
           /\ f.call = k + 1 /\ f.calls = CallsOf(s + 1) /\ f.seq = Rank(s, k) + 1
           /\ \/ usage' = usage /\ Rank(s, k) < Bill
              \/ /\ Rank(s, k) = Bill
                 /\ usage' = usage \cup {[seq |-> Bill, work |-> FlowCall(s + 1, k + 1)]}
  BY OrderOfCharge
<1>2. PICK f :
           /\ attempts' = [attempts EXCEPT ![a] = f]
           /\ k < CallsOf(s + 1) /\ f.pc = "in_step" /\ f.try = 1 /\ f.step = s
           /\ f.call = k + 1 /\ f.calls = CallsOf(s + 1) /\ f.seq = Rank(s, k) + 1
           /\ \/ usage' = usage /\ Rank(s, k) < Bill
              \/ /\ Rank(s, k) = Bill
                 /\ usage' = usage \cup {[seq |-> Bill, work |-> FlowCall(s + 1, k + 1)]}
  BY <1>call
<1>3. PICK w : w = FlowCall(s + 1, k + 1)
  OBVIOUS
<1>4. PICK rank \in Nat : rank = Rank(s, k)
  <2>1. s \in Nat
    BY OrderType
  <2>2. Rank(s, k) \in Nat
    BY <1>1, <2>1, RankType
  <2>3. QED
    BY <2>2
<1>5. /\ w \in FlowCalls /\ Number(w) = rank /\ Rank(s, k + 1) = rank + 1
      /\ CallsOf(s + 1) \in Nat
  <2>1. s + 1 \in 1..Len(OneFlow)
    BY OrderType
  <2>2. CallsOf(s + 1) \in Nat
    BY <1>1, <2>1, FixedFlow
  <2>3. QED
    BY <1>1, <1>2, <1>3, <1>4, <2>2, RankGrows
<1>6. row' = row /\ used' = used
  BY DEF charge
<1>7. Flow' = Flow /\ ToolLoop' = ToolLoop
  BY <1>6 DEF Flow, ToolLoop
<1>8. \A b \in Attempts : attempts'[b] = IF b = a THEN f ELSE attempts[b]
  BY <1>2 DEF Typed, AttemptsOK
<1>9. PICK bill : bill = Bill'
  OBVIOUS
<1>10. /\ bill \in Nat /\ Bill <= bill /\ rank + 1 <= bill
       /\ IsFiniteSet(usage') /\ {u.seq : u \in usage'} = 0..(bill - 1)
       /\ \A u \in usage' : u.work \in FlowCalls /\ Number(u.work) = u.seq
  <2>1. CASE usage' = usage /\ Rank(s, k) < Bill
    <3>1. bill = Bill
      BY <1>9, <2>1 DEF Bill
    <3>2. QED
      BY <1>1, <1>4, <2>1, <3>1 DEF InOrder
  <2>2. CASE /\ Rank(s, k) = Bill
             /\ usage' = usage \cup {[seq |-> Bill, work |-> FlowCall(s + 1, k + 1)]}
    <3>1. PICK new : new = [seq |-> Bill, work |-> w]
      OBVIOUS
    <3>2. usage' = usage \cup {new} /\ new.seq = Bill /\ new.work = w /\ rank = Bill
      BY <1>3, <1>4, <2>2, <3>1
    <3>3. new \notin usage
      <4>1. Bill \notin 0..(Bill - 1)
        BY <1>1
      <4>2. Bill \notin {u.seq : u \in usage}
        BY <4>1 DEF InOrder
      <4>3. QED
        BY <3>2, <4>2
    <3>4. IsFiniteSet(usage) /\ {u.seq : u \in usage} = 0..(Bill - 1)
          /\ \A u \in usage : u.work \in FlowCalls /\ Number(u.work) = u.seq
      BY DEF InOrder
    <3>5. IsFiniteSet(usage \cup {new}) /\ Cardinality(usage \cup {new}) = Cardinality(usage) + 1
      BY ONLY <3>3, <3>4, FS_AddElement
    <3>6. IsFiniteSet(usage') /\ bill = Bill + 1
      BY <1>9, <3>2, <3>5 DEF Bill
    <3>7. {u.seq : u \in usage'} = 0..(bill - 1)
      <4>1. {u.seq : u \in usage'} = {u.seq : u \in usage} \cup {Bill}
        BY <3>2
      <4>2. 0..(bill - 1) = (0..(Bill - 1)) \cup {Bill}
        BY <1>1, <3>6
      <4>3. QED
        BY <3>4, <4>1, <4>2
    <3>8. \A u \in usage' : u.work \in FlowCalls /\ Number(u.work) = u.seq
      BY <1>5, <3>2, <3>4
    <3>9. QED
      BY <1>1, <3>2, <3>6, <3>7, <3>8
  <2>3. QED
    BY <1>2, <2>1, <2>2
<1>11. OnCourse(f, bill)
  <2>1. f.seq = rank + 1 /\ f.call = k + 1 /\ k + 1 <= f.calls
    BY <1>2, <1>4, <1>5
  <2>2. f.seq = Rank(f.step, f.call)
    BY <1>2, <1>5, <2>1
  <2>3. QED
    BY <1>2, <1>10, <2>1, <2>2 DEF OnCourse, Progress
<1>12. \A b \in Attempts : OnCourse(attempts'[b], bill)
  <2>1. ASSUME NEW b \in Attempts, b # a PROVE OnCourse(attempts'[b], bill)
    <3>1. OnCourse(attempts[b], Bill) /\ attempts[b].seq \in Nat
      BY OrderType DEF InOrder
    <3>2. OnCourse(attempts[b], bill)
      BY <1>1, <1>10, <3>1 DEF OnCourse
    <3>3. QED
      BY <1>8, <2>1, <3>2
  <2>2. QED
    BY <1>8, <1>11, <2>1
<1>13. row.checkpoint.seq = Rank(row.checkpoint.step, 0) /\ row.checkpoint.seq <= bill
  <2>1. row.checkpoint.seq \in Nat
    BY DEF Typed, RowOK, Checkpoint
  <2>2. QED
    BY <1>1, <1>10, <2>1 DEF InOrder
<1>14. QED
  BY <1>6, <1>7, <1>9, <1>10, <1>12, <1>13 DEF InOrder

LEMMA OrderExecution ==
  ASSUME Typed, InOrder, FlowIsFixed, NEW a \in Attempts, Execute(a)
  PROVE  InOrder'
<1>1. attempts[a] \in AttemptState(Len(Flow), Tries)
  BY ExecutionType
<1>2. ASSUME startAttempt(a) PROVE InOrder'
  <2>1. PICK f : f = [attempts[a] EXCEPT !.pc = "claimed"]
    OBVIOUS
  <2>2. attempts' = [attempts EXCEPT ![a] = f] /\ attempts[a].pc = "prepared"
    BY <1>2, <2>1 DEF startAttempt
  <2>3. f.pc = "claimed" /\ f.seq = attempts[a].seq /\ f.step = attempts[a].step
    BY <1>1, <2>1 DEF AttemptState
  <2>4. row'.checkpoint = row.checkpoint /\ Unbilled
    BY <1>2 DEF startAttempt, Unbilled, SameVersion, Typed, RowOK
  <2>5. QED
    BY <2>2, <2>3, <2>4, OrderOnward
<1>3. ASSUME findCredential(a) PROVE InOrder'
  <2>1. PICK f : f = [attempts[a] EXCEPT !.pc = "between"]
    OBVIOUS
  <2>2. attempts' = [attempts EXCEPT ![a] = f] /\ attempts[a].pc = "claimed"
    BY <1>3, <2>1 DEF findCredential
  <2>3. f.pc = "between" /\ f.seq = attempts[a].seq /\ f.step = attempts[a].step
    BY <1>1, <2>1 DEF AttemptState
  <2>4. row'.checkpoint = row.checkpoint /\ Unbilled
    BY <1>3 DEF findCredential, Unbilled, SameVersion
  <2>5. QED
    BY <2>2, <2>3, <2>4, OrderOnward
<1>4. ASSUME stopBetween(a) \/ finish(a) PROVE InOrder'
  <2>1. PICK end : Leave(a, end)
    BY <1>4 DEF stopBetween, finish
  <2>2. PICK f : f = [attempts[a] EXCEPT !.pc = "ended", !.end = end]
    OBVIOUS
  <2>3. attempts' = [attempts EXCEPT ![a] = f] /\ attempts[a].pc = "between"
    BY <1>4, <2>1, <2>2 DEF Leave, stopBetween, finish
  <2>4. f.pc = "ended" /\ f.seq = attempts[a].seq /\ f.step = attempts[a].step
    BY <1>1, <2>2 DEF AttemptState
  <2>5. row'.checkpoint = row.checkpoint /\ Unbilled
    BY <1>4 DEF stopBetween, finish, Unbilled, SameVersion
  <2>6. QED
    BY <2>3, <2>4, <2>5, OrderOnward
<1>5. ASSUME decide(a) PROVE InOrder'
  <2>1. PICK end : attempts' = [attempts EXCEPT ![a] =
                     [attempts[a] EXCEPT !.pc = "closing", !.end = end]]
    BY <1>5 DEF decide
  <2>2. PICK f : f = [attempts[a] EXCEPT !.pc = "closing", !.end = end]
    OBVIOUS
  <2>3. attempts' = [attempts EXCEPT ![a] = f] /\ attempts[a].pc = "ended"
    BY <1>5, <2>1, <2>2 DEF decide
  <2>4. f.pc = "closing" /\ f.seq = attempts[a].seq /\ f.step = attempts[a].step
    BY <1>1, <2>2 DEF AttemptState
  <2>5. row'.checkpoint = row.checkpoint /\ Unbilled
    BY <1>5 DEF decide, Unbilled, SameVersion
  <2>6. QED
    BY <2>3, <2>4, <2>5, OrderOnward
<1>6. ASSUME clearStop(a) PROVE InOrder'
  <2>1. UNCHANGED <<row, usage, used>> /\ attempts' = [attempts EXCEPT ![a] = IdleAttempt]
    BY <1>6 DEF clearStop
  <2>2. OnCourse(IdleAttempt, Bill)
    BY OrderIdle
  <2>3. QED
    BY <2>1, <2>2, OrderUpdate DEF Unbilled, SameVersion
<1>7. QED
  BY <1>2, <1>3, <1>4, <1>5, <1>6, OrderEnter, OrderCharge, OrderSettle, OrderPersist
     DEF Execute

LEMMA OrderInit == Init /\ FlowIsFixed => InOrder
<1> SUFFICES ASSUME Init, FlowIsFixed PROVE InOrder
  OBVIOUS
<1>1. PICK c \in Cases :
        /\ row = [version |-> c.version, streamed |-> c.streamed, status |-> "none",
                  attempts |-> 0, checkpoint |-> Empty]
        /\ used = [slots |-> c.slots, limit |-> c.limit, times |-> [b \in Bounds |-> 0]]
  BY DEF Init
<1>2. /\ row.version = c.version /\ row.checkpoint = Empty /\ used.limit = c.limit
      /\ usage = {} /\ \A a \in Attempts : attempts[a] = IdleAttempt
  BY <1>1 DEF Init
<1>3. Flow = OneFlow /\ ~ToolLoop /\ used.limit["failures"] = 0
  BY <1>2 DEF FlowIsFixed, Flow, ToolLoop
<1>4. Bill = 0 /\ IsFiniteSet(usage)
  BY <1>2, FS_EmptySet DEF Bill
<1>5. {u.seq : u \in usage} = 0..(Bill - 1)
  BY <1>2, <1>4
<1>6. Rank(0, 0) = 0
  BY RankStarts
<1>7. Empty.seq = 0 /\ Empty.step = 0
  BY DEF Empty
<1>8. OnCourse(IdleAttempt, Bill)
  <2>1. IdleAttempt.pc = "idle" /\ IdleAttempt.seq = 0 /\ IdleAttempt.step = 0
    BY DEF IdleAttempt, Attempt, Empty
  <2>2. QED
    BY <1>4, <1>6, <2>1 DEF OnCourse, Progress
<1>9. QED
  BY <1>2, <1>3, <1>4, <1>5, <1>6, <1>7, <1>8 DEF InOrder

LEMMA OrderStep == Typed /\ InOrder /\ FlowIsFixed /\ [Next]_vars => InOrder'
<1> SUFFICES ASSUME Typed, InOrder, FlowIsFixed, [Next]_vars PROVE InOrder'
  OBVIOUS
<1>1. ASSUME stopExpires \/ UNCHANGED vars PROVE InOrder'
  <2>1. UNCHANGED <<row, attempts, usage, used>>
    BY <1>1 DEF stopExpires, vars
  <2>2. Unbilled /\ row'.checkpoint = row.checkpoint
    BY <2>1 DEF Unbilled, SameVersion
  <2>3. QED
    BY <2>1, <2>2, OrderBy DEF InOrder
<1>2. QED
  BY <1>1, OrderRequests, OrderStarts, OrderExecution, OrderFailures DEF Next

-----------------------------------------------------------------------------
(* The bill is that of the flow.                                           *)

\* Every number of the bill has the one call the flow makes under it.
LEMMA PaidInOrder ==
  ASSUME Typed, Typed', InOrder, InOrder', FlowIsFixed, [Next]_vars
  PROVE  [Promise!Pay]_Paid
<1>1. CASE usage' = usage
  BY <1>1 DEF Paid
<1>2. CASE usage' # usage
  <2>1. PICK a \in Attempts : charge(a)
    BY <1>2 DEF Next, vars, Ask, Handle, VanishRequest, Execute, GoesWrong, queueRun, retryRun,
            stopRun, enqueueAgentRun, retryClearsStop, retryReopens, requestStop,
            stopClosesPending, prepare, resume, pickUp, startAttempt, findCredential,
            stopBetween, enterStep, checkpointRun, finish, decide, persist, clearStop,
            Refuse, Crash, Stall, VanishAttempt, loseCredential, timeOut, stepFails,
            stopExpires
  <2>2. PICK s \in 0..(Len(OneFlow) - 1), k \in Nat :
          /\ k < CallsOf(s + 1) /\ Rank(s, k) = Bill
          /\ usage' = usage \cup {[seq |-> Bill, work |-> FlowCall(s + 1, k + 1)]}
    BY <1>2, <2>1, OrderOfCharge
  <2>3. PICK w : w = FlowCall(s + 1, k + 1)
    OBVIOUS
  <2>4. PICK n : n = Cardinality(FlowCalls)
    OBVIOUS
  <2>5. /\ Cases # {} /\ Bill \in Nat /\ n \in Nat
        /\ w \in FlowCalls /\ Number(w) = Bill /\ Bill < n
    BY <2>2, <2>3, <2>4, OrderType, FlowCallsAre, FS_CardinalityType, RankGrows
  <2>6. Bill' = Bill + 1
    <3>1. Bill' \in Nat /\ {u.seq : u \in usage'} = 0..(Bill' - 1)
      <4>1. IsFiniteSet(usage') /\ {u.seq : u \in usage'} = 0..(Bill' - 1)
        BY DEF InOrder
      <4>2. Cardinality(usage') \in Nat
        BY <4>1, FS_CardinalityType
      <4>3. QED
        BY <4>1, <4>2 DEF Bill
    <3>2. {u.seq : u \in usage'} = 0..Bill
      <4>1. {u.seq : u \in usage'} = {u.seq : u \in usage} \cup {Bill}
        <5>1. PICK new : new = [seq |-> Bill, work |-> w]
          OBVIOUS
        <5>2. usage' = usage \cup {new} /\ new.seq = Bill
          BY <2>2, <2>3, <5>1
        <5>3. QED
          BY <5>2
      <4>2. {u.seq : u \in usage} = 0..(Bill - 1)
        BY DEF InOrder
      <4>3. 0..Bill = (0..(Bill - 1)) \cup {Bill}
        BY <2>5
      <4>4. QED
        BY <4>1, <4>2, <4>3
    <3>3. QED
      BY <2>5, <3>1, <3>2
  <2>7. PICK len \in Nat : len = Bill
    BY <2>5
  <2>8. Paid = [i \in 1..len |-> {u.work : u \in {v \in usage : v.seq = i - 1}}]
        /\ Paid' = [i \in 1..(len + 1) |-> {u.work : u \in {v \in usage' : v.seq = i - 1}}]
    <3>1. Cardinality(usage) = len /\ Cardinality(usage)' = len + 1
      BY <2>6, <2>7 DEF Bill
    <3>2. QED
      BY <3>1 DEF Paid
  <2>9. Len(Paid) = len /\ Paid \in Seq(SUBSET {u.work : u \in usage})
    <3>1. \A i \in 1..len : Paid[i] \in SUBSET {u.work : u \in usage}
      BY <2>8
    <3>2. Paid \in [1..len -> SUBSET {u.work : u \in usage}]
      BY <2>8, <3>1
    <3>3. QED
      BY <3>2
  <2>10. Len(FlowBill) = n /\ FlowBill[len + 1] = {w}
    <3>1. FlowBill = [i \in 1..n |-> {v \in FlowCalls : Number(v) = i - 1}]
      BY <2>4 DEF FlowBill
    <3>2. FlowBill \in [1..n -> SUBSET FlowCalls]
      BY <3>1
    <3>3. Len(FlowBill) = n
      BY <2>5, <3>2
    <3>4. FlowBill[len + 1] = {v \in FlowCalls : Number(v) = Bill}
      BY <2>5, <2>7, <3>1
    <3>5. {v \in FlowCalls : Number(v) = Bill} = {w}
      BY <2>5, NumbersDiffer
    <3>6. QED
      BY <3>3, <3>4, <3>5
  <2>11. ASSUME NEW i \in 1..len
         PROVE  {u.work : u \in {v \in usage' : v.seq = i - 1}}
                  = {u.work : u \in {v \in usage : v.seq = i - 1}}
    <3>1. i - 1 # Bill
      BY <2>7
    <3>2. {v \in usage' : v.seq = i - 1} = {v \in usage : v.seq = i - 1}
      BY <2>2, <3>1
    <3>3. QED
      BY <3>2
  <2>12. {u.work : u \in {v \in usage' : v.seq = len + 1 - 1}} = {w}
    <3>1. \A v \in usage : v.seq # Bill
      <4>1. {u.seq : u \in usage} = 0..(Bill - 1) /\ Bill \notin 0..(Bill - 1)
        BY <2>5 DEF InOrder
      <4>2. QED
        BY <4>1
    <3>2. PICK new : new = [seq |-> Bill, work |-> w]
      OBVIOUS
    <3>3. new.seq = Bill /\ new.work = w /\ usage' = usage \cup {new}
      BY <2>2, <2>3, <3>2
    <3>4. len + 1 - 1 = Bill
      BY <2>7
    <3>5. {v \in usage' : v.seq = len + 1 - 1} = {new}
      BY <3>1, <3>3, <3>4
    <3>6. QED
      BY <3>3, <3>5
  <2>13. Paid' = Append(Paid, {w})
    <3>1. Paid' = [i \in 1..(len + 1) |-> IF i = len + 1 THEN {w} ELSE Paid[i]]
      <4>1. ASSUME NEW i \in 1..(len + 1)
            PROVE  {u.work : u \in {v \in usage' : v.seq = i - 1}}
                     = IF i = len + 1 THEN {w} ELSE Paid[i]
        <5>1. CASE i = len + 1
          <6>1. {v \in usage' : v.seq = i - 1} = {v \in usage' : v.seq = len + 1 - 1}
            BY <5>1
          <6>2. QED
            BY <2>12, <5>1, <6>1
        <5>2. CASE i # len + 1
          <6>1. i \in 1..len
            BY <2>7, <5>2
          <6>2. Paid[i] = {u.work : u \in {v \in usage : v.seq = i - 1}}
            BY <2>8, <6>1
          <6>3. QED
            BY <2>11, <5>2, <6>1, <6>2
        <5>3. QED
          BY <5>1, <5>2
      <4>2. QED
        BY <2>8, <4>1
    <3>2. Append(Paid, {w}) = [i \in 1..(len + 1) |-> IF i = len + 1 THEN {w} ELSE Paid[i]]
      BY <2>9
    <3>3. QED
      BY <3>1, <3>2
  <2>14. Len(Paid) < Len(FlowBill) /\ FlowBill[Len(Paid) + 1] = {w}
    BY <2>5, <2>7, <2>9, <2>10
  <2>15. QED
    BY <2>13, <2>14 DEF Promise!Pay
<1>3. QED
  BY <1>1, <1>2

LEMMA PaidFromNothing == Init => Promise!Init
<1> SUFFICES ASSUME Init PROVE Paid = << >>
  BY DEF Promise!Init
<1>1. usage = {} /\ Cardinality(usage) = 0
  BY FS_EmptySet DEF Init
<1>2. Paid = [i \in 1..0 |-> {u.work : u \in {v \in usage : v.seq = i - 1}}]
  BY <1>1 DEF Paid
<1>3. QED
  BY <1>2

\* Whenever every case runs one flow of known calls and none of them fails, the
\* references a run bills under are the flow's calls in order, each once, whoever
\* dies, stops, retries or answers and however often a job is delivered: AgentRun
\* implements RunBill (checkpoint.ts, nextSeq; runner.ts, charge).
THEOREM RunsAreBilledInOrder == FlowIsFixed /\ Spec => BilledInOrder
<1>1. FlowIsFixed /\ Init => Typed /\ InOrder /\ Promise!Init
  BY TypedInit, OrderInit, PaidFromNothing
<1>2. FlowIsFixed /\ Typed /\ InOrder /\ [Next]_vars => Typed' /\ InOrder'
  BY TypedStep, OrderStep
<1>3. FlowIsFixed /\ Typed /\ InOrder /\ Typed' /\ InOrder' /\ [Next]_vars => [Promise!Pay]_Paid
  BY PaidInOrder
<1>4. FlowIsFixed => [](FlowIsFixed)
  OBVIOUS
<1>5. QED
  BY <1>1, <1>2, <1>3, <1>4, PTL DEF Spec, BilledInOrder, Promise!Spec
=============================================================================
