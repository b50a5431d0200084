------------------------------ MODULE AgentRun ------------------------------
(***************************************************************************)
(* One agent run: the row, the queue that executes it, the checkpoint an   *)
(* attempt leaves, the steps it bills, and the people who stop, retry and  *)
(* answer it (src/src/modules/agent/: agent.service.ts, runner.ts,         *)
(* checkpoint.ts, loop.ts; src/src/queue/agent.jobs.ts).                   *)
(*                                                                         *)
(* The run executes one published version of an agent, chosen by Init and  *)
(* never changed: a flow from left to right, where flow[n] is the set of   *)
(* numbers of provider calls that step n may make, or the rounds of a tool *)
(* loop, whose checkpoint keeps the numbering and the credits but not the  *)
(* conversation.  A call costs one credit.  One action is one statement on *)
(* the run, on the ledger, on Redis or on the queue.                       *)
(***************************************************************************)
EXTENDS Integers, Sequences, FiniteSets

CONSTANTS
  Attempts,      \* concurrent executions of stream: worker slots, SSE requests
  Requests,      \* concurrent executions of queueRun, retryRun and stopRun
  Cases,         \* versions, how the run is started, and the bounds for it
  MaxClaims,     \* bound on the attempts of a run
  MaxStalled,    \* BullMQ: how often a job may lose its worker
  MaxThrown      \* BullMQ: how often a job may throw

(* A case is a version of an agent, whether its first attempt runs inside the *)
(* request (prepare) or on the queue, how many attempts may go on at once     *)
(* (slots), and a bound for each kind of event:                               *)
(*   failures: refusals, provider errors and timeouts;                        *)
(*   crashes:  workers that die;                                              *)
(*   stalls:   jobs handed to a second worker while the first goes on;        *)
(*   stops, retries, answers: what people ask for;                            *)
(*   vanished: requests whose process dies.                                   *)
Bounds == {"failures", "crashes", "stalls", "stops", "retries", "answers", "vanished"}

ASSUME VersionsAssumption ==
  \A v \in {c.version : c \in Cases} :
    /\ v.flow \in Seq(SUBSET Nat)
    /\ \A n \in DOMAIN v.flow : v.flow[n] # {} /\ IsFiniteSet(v.flow[n])
    /\ v.question \in 0..Len(v.flow)     \* the step that waits for a person, or 0
    /\ v.question # 0 => v.flow[v.question] = {0}
    /\ v.toolLoop \in BOOLEAN           \* a single-prompt agent with tools, no graph
    /\ v.tries \in Nat \ {0}             \* onError.retries + 1
    /\ v.tolerant \subseteq DOMAIN v.flow \* steps whose policy carries on
    /\ v.ceiling \in Nat \ {0}           \* creditCeiling
ASSUME CasesAssumption ==
  \A c \in Cases :
    c.streamed \in BOOLEAN /\ c.slots \in Nat \ {0} /\ c.limit \in [Bounds -> Nat]
ASSUME AttemptsAssumption == IsFiniteSet(Attempts)
ASSUME BoundsAssumption == {MaxClaims, MaxStalled, MaxThrown} \subseteq Nat

VARIABLES
  row,       \* the agent_run row: version, streamed, status, attempts, checkpoint
  jobs,      \* the queue's jobs, by the attempt their id names
  stopFlag,  \* the key agent:stop in Redis
  attempts,  \* the executions of stream
  requests,  \* the executions of queueRun, retryRun and stopRun
  usage,     \* usage_ledger: which work each reference paid for
  writes,    \* history: how often what the question guards was executed
  used       \* how often each kind of event happened, and its limit

vars == <<row, jobs, stopFlag, attempts, requests, usage, writes, used>>

-----------------------------------------------------------------------------
Flow == row.version.flow
Steps == DOMAIN Flow
Question == row.version.question
ToolLoop == row.version.toolLoop
Tries == row.version.tries
Tolerant == row.version.tolerant
Ceiling == row.version.ceiling

NoJob == -1
JobIds == 0..MaxClaims

Statuses == {"none", "pending", "running", "awaiting_input", "succeeded",
             "failed", "stopped"}
Ended == {"succeeded", "failed", "stopped"}

\* Mutant: a worker takes up only what no attempt started.
PICKUP_STATUSES_PendingOnly == {"pending"}

PICKUP_STATUSES == {"pending", "running"}
RETRYABLE_STATUSES == {"failed", "stopped"}

\* The work one provider call does: the step, the try of its error policy, the
\* position of the call in it.
Work == [step : Steps, try : 1..Tries, call : Nat]

Empty == [step |-> 0, seq |-> 0, credits |-> 0, answered |-> FALSE]
\* An attempt as it starts, from what the checkpoint cp knows.
Attempt(pc, cp, job) ==
  [pc |-> pc, job |-> job, holds |-> job # NoJob, step |-> cp.step, seq |-> cp.seq,
   credits |-> cp.credits, answered |-> cp.answered, exhausted |-> FALSE, try |-> 1,
   call |-> 0, calls |-> 0, end |-> "none"]
IdleAttempt == Attempt("idle", Empty, NoJob)
IdleRequest == [pc |-> "idle", status |-> "none", attempts |-> 0]
NewJob == [state |-> "none", stalled |-> 0, thrown |-> 0]

Use(bound) ==
  /\ used.times[bound] < used.limit[bound]
  /\ used' = [used EXCEPT !.times[bound] = @ + 1]

\* A worker or a request is free to execute the run.
Free(a) ==
  /\ attempts[a] = IdleAttempt
  /\ Cardinality({b \in Attempts : attempts[b] # IdleAttempt}) < used.slots

Prepared(cp, job) == Attempt("prepared", cp, job)

\* Mutant: a checkpoint forgets the numbering.
snapshot_NoSeq(e) ==
  [step |-> e.step, seq |-> 0, credits |-> e.credits, answered |-> e.answered]

\* Mutant: the tool loop's checkpoint keeps an answer.
snapshot_KeepsAnswer(e) ==
  [step |-> IF ToolLoop /\ e.end # "asked" THEN 0 ELSE e.step,
   seq |-> e.seq, credits |-> e.credits, answered |-> e.answered]

\* snapshot: the tool loop's progress is kept only by a pause.
snapshot(e) ==
  [step |-> IF ToolLoop /\ e.end # "asked" THEN 0 ELSE e.step,
   seq |-> e.seq,
   credits |-> e.credits,
   answered |-> ~ToolLoop /\ e.answered]

Init ==
  /\ \E c \in Cases :
       /\ row = [version |-> c.version, streamed |-> c.streamed, status |-> "none",
                 attempts |-> 0, checkpoint |-> Empty]
       /\ used = [slots |-> c.slots, limit |-> c.limit, times |-> [b \in Bounds |-> 0]]
  /\ jobs = [j \in JobIds |-> NewJob]
  /\ stopFlag = FALSE
  /\ attempts = [a \in Attempts |-> IdleAttempt]
  /\ requests = [r \in Requests |-> IdleRequest]
  /\ usage = {}
  /\ writes = 0

-----------------------------------------------------------------------------
(* Requests.                                                               *)

\* queueRun: the row, then the job.
queueRun(r) ==
  /\ ~row.streamed
  /\ row.status = "none"
  /\ requests[r] = IdleRequest
  /\ row' = [row EXCEPT !.status = "pending"]
  /\ requests' = [requests EXCEPT ![r].pc = "enqueue"]
  /\ UNCHANGED <<jobs, stopFlag, attempts, usage, writes, used>>

\* prepare: the row, and the attempt in the same request.
prepare(a) ==
  /\ row.streamed
  /\ row.status = "none"
  /\ Free(a)
  /\ row' = [row EXCEPT !.status = "pending"]
  /\ attempts' = [attempts EXCEPT ![a] = Prepared(Empty, NoJob)]
  /\ UNCHANGED <<jobs, stopFlag, requests, usage, writes, used>>

\* enqueueAgentRun: the id names the attempt, and adding an id the queue still
\* keeps does nothing.
enqueueAgentRun(r) ==
  /\ requests[r].pc = "enqueue"
  /\ jobs' = [jobs EXCEPT ![requests[r].attempts].state =
                IF @ = "none" THEN "waiting" ELSE @]
  /\ requests' = [requests EXCEPT ![r] = IdleRequest]
  /\ UNCHANGED <<row, stopFlag, attempts, usage, writes, used>>

\* retryRun reads the row, clears the flag, reopens the row, adds the job.
retryRun(r) ==
  /\ Use("retries")
  /\ requests[r] = IdleRequest
  /\ row.status \in RETRYABLE_STATUSES
  /\ requests' = [requests EXCEPT ![r] =
       [pc |-> "clear", status |-> row.status, attempts |-> row.attempts]]
  /\ UNCHANGED <<row, jobs, stopFlag, attempts, usage, writes>>

retryClearsStop(r) ==
  /\ requests[r].pc = "clear"
  /\ stopFlag' = FALSE
  /\ requests' = [requests EXCEPT ![r].pc = "reopen"]
  /\ UNCHANGED <<row, jobs, attempts, usage, writes, used>>

retryReopens(r) ==
  /\ requests[r].pc = "reopen"
  /\ row' = [row EXCEPT !.status = "pending"]
  /\ requests' = [requests EXCEPT ![r].pc = "enqueue"]
  /\ UNCHANGED <<jobs, stopFlag, attempts, usage, writes, used>>

\* stopRun reads the row, sets the flag, and closes a run it read as pending.
stopRun(r) ==
  /\ Use("stops")
  /\ requests[r] = IdleRequest
  /\ row.status # "none"
  /\ requests' = [requests EXCEPT ![r] =
       [pc |-> "flag", status |-> row.status, attempts |-> row.attempts]]
  /\ UNCHANGED <<row, jobs, stopFlag, attempts, usage, writes>>

requestStop(r) ==
  /\ requests[r].pc = "flag"
  /\ stopFlag' = TRUE
  /\ requests' = [requests EXCEPT ![r] =
       IF @.status = "pending" THEN [@ EXCEPT !.pc = "close"] ELSE IdleRequest]
  /\ UNCHANGED <<row, jobs, attempts, usage, writes, used>>

stopClosesPending(r) ==
  /\ requests[r].pc = "close"
  /\ row' = [row EXCEPT !.status = "stopped"]
  /\ requests' = [requests EXCEPT ![r] = IdleRequest]
  /\ UNCHANGED <<jobs, stopFlag, attempts, usage, writes, used>>

\* The flag has a time to live.
stopExpires ==
  /\ stopFlag
  /\ stopFlag' = FALSE
  /\ UNCHANGED <<row, jobs, attempts, requests, usage, writes, used>>

\* resume: a person answers, in a request that executes the rest.
resume(a) ==
  /\ Use("answers")
  /\ Free(a)
  /\ row.status = "awaiting_input"
  /\ attempts' = [attempts EXCEPT ![a] =
       [Prepared(row.checkpoint, NoJob) EXCEPT !.answered = TRUE]]
  /\ UNCHANGED <<row, jobs, stopFlag, requests, usage, writes>>

-----------------------------------------------------------------------------
(* The queue and its workers.                                              *)

Release(job) == [jobs EXCEPT ![job].state = "done"]
\* A job past its limits: the queue keeps it as failed and nobody executes it.
GiveUp(job) == [jobs EXCEPT ![job].state = "failed"]

\* Mutant: a worker picks up a run whatever its status.
pickUp_AnyStatus(a, j) ==
  /\ Free(a)
  /\ jobs[j].state = "waiting"
  /\ attempts' = [attempts EXCEPT ![a] = Prepared(row.checkpoint, j)]
  /\ jobs' = [jobs EXCEPT ![j].state = "active"]
  /\ UNCHANGED <<row, stopFlag, requests, usage, writes, used>>

\* pickUp: a job whose run is neither pending nor running is done.
pickUp(a, j) ==
  /\ Free(a)
  /\ jobs[j].state = "waiting"
  /\ IF row.status \in PICKUP_STATUSES
     THEN /\ attempts' = [attempts EXCEPT ![a] = Prepared(row.checkpoint, j)]
          /\ jobs' = [jobs EXCEPT ![j].state = "active"]
     ELSE jobs' = Release(j) /\ UNCHANGED attempts
  /\ UNCHANGED <<row, stopFlag, requests, usage, writes, used>>

\* A job whose processor throws is tried again MaxThrown times; one that the
\* attempt no longer holds is not touched.
Thrown(e) ==
  IF ~e.holds THEN jobs
  ELSE IF jobs[e.job].thrown < MaxThrown
  THEN [jobs EXCEPT ![e.job].state = "waiting", ![e.job].thrown = @ + 1]
  ELSE GiveUp(e.job)

\* A job that loses its worker is tried again MaxStalled times.
Stalled(job) ==
  IF jobs[job].stalled < MaxStalled
  THEN [jobs EXCEPT ![job].state = "waiting", ![job].stalled = @ + 1]
  ELSE GiveUp(job)

Finished(e) == IF e.holds THEN Release(e.job) ELSE jobs

\* A check refuses the run after its row was read: no credits, no model.  An
\* answer that is refused leaves the run waiting.
Refuse(a) ==
  LET e == attempts[a] IN
  /\ Use("failures")
  /\ e.pc = "prepared"
  /\ row' = IF e.job = NoJob /\ e.answered THEN row
            ELSE [row EXCEPT !.status = "failed"]
  /\ jobs' = Thrown(e)
  /\ attempts' = [attempts EXCEPT ![a] = IdleAttempt]
  /\ UNCHANGED <<stopFlag, requests, usage, writes>>

\* A worker dies, and the queue notices.
Crash(a) ==
  LET e == attempts[a] IN
  /\ Use("crashes")
  /\ e.pc # "idle" /\ e.job # NoJob
  /\ jobs' = IF e.holds THEN Stalled(e.job) ELSE jobs
  /\ attempts' = [attempts EXCEPT ![a] = IdleAttempt]
  /\ UNCHANGED <<row, stopFlag, requests, usage, writes>>

\* A worker that is alive fails to renew its lock.
Stall(a) ==
  LET e == attempts[a] IN
  /\ Use("stalls")
  /\ e.pc # "idle" /\ e.holds
  /\ jobs' = Stalled(e.job)
  /\ attempts' = [attempts EXCEPT ![a].holds = FALSE]
  /\ UNCHANGED <<row, stopFlag, requests, usage, writes>>

\* The process of a request dies: one that executes, or one that enqueues.
VanishAttempt(a) ==
  /\ Use("vanished")
  /\ attempts[a].pc # "idle" /\ attempts[a].job = NoJob
  /\ attempts' = [attempts EXCEPT ![a] = IdleAttempt]
  /\ UNCHANGED <<row, jobs, stopFlag, requests, usage, writes>>

VanishRequest(r) ==
  /\ Use("vanished")
  /\ requests[r] # IdleRequest
  /\ requests' = [requests EXCEPT ![r] = IdleRequest]
  /\ UNCHANGED <<row, jobs, stopFlag, attempts, usage, writes>>

-----------------------------------------------------------------------------
(* One attempt: stream.                                                    *)

\* startAttempt: unconditional.
startAttempt(a) ==
  /\ attempts[a].pc = "prepared"
  /\ row.attempts < MaxClaims
  /\ row' = [row EXCEPT !.status = "running", !.attempts = @ + 1]
  /\ attempts' = [attempts EXCEPT ![a].pc = "claimed"]
  /\ UNCHANGED <<jobs, stopFlag, requests, usage, writes, used>>

\* requireCredential, before anything that would close the run.
findCredential(a) ==
  /\ attempts[a].pc = "claimed"
  /\ attempts' = [attempts EXCEPT ![a].pc = "between"]
  /\ UNCHANGED <<row, jobs, stopFlag, requests, usage, writes, used>>

loseCredential(a) ==
  /\ Use("failures")
  /\ attempts[a].pc = "claimed"
  /\ jobs' = Thrown(attempts[a])
  /\ attempts' = [attempts EXCEPT ![a] = IdleAttempt]
  /\ UNCHANGED <<row, stopFlag, requests, usage, writes>>

Leave(a, end) == attempts' = [attempts EXCEPT ![a].pc = "ended", ![a].end = end]

\* stopCheck at a boundary that has a step after it.
stopBetween(a) ==
  LET e == attempts[a] IN
  /\ e.pc = "between" /\ e.step < Len(Flow)
  /\ e.exhausted \/ stopFlag
  /\ Leave(a, "stopped")
  /\ UNCHANGED <<row, jobs, stopFlag, requests, usage, writes, used>>

timeOut(a) ==
  LET e == attempts[a] IN
  /\ Use("failures")
  /\ e.pc = "between" /\ e.step < Len(Flow)
  /\ ~e.exhausted
  /\ Leave(a, "timed_out")
  /\ UNCHANGED <<row, jobs, stopFlag, requests, usage, writes>>

\* The next step starts; a question nobody answered pauses the run.
enterStep(a) ==
  LET e == attempts[a] IN
  /\ e.pc = "between" /\ e.step < Len(Flow)
  /\ ~e.exhausted /\ ~stopFlag
  /\ IF e.step + 1 = Question /\ ~e.answered
     THEN Leave(a, "asked") /\ UNCHANGED writes
     ELSE /\ \E c \in Flow[e.step + 1] :
               attempts' = [attempts EXCEPT ![a] =
                 [e EXCEPT !.pc = "in_step", !.try = 1, !.call = 0, !.calls = c]]
          /\ writes' = IF e.step + 1 = Question THEN writes + 1 ELSE writes
  /\ UNCHANGED <<row, jobs, stopFlag, requests, usage, used>>

\* Mutant: the ceiling is never noticed.
charge_NoCeiling(a) ==
  LET e == attempts[a]
      work == [step |-> e.step + 1, try |-> e.try, call |-> e.call + 1]
      applied == \E u \in usage : u.seq = e.seq
      credits == IF applied THEN e.credits ELSE e.credits + 1
  IN
  /\ e.pc = "in_step" /\ e.call < e.calls
  /\ usage' = IF applied THEN usage ELSE usage \cup {[seq |-> e.seq, work |-> work]}
  /\ attempts' = [attempts EXCEPT ![a] =
       [e EXCEPT !.call = @ + 1, !.seq = @ + 1, !.credits = credits]]
  /\ UNCHANGED <<row, jobs, stopFlag, requests, writes, used>>

\* charge: a reference the ledger has is not charged again; the step row takes
\* the number either way.  A round of the tool loop is a checkpoint.
charge(a) ==
  LET e == attempts[a]
      work == [step |-> e.step + 1, try |-> e.try, call |-> e.call + 1]
      applied == \E u \in usage : u.seq = e.seq
      credits == IF applied THEN e.credits ELSE e.credits + 1
  IN
  /\ e.pc = "in_step" /\ e.call < e.calls
  /\ usage' = IF applied THEN usage ELSE usage \cup {[seq |-> e.seq, work |-> work]}
  /\ attempts' = [attempts EXCEPT ![a] =
       [e EXCEPT !.call = @ + 1, !.seq = @ + 1, !.credits = credits,
                 !.exhausted = @ \/ credits >= Ceiling]]
  /\ UNCHANGED <<row, jobs, stopFlag, requests, writes, used>>

\* checkpoint: the step is done and the row says so.
Settle(a) ==
  LET done == [attempts[a] EXCEPT !.pc = "between", !.step = @ + 1] IN
  /\ attempts' = [attempts EXCEPT ![a] = done]
  /\ row' = [row EXCEPT !.checkpoint = snapshot(done)]

checkpointRun(a) ==
  /\ attempts[a].pc = "in_step" /\ attempts[a].call = attempts[a].calls
  /\ Settle(a)
  /\ UNCHANGED <<jobs, stopFlag, requests, usage, writes, used>>

\* A provider call or its charge throws: the step is tried again from its
\* start under new numbers, or its policy carries on, or the run fails.
stepFails(a) ==
  LET e == attempts[a] IN
  /\ Use("failures")
  /\ e.pc = "in_step" /\ e.call < e.calls
  /\ \/ /\ e.try < Tries
        /\ \E c \in Flow[e.step + 1] :
             attempts' = [attempts EXCEPT ![a] =
               [e EXCEPT !.try = @ + 1, !.call = 0, !.calls = c]]
        /\ UNCHANGED row
     \/ e.try = Tries /\ e.step + 1 \in Tolerant /\ Settle(a)
     \/ e.try = Tries /\ e.step + 1 \notin Tolerant /\ Leave(a, "failed") /\ UNCHANGED row
  /\ UNCHANGED <<jobs, stopFlag, requests, usage, writes>>

finish(a) ==
  /\ attempts[a].pc = "between" /\ attempts[a].step = Len(Flow)
  /\ Leave(a, "finished")
  /\ UNCHANGED <<row, jobs, stopFlag, requests, usage, writes, used>>

\* Which of the bounds ended the run: a person outranks the machine, and a
\* pause outranks both.
decide(a) ==
  LET e == attempts[a] IN
  /\ e.pc = "ended"
  /\ attempts' = [attempts EXCEPT ![a] =
       [e EXCEPT !.pc = "closing",
                 !.end = CASE @ = "asked" -> "asked"
                           [] @ # "asked" /\ stopFlag -> "stopped"
                           [] @ # "asked" /\ ~stopFlag
                              /\ (@ = "timed_out" \/ e.exhausted) -> "failed"
                           [] OTHER -> @]]
  /\ UNCHANGED <<row, jobs, stopFlag, requests, usage, writes, used>>

\* Mutant: a failed run that left some answer counts as a success.
Outcome_AnswerSucceeds(end) ==
  CASE end = "asked" -> {"awaiting_input"}
    [] end = "stopped" -> {"stopped"}
    [] end \in {"failed", "finished"} -> {"succeeded", "failed"}

\* A finished flow that produced no text is a failure.
Outcome(end) ==
  CASE end = "asked" -> {"awaiting_input"}
    [] end = "stopped" -> {"stopped"}
    [] end = "failed" -> {"failed"}
    [] end = "finished" -> {"succeeded", "failed"}

\* persist: the outcome and the checkpoint, whatever the row says by now.
persist(a) ==
  LET e == attempts[a] IN
  /\ e.pc = "closing"
  /\ \E status \in Outcome(e.end) :
       row' = [row EXCEPT !.status = status, !.checkpoint = snapshot(e)]
  /\ attempts' = [attempts EXCEPT ![a].pc = "closed"]
  /\ UNCHANGED <<jobs, stopFlag, requests, usage, writes, used>>

\* clearStop, unless the run waits; the job is done.
clearStop(a) ==
  LET e == attempts[a] IN
  /\ e.pc = "closed"
  /\ stopFlag' = (stopFlag /\ e.end = "asked")
  /\ jobs' = Finished(e)
  /\ attempts' = [attempts EXCEPT ![a] = IdleAttempt]
  /\ UNCHANGED <<row, requests, usage, writes, used>>

-----------------------------------------------------------------------------
Handle(r) ==
  \/ enqueueAgentRun(r) \/ retryClearsStop(r) \/ retryReopens(r)
  \/ requestStop(r) \/ stopClosesPending(r)

Ask(r) == queueRun(r) \/ retryRun(r) \/ stopRun(r)

Execute(a) ==
  \/ startAttempt(a) \/ findCredential(a) \/ stopBetween(a) \/ enterStep(a)
  \/ charge(a) \/ checkpointRun(a) \/ finish(a) \/ decide(a) \/ persist(a)
  \/ clearStop(a)

GoesWrong(a) ==
  \/ Refuse(a) \/ Crash(a) \/ Stall(a) \/ VanishAttempt(a) \/ loseCredential(a)
  \/ timeOut(a) \/ stepFails(a)

Next ==
  \/ \E r \in Requests : Ask(r) \/ Handle(r) \/ VanishRequest(r)
  \/ \E a \in Attempts :
       \/ prepare(a) \/ resume(a) \/ Execute(a) \/ GoesWrong(a)
       \/ \E j \in JobIds : pickUp(a, j)
  \/ stopExpires

Spec == Init /\ [][Next]_vars

\* A request that started and an attempt that runs go on; a waiting job is
\* taken once a worker is free.
Fairness ==
  /\ \A r \in Requests : WF_vars(Handle(r))
  /\ \A a \in Attempts : WF_vars(Execute(a))
  /\ WF_vars(\E a \in Attempts, j \in JobIds : pickUp(a, j))

FairSpec == Spec /\ Fairness

-----------------------------------------------------------------------------
(* Properties.                                                             *)

\* Types of the state.
TypeOK ==
  /\ row \in [version : {c.version : c \in Cases}, streamed : BOOLEAN,
              status : Statuses, attempts : JobIds,
              checkpoint : [step : 0..Len(Flow), seq : Nat, credits : Nat,
                            answered : BOOLEAN]]
  /\ jobs \in [JobIds -> [state : {"none", "waiting", "active", "done", "failed"},
                          stalled : 0..MaxStalled, thrown : 0..MaxThrown]]
  /\ stopFlag \in BOOLEAN
  /\ attempts \in [Attempts ->
       [pc : {"idle", "prepared", "claimed", "between", "in_step", "ended",
              "closing", "closed"},
        job : JobIds \cup {NoJob}, holds : BOOLEAN, step : 0..Len(Flow),
        seq : Nat, credits : Nat, answered : BOOLEAN, exhausted : BOOLEAN,
        try : 1..Tries, call : Nat, calls : Nat,
        end : {"none", "asked", "stopped", "timed_out", "failed", "finished"}]]
  /\ requests \in [Requests ->
       [pc : {"idle", "enqueue", "clear", "reopen", "flag", "close"},
        status : Statuses, attempts : JobIds]]
  /\ usage \subseteq [seq : Nat, work : Work]
  /\ writes \in Nat

\* Work that is done again after an attempt died is not billed again: no two
\* references of the usage ledger pay for the same call (checkpoint.ts, the
\* note on seq; runner.ts, the note on checkpointRun).
ReplayedWorkIsFree ==
  \A u, v \in usage : u.work = v.work => u = v

\* A step number the run already wrote is the same step: a charge that the
\* ledger refuses as already applied is for the work the ledger has under that
\* number (agent.repository.ts, insertStep).
StepIsTheSameStep ==
  \A a \in Attempts :
    LET e == attempts[a] IN
    e.pc = "in_step" /\ e.call < e.calls =>
      \A u \in usage :
        u.seq = e.seq =>
          u.work = [step |-> e.step + 1, try |-> e.try, call |-> e.call + 1]

Happened(bound) == used.times[bound] > 0

\* The case lets one attempt at a time execute the run.
OneAtATime == used.slots = 1

\* When nothing executes it, a run that ended shows no credit it was not billed,
\* and every one it was, unless an attempt died or two of them wrote the count:
\* this is the count its ceiling is held against (checkpoint.ts, credits).
CreditsCoverTheBill ==
  (row.status \in Ended /\ \A a \in Attempts : attempts[a] = IdleAttempt) =>
    /\ row.checkpoint.credits <= Cardinality(usage)
    /\ \/ row.checkpoint.credits = Cardinality(usage)
       \/ Happened("crashes") \/ Happened("vanished") \/ ~OneAtATime

\* The most provider calls of any step; one, at least.
MostCalls ==
  LET counts == {1} \cup UNION {Flow[n] : n \in Steps}
  IN CHOOSE c \in counts : \A d \in counts : d <= c

\* The most calls one execution of a step can bill: a try that fails stops short
\* of its last call.
LargestStep == (Tries - 1) * (MostCalls - 1) + MostCalls

\* The ceiling is noticed at a boundary, so each attempt may pass it by the step
\* it is in and by no more (runner.ts, charge and stopCheck).  Each attempt counts
\* what itself was charged: two at once may each come up to the ceiling.
CeilingHolds ==
  OneAtATime => Cardinality(usage) < Ceiling + row.attempts * LargestStep

\* The books of a run: what it is held to have cost is what was billed, and its
\* ceiling bounds that, over every attempt and its checkpoints (runner.ts, charge).
BudgetsHold == TypeOK /\ CeilingHolds /\ CreditsCoverTheBill

\* While one attempt at a time executes it, a flow succeeds only when it got to
\* the end, whichever attempt executed which part (runner.ts, persist); what a
\* tool loop leaves has no position.
SucceededIsComplete ==
  row.status = "succeeded" /\ OneAtATime /\ ~ToolLoop => row.checkpoint.step = Len(Flow)

\* Nothing behind the question is billed before a person answered, neither by
\* the attempt that paused nor by a retry or a worker that picks the run up.
AskedFirst ==
  Question # 0 => \A u \in usage : u.work.step > Question => Happened("answers")

\* In a tool loop every execution of an approved write is one a person said yes
\* to: no retry, redelivery or second attempt executes it on an old answer
\* (runner.ts, runSingle).
WritesAreApproved == ToolLoop => writes <= used.times["answers"]

\* What waits for a person waits for one: what is behind a question, and every
\* execution of a write (runner.ts, resume and runSingle).
ApprovalsHold == AskedFirst /\ WritesAreApproved

\* At most one attempt executes the run (runner.ts, startAttempt: "Claims the
\* run for this attempt").
OneExecution ==
  \A a, b \in Attempts :
    {attempts[a].pc, attempts[b].pc} \subseteq {"between", "in_step"} => a = b

\* While one attempt at a time executes it, nobody stops it and no two people
\* retry it at once, a run that ended changes again only when it is retried, and
\* a run that succeeded never does: the repeats of its job do nothing
\* (agent.processor.ts, runAgent; agent.service.ts, retryRun).
EndedUntilRetried ==
  [][(/\ OneAtATime /\ ~Happened("stops") /\ used.times["retries"] <= 1
      /\ row.status \in Ended /\ row'.status # row.status) =>
       row.status \in RETRYABLE_STATUSES /\ row'.status = "pending"]_vars

\* A job of the run was lost or thrown more often than the queue repeats it.
GivenUp == \E j \in JobIds : jobs[j].state = "failed"

\* A queued run ends or waits for a person, whatever its workers meet, until
\* somebody retries or answers it, or the queue gives its job up.  Then the run
\* may stay "running" for ever: no one but the queue looks for it again.
QueuedRunEnds ==
  (row.status \in {"pending", "running"} /\ ~row.streamed) ~>
    \/ row.status \notin {"pending", "running"}
    \/ Happened("retries") \/ Happened("answers")
    \/ GivenUp

\* A run that waits for a worker gets one, the first time and when it is retried
\* (agent.jobs.ts: "a deliberate retry is a different attempt and does run").
PendingRunRuns == row.status = "pending" ~> row.status # "pending"

\* A run that was claimed is closed.
RunningRunCloses == row.status = "running" ~> row.status # "running"

-----------------------------------------------------------------------------
(* What a run bills, when its flow says what that is.                      *)

\* The flow the cases have in common, and the calls its step n makes.
OneFlow == (CHOOSE c \in Cases : TRUE).version.flow
CallsOf(n) == CHOOSE c \in OneFlow[n] : TRUE

\* Every case executes that flow, each step makes one known number of calls, and
\* no call fails.
FlowIsFixed ==
  /\ \A n \in DOMAIN OneFlow : OneFlow[n] = {CallsOf(n)}
  /\ \A c \in Cases :
       c.version.flow = OneFlow /\ ~c.version.toolLoop /\ c.limit["failures"] = 0

\* The calls of the flow, and how many come before one of them.
FlowCalls ==
  UNION {{[step |-> n, try |-> 1, call |-> c] : c \in 1..CallsOf(n)} : n \in DOMAIN OneFlow}
Number(w) ==
  Cardinality({v \in FlowCalls : v.step < w.step \/ (v.step = w.step /\ v.call < w.call)})

\* The calls in order, each as the set that holds it.
FlowBill == [i \in 1..Cardinality(FlowCalls) |-> {w \in FlowCalls : Number(w) = i - 1}]

\* What the usage ledger says was paid, by number.
Paid ==
  [i \in 1..Cardinality(usage) |-> {u.work : u \in {v \in usage : v.seq = i - 1}}]

Promise == INSTANCE RunBill WITH Bill <- FlowBill, paid <- Paid

\* The references a run bills under are those of the abstract bill, whoever
\* crashes and however often a job is delivered (checkpoint.ts, nextSeq).
BilledInOrder == Promise!Spec
=============================================================================
