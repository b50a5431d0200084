-------------------------------- MODULE ToolLoop -------------------------------
(***************************************************************************)
(* The conversation of an agent without a flow: the model is asked, asks   *)
(* for tools, gets their results and is asked again, until it answers or a *)
(* bound ends it.  What it costs is charged behind each answer and each    *)
(* tool, which may be refused.  A tool that writes may wait for a person;  *)
(* the run is left, and taken up by another attempt.  What an attempt that *)
(* failed or died does again is in AgentRun.                               *)
(***************************************************************************)
EXTENDS Integers, Sequences, FiniteSets, SequencesExt

CONSTANTS MaxRounds,      \* version.maxRounds
          MaxAsked,       \* bound: rounds of all attempts together
          MaxCalls,       \* bound: calls a model makes in one round
          MaxResumes      \* bound: how often a person answers

VARIABLES approveWrites,  \* version.approveWrites
          at, round, asked,
          messages,       \* behind the question: the model's turns and results
          pending,        \* calls of this round without a result
          reason,         \* how the loop ended
          stopping,       \* somebody asked the run to stop
          billed,         \* history: what was charged, rounds and calls
          executed,       \* history: the calls that were executed
          costly,         \* history: those of them that cost something
          approved,       \* history: the calls a person said yes to
          resumes,
          dropped         \* history: calls behind one that waited for a person

lopVars == <<approveWrites, at, round, asked, messages, pending, reason, stopping, billed,
             executed, costly, approved, resumes, dropped>>

Reasons == {"answered", "max_rounds", "stopped", "ceiling", "no_credits"}
Kinds == {"read", "write"}
(* executeTool never raises: each outcome is a result the model reads.     *)
Outcomes == {"ok", "unknown_tool", "invalid_json", "invalid_arguments", "tool_failed"}
Executes(outcome) == outcome \in {"ok", "tool_failed"}

Call(n, k, kind) == [round |-> n, nth |-> k, kind |-> kind]
Round(n) == Call(n, 0, "model")
Turn(calls) == [role |-> "assistant", calls |-> calls]
Result(call) == [role |-> "tool", call |-> call]

LopInit ==
  /\ approveWrites \in BOOLEAN
  /\ at = "asking" /\ round = 0 /\ asked = 0 /\ messages = <<>> /\ pending = <<>>
  /\ reason = "none" /\ stopping = FALSE
  /\ billed = <<>> /\ executed = <<>> /\ costly = {}
  /\ approved = {} /\ resumes = 0 /\ dropped = {}

End(why) == at' = "over" /\ reason' = why

--------------------------------------------------------------------------------
(* One model call, streamed.  It may be cut off by a stop, which is seen   *)
(* between tokens.                                                         *)
Ask(calls, seen) ==
  /\ at = "asking" /\ round < MaxRounds /\ asked < MaxAsked
  /\ seen => stopping
  /\ round' = round + 1 /\ asked' = asked + 1
  /\ at' = IF seen THEN "cut" ELSE "answered"
  /\ pending' = IF seen THEN <<>> ELSE calls
  /\ UNCHANGED <<approveWrites, messages, reason, stopping, billed, executed, costly,
                 approved, resumes, dropped>>

(* Whatever ended it, the round is charged; then the model's turn joins    *)
(* the conversation.                                                       *)
ChargeRound ==
  /\ at \in {"answered", "cut"}
  /\ billed' = Append(billed, Round(asked))
  /\ IF at = "cut" THEN End("stopped") /\ UNCHANGED messages
     ELSE /\ messages' = Append(messages, Turn(pending))
          /\ IF pending = <<>> THEN End("answered") ELSE at' = "calling" /\ UNCHANGED reason
  /\ UNCHANGED <<approveWrites, round, asked, pending, stopping, executed, costly, approved,
                 resumes, dropped>>

(* The provider fails half way, and so does the run: nothing is charged.   *)
AskFails ==
  /\ at = "asking" /\ round < MaxRounds
  /\ at' = "failed"
  /\ UNCHANGED <<approveWrites, round, asked, messages, pending, reason, stopping, billed,
                 executed, costly, approved, resumes, dropped>>

NoRoundsLeft ==
  /\ at = "asking" /\ round = MaxRounds /\ End("max_rounds")
  /\ UNCHANGED <<approveWrites, round, asked, messages, pending, stopping, billed,
                 executed, costly, approved, resumes, dropped>>

NeedsApproval(call) == approveWrites /\ call.kind = "write"

(* The call is left before anything has happened, with the conversation.   *)
AwaitApproval ==
  /\ at = "calling" /\ pending # <<>> /\ NeedsApproval(Head(pending))
  /\ at' = "waiting"
  /\ UNCHANGED <<approveWrites, round, asked, messages, pending, reason, stopping, billed,
                 executed, costly, approved, resumes, dropped>>

(* A tool runs, or answers why not.  Only readers cost something.          *)
RunTool(outcome, priced) ==
  LET call == Head(pending)
  IN  /\ at = "calling" /\ pending # <<>> /\ ~NeedsApproval(call)
      /\ priced => Executes(outcome) /\ call.kind = "read"
      /\ at' = IF priced THEN "owing" ELSE "recording"
      /\ executed' = IF Executes(outcome) THEN Append(executed, call) ELSE executed
      /\ costly' = IF priced THEN costly \cup {call} ELSE costly
      /\ UNCHANGED <<approveWrites, round, asked, messages, pending, reason, stopping,
                     billed, approved, resumes, dropped>>

(* A call that cost something is charged, one that did not is recorded;    *)
(* then its result joins the conversation.                                 *)
ChargeCall ==
  /\ at \in {"owing", "recording"}
  /\ billed' = IF at = "owing" THEN Append(billed, Head(pending)) ELSE billed
  /\ messages' = Append(messages, Result(Head(pending)))
  /\ pending' = Tail(pending) /\ at' = "calling"
  /\ UNCHANGED <<approveWrites, round, asked, reason, stopping, executed, costly, approved,
                 resumes, dropped>>

(* What is due now: a round, a call that cost something, or nothing.       *)
Due == CASE at \in {"answered", "cut"} -> <<Round(asked)>>
         [] at = "owing" -> <<Head(pending)>>
         [] OTHER -> <<>>

(* The charge is refused, or the step or the checkpoint behind it is not   *)
(* written: the run fails, with what it was answered.                      *)
ChargeFails ==
  /\ at \in {"answered", "cut", "owing", "recording"}
  /\ billed' \in {billed, billed \o Due}
  /\ at' = "failed" /\ pending' = <<>>
  /\ UNCHANGED <<approveWrites, round, asked, messages, reason, stopping, executed, costly,
                 approved, resumes, dropped>>

(* All calls have a result: the bounds, and then the stop.                 *)
CheckBounds(verdict) ==
  /\ at = "calling" /\ pending = <<>>
  /\ IF verdict # "ok" THEN End(verdict)
     ELSE \/ at' = "asking" /\ UNCHANGED reason
          \/ stopping /\ End("stopped")
  /\ UNCHANGED <<approveWrites, round, asked, messages, pending, stopping, billed,
                 executed, costly, approved, resumes, dropped>>

(* Another attempt, with the person's answer: the call that waited is      *)
(* executed or declined, and the loop starts with its rounds anew.  The    *)
(* calls behind it in its round are not in what the pause kept.            *)
Resume(yes, outcome) ==
  LET call == Head(pending)
  IN  /\ at = "waiting" /\ resumes < MaxResumes /\ resumes' = resumes + 1
      /\ approved' = IF yes THEN approved \cup {call} ELSE approved
      /\ executed' = IF yes /\ Executes(outcome) THEN Append(executed, call) ELSE executed
      /\ messages' = Append(messages, Result(call))
      /\ dropped' = dropped \cup ToSet(Tail(pending)) /\ pending' = <<>>
      /\ round' = 0
      /\ \/ at' = "asking" /\ UNCHANGED reason
         \/ stopping /\ End("stopped")
      /\ UNCHANGED <<approveWrites, asked, stopping, billed, costly>>

RequestStop ==
  /\ ~stopping /\ at \notin {"over", "failed"} /\ stopping' = TRUE
  /\ UNCHANGED <<approveWrites, at, round, asked, messages, pending, reason, billed,
                 executed, costly, approved, resumes, dropped>>

(* What a model can ask for in its next round.                             *)
Wishes == UNION {[1..n -> Kinds] : n \in 0..MaxCalls}
Calls(kinds) == [k \in DOMAIN kinds |-> Call(asked + 1, k, kinds[k])]

LopNext ==
  \/ \E kinds \in Wishes, seen \in BOOLEAN : Ask(Calls(kinds), seen)
  \/ ChargeRound \/ ChargeCall \/ ChargeFails
  \/ AskFails \/ NoRoundsLeft \/ AwaitApproval
  \/ \E outcome \in Outcomes, priced \in BOOLEAN : RunTool(outcome, priced)
  \/ \E verdict \in {"ok", "ceiling", "no_credits"} : CheckBounds(verdict)
  \/ \E yes \in BOOLEAN, outcome \in Outcomes : Resume(yes, outcome)
  \/ RequestStop

LopSpec == LopInit /\ [][LopNext]_lopVars

--------------------------------------------------------------------------------
LopTypeOK ==
  /\ at \in {"asking", "answered", "cut", "calling", "owing", "recording", "waiting", "over",
             "failed"}
  /\ at = "over" <=> reason \in Reasons
  /\ round \in 0..MaxRounds /\ asked \in 0..MaxAsked
  /\ resumes \in 0..MaxResumes

ResultsAt(call) == {i \in DOMAIN messages : messages[i] = Result(call)}
CallsOf(i) == IF messages[i].role = "assistant" THEN ToSet(messages[i].calls) ELSE {}
Made == UNION {CallsOf(i) : i \in DOMAIN messages}

(* A result stands once, behind the turn that made its call; and when the  *)
(* model is asked, every call it made has one, but for those behind a call *)
(* that waited for a person.                                               *)
ResultsAnswerCalls ==
  /\ \A i \in DOMAIN messages : messages[i].role = "tool" =>
       /\ ResultsAt(messages[i].call) = {i}
       /\ \E j \in 1..(i - 1) : messages[i].call \in CallsOf(j)
  /\ at = "asking" => \A call \in Made : ResultsAt(call) # {} \/ call \in dropped

Charged == ToSet(billed)
Rounds(n) == {Round(k) : k \in 1..n}
Owed == (Rounds(asked) \cup costly) \ Charged

(* A loop that goes on, or ended otherwise than by failing, was charged    *)
(* each round the model answered, stopped or not, and each call that cost, *)
(* once; at most one answer stands uncharged, and then the loop has failed *)
(* or is about to be charged for it.  A call is executed once at most, and *)
(* a write only on this call's own yes where a yes is needed.  An answer   *)
(* is what ended a loop that says so.                                      *)
LoopIsAccounted ==
  /\ LopTypeOK /\ ResultsAnswerCalls
  /\ IsInjective(billed) /\ IsInjective(executed)
  /\ Charged \subseteq Rounds(asked) \cup costly /\ costly \subseteq ToSet(executed)
  /\ \A a, b \in Owed : a = b
  /\ Owed # {} => at \in {"answered", "cut", "owing", "failed"}
  /\ approveWrites => \A i \in DOMAIN executed :
                        executed[i].kind = "write" => executed[i] \in approved
  /\ reason = "answered" => Last(messages) = Turn(<<>>)
  /\ reason = "stopped" => stopping

(* "The model cannot be asked anything until the tool call it made has an  *)
(* answer" (runner.ts, runSingle); it is, when a round with several calls  *)
(* waited for a person.                                                    *)
EveryCallIsAnswered == at = "asking" => \A call \in Made : ResultsAt(call) # {}
================================================================================
