----------------------------- MODULE MCAgentRun -----------------------------
(* Instances of AgentRun for TLC. *)
EXTENDS AgentRun, TLC

CONSTANTS a1, a2, r1, r2

OneOrTwo == {1, 2}
PlainFlow == <<{2}, {1}, {2}>>
AskingFlow == <<{1}, {0}, OneOrTwo>>
ApprovingFlow == <<{1}, {0}, {1}>>

\* A version without retries, question, tolerance or a ceiling in reach.
Plain(flow) ==
  [flow |-> flow, question |-> 0, toolLoop |-> FALSE, tries |-> 1,
   tolerant |-> {}, ceiling |-> 9]

Queued(version, slots, limit) ==
  [version |-> version, streamed |-> FALSE, slots |-> slots, limit |-> limit]
Quiet == [b \in Bounds |-> 0]

\* A worker dies, a job is delivered twice at once, people stop and retry.
CrashCase ==
  Queued(Plain(PlainFlow), 2,
         [Quiet EXCEPT !["crashes"] = 1, !["stalls"] = 1, !["stops"] = 1, !["retries"] = 1])

\* Retried steps, a crash and a retry under a low ceiling.
CeilingCase ==
  Queued([Plain(PlainFlow) EXCEPT !.tries = 2, !.ceiling = 2], 1,
         [Quiet EXCEPT !["failures"] = 1, !["crashes"] = 1, !["stops"] = 1, !["retries"] = 1])

\* A question, and every way a check or a provider can refuse.
AskingCase ==
  Queued([Plain(AskingFlow) EXCEPT !.question = 2, !.tries = 2, !.tolerant = {1}, !.ceiling = 2], 1,
         [Quiet EXCEPT !["failures"] = 2, !["crashes"] = 1, !["retries"] = 1, !["answers"] = 1])

\* A streamed tool loop with an approval that two people give.
ApprovingCase ==
  [version |-> [Plain(ApprovingFlow) EXCEPT !.question = 2, !.toolLoop = TRUE],
   streamed |-> TRUE, slots |-> 2,
   limit |-> [Quiet EXCEPT !["failures"] = 1, !["retries"] = 1, !["answers"] = 2, !["vanished"] = 1]]

\* A queued run left to the machines, but for a stop: more deaths and more
\* failures than the queue repeats a job for.
UnattendedCase ==
  Queued([Plain(PlainFlow) EXCEPT !.tries = 2, !.tolerant = {1}, !.ceiling = 4], 2,
         [Quiet EXCEPT !["failures"] = 3, !["crashes"] = 2, !["stops"] = 1])

\* A queued run that a person retries.
RetriedCase ==
  Queued(Plain(PlainFlow), 1, [Quiet EXCEPT !["failures"] = 1, !["retries"] = 1])

BillCases == {CrashCase}
LifeCases == {CeilingCase, AskingCase, ApprovingCase, UnattendedCase}
RetriedCases == {RetriedCase}
ApprovingCases == {ApprovingCase}

Symmetry == Permutations(Attempts)
=============================================================================
