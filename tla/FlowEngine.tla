----------------------------- MODULE FlowEngine -----------------------------
(***************************************************************************)
(* How a flow is executed: the frontier of nodes that were reached and may *)
(* run, loops, error policies, the budget of node executions, and the      *)
(* checkpoint after each node from which a later attempt goes on           *)
(* (src/src/modules/agent/graph/engine.ts, nodes.ts, checkpoint.ts).       *)
(*                                                                         *)
(* What a node computes is left out: it succeeds, chooses among its        *)
(* targets when it branches, or throws.  AgentRun has the run around this. *)
(***************************************************************************)
EXTENDS Integers, Sequences, FiniteSets, SequencesExt

CONSTANTS
  Nodes,
  Begin,                 \* BEGIN_NODE
  None,
  Graphs,                \* the flows to execute
  MAX_NODE_EXECUTIONS,
  MaxItems,              \* bounds: items a loop finds,
  MaxFailures,           \*   attempts at a node that throw,
  MaxStops,              \*   requests to stop,
  MaxCrashes,            \*   attempts that die,
  MaxRetries             \*   retries of a run that ended badly

\* A flow: the targets of each node in the order the canvas stores them, the
\* nodes that choose among them, the body of each loop, and of each node's error
\* policy how often it is tried again, whether it has a default value, and the
\* nodes it fails over to.
FlowType ==
  [down : [Nodes -> Seq(Nodes)], branching : SUBSET Nodes,
   body : [Nodes -> Nodes \cup {None}], retries : [Nodes -> 0..3],
   tolerant : SUBSET Nodes, goto : [Nodes -> Seq(Nodes)]]

ASSUME FlowsAssumption ==
  /\ Begin \in Nodes /\ None \notin Nodes
  /\ Graphs \subseteq FlowType
ASSUME LimitsAssumption ==
  /\ MAX_NODE_EXECUTIONS \in Nat \ {0}
  /\ {MaxItems, MaxFailures, MaxStops, MaxCrashes, MaxRetries} \subseteq Nat

VARIABLES
  graph,     \* the version's graph
  saved,     \* GraphState: what agent_run.state says
  live,      \* the attempt's own GraphState
  current,   \* the node in flight: its id, the items of its list, planned and
             \* begun, and how often it, and its body at this item, have thrown
  phase,     \* running, or how the attempt ended; "dead" when its process died
  stop,      \* the run was asked to stop
  cut,       \* history: loops that ended before the end of their list
  spent,     \* history: node executions, all attempts of the run together
  again,     \* history: attempts at a node behind the first
  used       \* how much of each bound is used up

vars == <<graph, saved, live, current, phase, stop, cut, spent, again, used>>

-----------------------------------------------------------------------------
Upstream(n) == {m \in Nodes : n \in ToSet(graph.down[m])}
Idle == [node |-> None, items |-> 0, planned |-> 0, done |-> 0, threw |-> 0, bodyThrew |-> 0]
IsLoop(n) == graph.body[n] # None

Blocked(n) ==
  \E m \in Upstream(n) : m \in live.reached /\ m \notin live.completed

\* Mutant: a node waits for every upstream, reached or not.
NextRunnable_All ==
  {n \in live.reached \ live.completed : Upstream(n) \subseteq live.completed}

\* nextRunnable: the nodes that may run; the engine takes the one that was
\* reached before the others.
NextRunnable == {n \in live.reached \ live.completed : ~Blocked(n)}

ReachedFirst(n, S) == \A m \in S : <<m, n>> \notin live.before

\* The first place of a is in front of the first of b.
InFront(list, a, b) ==
  \E i \in DOMAIN list : list[i] = a /\ \A j \in 1..i : list[j] # b

\* Set.add, for each target in turn: what is there keeps its place, what is new
\* comes behind it in the order of the list.
Reach(s, list, targets) ==
  LET new == targets \ s.reached IN
  [s EXCEPT !.reached = @ \cup new,
            !.before = @ \cup (s.reached \X new)
                         \cup {p \in new \X new : InFront(list, p[1], p[2])}]

Use(bound, limit) == used[bound] < limit /\ used' = [used EXCEPT ![bound] = @ + 1]

Fresh == [completed |-> {}, reached |-> {Begin}, before |-> {}, executions |-> 0]

Init ==
  /\ graph \in Graphs
  /\ saved = Fresh
  /\ live = Fresh
  /\ current = Idle
  /\ phase = "running"
  /\ stop = FALSE
  /\ cut = {}
  /\ spent = 0
  /\ again = 0
  /\ used = [failures |-> 0, stops |-> 0, crashes |-> 0, retries |-> 0]

-----------------------------------------------------------------------------
\* The attempt is between two nodes and has one to run.
Ready ==
  /\ phase = "running" /\ current = Idle
  /\ live.executions < MAX_NODE_EXECUTIONS
  /\ NextRunnable # {}

LessOf(a, b) == IF a < b THEN a ELSE b

\* plannedIterations: as many items as the budget still allows.
Planned(items, executions) == LessOf(items, MAX_NODE_EXECUTIONS - executions)

\* The next node starts, and is counted once however often it is tried.
startNode ==
  /\ Ready /\ ~stop
  /\ live' = [live EXCEPT !.executions = @ + 1]
  /\ spent' = spent + 1
  /\ \E n \in NextRunnable :
       /\ ReachedFirst(n, NextRunnable)
       /\ \E items \in IF IsLoop(n) THEN 0..MaxItems ELSE {0} :
            current' = [Idle EXCEPT !.node = n, !.items = items,
                                    !.planned = Planned(items, live.executions + 1)]
  /\ UNCHANGED <<graph, saved, phase, stop, cut, again, used>>

\* isStopped, between two nodes.
stopped ==
  /\ Ready /\ stop
  /\ saved' = live
  /\ phase' = "stopped"
  /\ UNCHANGED <<graph, live, current, stop, cut, spent, again, used>>

\* runBody, for one item.
runBody ==
  /\ phase = "running" /\ current.done < current.planned
  /\ ~stop /\ live.executions < MAX_NODE_EXECUTIONS
  /\ live' = [live EXCEPT !.executions = @ + 1]
  /\ spent' = spent + 1
  /\ current' = [current EXCEPT !.done = @ + 1, !.bodyThrew = 0]
  /\ UNCHANGED <<graph, saved, phase, stop, cut, again, used>>

\* execute, of the body at this item: it throws and is tried again.
retryBody ==
  /\ Use("failures", MaxFailures)
  /\ phase = "running" /\ current.done > 0
  /\ current.bodyThrew < graph.retries[graph.body[current.node]]
  /\ current' = [current EXCEPT !.bodyThrew = @ + 1]
  /\ again' = again + 1
  /\ UNCHANGED <<graph, saved, live, phase, stop, cut, spent>>

\* execute, of the node itself: it throws, or its body has thrown once too often,
\* and it is tried again, a loop from its first item.
retryNode ==
  /\ Use("failures", MaxFailures)
  /\ phase = "running" /\ current.node # None
  /\ current.threw < graph.retries[current.node]
  /\ current' = [current EXCEPT !.threw = @ + 1, !.done = 0, !.bodyThrew = 0,
                                !.planned = Planned(current.items, live.executions)]
  /\ again' = again + 1
  /\ UNCHANGED <<graph, saved, live, phase, stop, cut, spent>>

\* The targets a node that succeeds may choose: all, some when it branches, all
\* but the body when it loops.
Targets(n) ==
  LET down == ToSet(graph.down[n]) IN
  IF IsLoop(n) THEN {down \ {graph.body[n]}}
  ELSE IF n \in graph.branching THEN SUBSET down
  ELSE {down}

\* Mutant: what a node leads to is reached, but the node is not marked done.
markDone_Forgets(n, list, targets) ==
  /\ live' = Reach(live, list, targets)
  /\ saved' = [live' EXCEPT !.completed = @ \cup {n}]
  /\ current' = Idle

\* markDone, and the checkpoint the runner writes for it.
markDone(n, list, targets) ==
  /\ live' = [Reach(live, list, targets) EXCEPT !.completed = @ \cup {n}]
  /\ saved' = live'
  /\ current' = Idle

\* The node succeeds; a loop that was asked to stop does so with what it has.
finishNode ==
  LET n == current.node IN
  /\ phase = "running" /\ n # None
  /\ current.done = current.planned \/ stop
  /\ \E targets \in Targets(n) : markDone(n, graph.down[n], targets)
  /\ cut' = IF current.done < current.planned THEN cut \cup {n} ELSE cut
  /\ UNCHANGED <<graph, phase, stop, spent, again, used>>

\* The last attempt at the node throws: a default, other nodes, or the end.
nodeFails ==
  LET n == current.node IN
  /\ Use("failures", MaxFailures)
  /\ phase = "running" /\ n # None
  /\ current.threw = graph.retries[n]
  /\ IF n \in graph.tolerant
     THEN markDone(n, graph.down[n], ToSet(graph.down[n])) /\ UNCHANGED phase
     ELSE IF graph.goto[n] # << >>
     THEN markDone(n, graph.goto[n], ToSet(graph.goto[n])) /\ UNCHANGED phase
     ELSE /\ saved' = live
          /\ phase' = "failed"
          /\ current' = Idle
          /\ UNCHANGED live
  /\ UNCHANGED <<graph, stop, cut, spent, again>>

\* Nothing is left to run.
finish ==
  /\ phase = "running" /\ current = Idle
  /\ live.executions < MAX_NODE_EXECUTIONS
  /\ NextRunnable = {}
  /\ saved' = live
  /\ phase' = "finished"
  /\ UNCHANGED <<graph, live, current, stop, cut, spent, again, used>>

\* The budget is used up.
overBudget ==
  /\ phase = "running" /\ current = Idle
  /\ live.executions >= MAX_NODE_EXECUTIONS
  /\ saved' = live
  /\ phase' = "over_budget"
  /\ UNCHANGED <<graph, live, current, stop, cut, spent, again, used>>

requestStop ==
  /\ Use("stops", MaxStops)
  /\ phase = "running" /\ ~stop
  /\ stop' = TRUE
  /\ UNCHANGED <<graph, saved, live, current, phase, cut, spent, again>>

\* The process dies with the node in flight.
crash ==
  /\ Use("crashes", MaxCrashes)
  /\ phase = "running"
  /\ phase' = "dead"
  /\ current' = Idle
  /\ UNCHANGED <<graph, saved, live, stop, cut, spent, again>>

\* The next attempt goes on from the checkpoint: a person retries the run, or
\* the queue delivers the job of a dead worker again.
resume ==
  /\ \/ phase \in {"failed", "stopped", "over_budget"} /\ Use("retries", MaxRetries)
     \/ phase = "dead" /\ UNCHANGED used
  /\ phase' = "running"
  /\ live' = saved
  /\ stop' = FALSE
  /\ UNCHANGED <<graph, saved, current, cut, spent, again>>

Next ==
  \/ startNode \/ stopped \/ runBody \/ retryBody \/ retryNode \/ finishNode
  \/ nodeFails \/ finish \/ overBudget \/ requestStop \/ crash \/ resume

Spec == Init /\ [][Next]_vars

-----------------------------------------------------------------------------
(* Properties.                                                             *)

StateType ==
  [completed : SUBSET Nodes, reached : SUBSET Nodes, before : SUBSET (Nodes \X Nodes),
   executions : 0..MAX_NODE_EXECUTIONS]

Flight ==
  [node : Nodes \cup {None}, items : 0..MaxItems, planned : 0..MaxItems, done : 0..MaxItems,
   threw : 0..3, bodyThrew : 0..3]

\* Of two nodes that were reached, one was reached before the other.
InOneOrder(s) ==
  /\ s.before \subseteq s.reached \X s.reached
  /\ \A a, b \in s.reached : <<a, b>> \in s.before \/ <<b, a>> \in s.before \/ a = b
  /\ \A a, b \in s.reached : <<a, b>> \in s.before => <<b, a>> \notin s.before /\ a # b
  /\ \A a, b, c \in s.reached :
       <<a, b>> \in s.before /\ <<b, c>> \in s.before => <<a, c>> \in s.before

\* Types of the state; the budget is never passed, and nodes are reached in turn.
TypeOK ==
  /\ graph \in Graphs
  /\ {saved, live} \subseteq StateType
  /\ InOneOrder(saved) /\ InOneOrder(live)
  /\ current \in Flight
  /\ phase \in {"running", "finished", "failed", "stopped", "over_budget", "dead"}
  /\ stop \in BOOLEAN
  /\ cut \subseteq Nodes
  /\ spent \in Nat /\ again \in Nat

\* No nodes wait for each other: of any, one has none of them upstream.
Acyclic ==
  \A S \in SUBSET Nodes : S # {} => \E n \in S : Upstream(n) \cap S = {}

\* A flow without a cycle that finishes has run every node it reached: no join
\* waits for a branch that is never taken (engine.ts, runGraph).
FinishedIsComplete ==
  phase = "finished" /\ Acyclic => live.reached \subseteq live.completed

\* What the checkpoint has settled is never run again, whoever goes on.
SettledStaysSettled ==
  [][current.node = None /\ current'.node # None => current'.node \notin saved.completed]_vars

\* One run has one budget of node executions, however often it and its nodes are
\* tried again: a loop's items come out of it at each of its attempts, and an
\* attempt of the run that dies hides at most the node it was in with the items
\* of those.  Attempts are not in the budget; there are four to an execution at
\* most (checkpoint.ts, MAX_NODE_EXECUTIONS; types.ts, errorPolicySchema).
BudgetHolds ==
  /\ spent <= MAX_NODE_EXECUTIONS + used.crashes * (1 + 4 * MaxItems)
  /\ again <= 3 * spent

\* Whatever a node feeds has not run before it, whichever branch was longer
\* (engine.ts, "The frontier model").
JoinWaits ==
  [][current.node = None /\ current'.node # None =>
       \A m \in live.completed : current'.node \notin Upstream(m)]_vars

\* A flow that finishes has run its loops over every item they planned
\* (nodes.ts, "A loop is one node, so it is one checkpoint").
LoopIsWhole == phase = "finished" => cut = {}

\* A flow fails for its budget only if a node is left that the budget does not
\* cover (checkpoint.ts, MAX_NODE_EXECUTIONS).
BudgetIsUsable == phase = "over_budget" => NextRunnable # {}
=============================================================================
