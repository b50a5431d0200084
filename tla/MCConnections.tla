------------------------------ MODULE MCConnections ----------------------------
(***************************************************************************)
(* What a run executes and what it reaches, on small instances: its flow   *)
(* or its tool loop, accounts connected by OAuth, MCP servers,             *)
(* integrations, databases, models.  A behaviour moves in one part, chosen *)
(* at its start: no two of them write the same rows.  The three sets of    *)
(* model values play, by part: calls, processes, owners or sources;        *)
(* people, savers or connection strings; states of an authorization or     *)
(* statements.                                                             *)
(***************************************************************************)
EXTENDS FlowEngine, TLC

CONSTANTS Actors, People, Values,
          Savers, Editors, Checks, Runs,   \* saves, edits, checks and runs
          Urls, Tools, Allowlists, Advertises, Slug, Queries,
          MaxTokens, MaxLost, MaxSaves, MaxAges, MaxEdits, MaxWrites, MaxExpiries, MaxKeys,
          MaxRounds, MaxAsked, MaxCalls, MaxResumes

VARIABLES part,
          registered, connection, created, provider, state, caller, refreshing, completed,
          crossed, unanswered, misread,
          server, inserted, saving, checking, offered, posted, saves, ages, stale,
          integration, keeping, touched, keys, testing, tested, vanished, kept,
          source, query, storing, reading, proposed, reviewed, run, executed, edits,
          mixed,
          model, snapshot, loading, editing, wanted, overlapped, expired, writer,
          access, default, chosen, writes, expiries,
          credential, cached, valid, trying, verdict, overtaken, stored,
          approveWrites, at, round, asked, messages, pending, reason, stopping, billed,
          executions, costly, approved, resumes, dropped

(* Flows over a few nodes: nodes are numbers, 0 is begin.                  *)
FourNodes == 0..3
SixNodes == 0..5

Sorted(S) == SetToSortSeq(S, LAMBDA a, b : a < b)
Reversed(S) == SetToSortSeq(S, LAMBDA a, b : a > b)

Plain(down) ==
  [down |-> down, branching |-> {}, body |-> [n \in Nodes |-> None],
   retries |-> [n \in Nodes |-> 0], tolerant |-> {}, goto |-> [n \in Nodes |-> << >>]]

\* Every acyclic flow over four nodes in which something leads to each node, in
\* both orders of the canvas, with one node that branches and one that tolerates
\* errors, and with node 2 tried again once and failing over to node 3.
AcyclicEdges ==
  {edges \in [{0, 1, 2} -> SUBSET {1, 2, 3}] :
     /\ \A n \in {0, 1, 2} : \A m \in edges[n] : n < m
     /\ \A m \in {1, 2, 3} : \E n \in {0, 1, 2} : m \in edges[n]}
Edges(edges, n) == IF n \in DOMAIN edges THEN edges[n] ELSE {}
AcyclicFlows ==
  {[Plain(down) EXCEPT !.branching = {branching}, !.tolerant = {1},
                       !.retries[2] = 1, !.goto[2] = <<3>>] :
     down \in {[n \in Nodes |-> Sorted(Edges(e, n))] : e \in AcyclicEdges}
         \cup {[n \in Nodes |-> Reversed(Edges(e, n))] : e \in AcyclicEdges},
     branching \in {0, 1}}

\* begin, a loop over node 2, and a message; the loop and its body are tried again.
LoopFlow ==
  [Plain([n \in Nodes |-> CASE n = 0 -> <<1>> [] n = 1 -> <<2, 3>> [] OTHER -> << >>])
     EXCEPT !.body[1] = 2, !.retries[1] = 1, !.retries[2] = 1]

\* Nodes 1 and 2 point at each other, and begin leads to both.
TwoPointing ==
  {Plain([n \in Nodes |-> CASE n = 0 -> <<1, 2>> [] n = 1 -> <<2>> [] n = 2 -> <<1, 3>>
                            [] OTHER -> << >>])}

SomeFlows == AcyclicFlows \cup {LoopFlow} \cup TwoPointing

\* One branch of the join is a node long, the other three.
LongBranch ==
  {Plain([n \in Nodes |-> CASE n = 0 -> <<1, 2>> [] n = 1 -> <<5>> [] n = 2 -> <<3>>
                            [] n = 3 -> <<4>> [] n = 4 -> <<5>> [] OTHER -> << >>])}

\* Each MCP server names one tool, its own; an allowlist names every tool or one.
TwoNames == {"a", "b"}
ItsName == [u \in {"a", "b"} |-> {u}]
NoneOrOne == {{}, {"a"}}

oauVars == <<registered, connection, created, provider, state, caller, refreshing,
             completed, crossed, unanswered, misread>>
mcpVars == <<server, inserted, saving, checking, offered, posted, saves, ages, stale>>
intVars == <<integration, keeping, touched, keys, testing, tested, vanished, kept>>
dtsVars == <<source, query, storing, reading, proposed, reviewed, run, executed, edits,
             mixed>>
catVars == <<model, snapshot, loading, editing, wanted, overlapped, expired, writer,
             access, default, chosen, writes, expiries>>
keyVars == <<credential, cached, valid, trying, verdict, overtaken, stored>>
lopVars == <<approveWrites, at, round, asked, messages, pending, reason, stopping, billed,
             executions, costly, approved, resumes, dropped>>

O == INSTANCE OAuthConnections WITH Callers <- Actors, Users <- People, States <- Values
P == INSTANCE McpServers
I == INSTANCE Integrations WITH
       Workspaces <- Actors, Savers <- People,
       saving <- keeping, used <- touched, saves <- kept, checking <- testing
D == INSTANCE DataSources WITH
       Sources <- Actors, Dsns <- People, Statements <- Values,
       saving <- storing, crossed <- mixed
M == INSTANCE ModelCatalogue WITH
       Processes <- Actors, Checks <- People, checking <- trying, saved <- stored
L == INSTANCE ToolLoop WITH executed <- executions

(* None is no number, no row, no owner and nobody; no owner is called idle. *)
ASSUME NoneAssumption ==
  /\ None \notin Nat /\ "idle" \notin Actors \cup {None}
  /\ None \notin Actors \cup People \cup Values \cup Runs \cup Editors
  /\ None \notin O!OAuthConnectionRow
  /\ None \notin M!ProviderModelRow \cup M!Snapshot \cup M!Edit
  /\ None \notin P!McpServerRow \cup P!Save \cup P!Discovery \cup P!Posted
  /\ None \notin I!IntegrationRow \cup I!Save \cup I!Use
  /\ None \notin D!DataSourceRow \cup D!DataQueryRow \cup D!SourceSave
                    \cup [query : D!DataQueryRow, on : BOOLEAN]
  /\ None \notin (Actors \X People) \cup (Values \X Actors)

(* An allowlist names tools, and a server's answer too.                    *)
ASSUME ToolsAssumption ==
  Allowlists \subseteq SUBSET Tools /\ Advertises \in [Urls -> SUBSET Tools]

(* Every bound is a number.                                                *)
ASSUME BoundsAssumption ==
  /\ {MaxTokens, MaxLost, MaxSaves, MaxAges, MaxEdits, MaxWrites, MaxExpiries, MaxKeys}
       \subseteq Nat
  /\ {MaxRounds, MaxAsked, MaxCalls, MaxResumes} \subseteq Nat

MCInit ==
  /\ part \in {"flow", "loop", "oauth", "mcp", "integration", "source", "model", "key"}
  /\ O!OauInit /\ P!McpInit /\ I!IntInit /\ D!DtsInit /\ M!CatInit
  /\ M!KeyInit /\ L!LopInit /\ Init
  /\ part # "flow" => graph = LoopFlow
  /\ part # "oauth" => ~provider.rotates
  /\ part # "key" => valid = {}
  /\ part # "loop" => approveWrites

Flow ==
  /\ part = "flow"
  /\ UNCHANGED <<part, lopVars, oauVars, mcpVars, intVars, dtsVars, catVars, keyVars>>
Loop ==
  /\ part = "loop"
  /\ UNCHANGED <<part, vars, oauVars, mcpVars, intVars, dtsVars, catVars, keyVars>>
OAuth ==
  /\ part = "oauth"
  /\ UNCHANGED <<part, vars, lopVars, mcpVars, intVars, dtsVars, catVars, keyVars>>
Mcp ==
  /\ part = "mcp"
  /\ UNCHANGED <<part, vars, lopVars, oauVars, intVars, dtsVars, catVars, keyVars>>
Integration ==
  /\ part = "integration"
  /\ UNCHANGED <<part, vars, lopVars, oauVars, mcpVars, dtsVars, catVars, keyVars>>
Source ==
  /\ part = "source"
  /\ UNCHANGED <<part, vars, lopVars, oauVars, mcpVars, intVars, catVars, keyVars>>
Model ==
  /\ part = "model"
  /\ UNCHANGED <<part, vars, lopVars, oauVars, mcpVars, intVars, dtsVars, keyVars>>
Key ==
  /\ part = "key"
  /\ UNCHANGED <<part, vars, lopVars, oauVars, mcpVars, intVars, dtsVars, catVars>>

MCNext ==
  \/ Flow /\ Next
  \/ Loop /\ L!LopNext
  \/ OAuth /\ O!OauNext
  \/ Mcp /\ P!McpNext
  \/ Integration /\ I!IntNext
  \/ Source /\ D!DtsNext
  \/ Model /\ M!CatNext
  \/ Key /\ M!KeyNext

mcVars == <<part, vars, oauVars, mcpVars, intVars, dtsVars, catVars, keyVars, lopVars>>

MCSpec == MCInit /\ [][MCNext]_mcVars

Symmetry == Permutations(Actors) \cup Permutations(People) \cup Permutations(Values)

(* A flow that ends has nothing left, unless it goes in circles, and every *)
(* flow has one budget for the nodes all attempts start, retries not       *)
(* counted ahead; a tool loop charges each round it was answered, but for  *)
(* one at most when it fails, executes each call once, on its own yes, and *)
(* puts each result behind the call it answers.                            *)
FlowIsCarriedOut ==
  /\ part = "flow" => TypeOK /\ FinishedIsComplete /\ BudgetHolds
  /\ part = "loop" => L!LoopIsAccounted

(* A connection is shown as what it is at its provider.                    *)
ConnectionTellsTheTruth == O!ConnectionTellsTheTruth

(* A run reaches the MCP server or the connection its workspace means.     *)
ReachesTheRightService == P!CallsTheRightServer /\ I!UsesItsOwnKeys

(* An agent runs only SQL a person wrote or approved.                      *)
OnlyReviewedRuns == D!OnlyReviewedRuns

(* Processes lag the catalogue by at most one TTL, and agree with it on    *)
(* what they wrote themselves; a verdict is about the key that is stored.  *)
CatalogueKeepsUp ==
  M!BehindByOneTtl /\ M!WriterSeesItsWrite /\ M!VerdictIsAboutTheKey

(* "The model cannot be asked anything until the tool call it made has an  *)
(* answer" (runner.ts).                                                    *)
EveryCallIsAnswered == part = "loop" => L!EveryCallIsAnswered

(* "A refusal here usually means somebody revoked access" (oauth.service): *)
(* a connection nobody else refreshed is shown as revoked when it is.      *)
RevokedIsRevoked == O!RevokedIsRevoked

(* Two refreshes of one connection at the same moment do not break it.     *)
RefreshesDoNotClash == O!RefreshesDoNotClash
================================================================================
