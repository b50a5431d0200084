----------------------------- MODULE MCConversations ---------------------------
(***************************************************************************)
(* What people say to the assistant and what it says back, on small        *)
(* instances: files, turns, retrieval, memories, widgets.  A behaviour     *)
(* moves in one part, chosen at its start.  The turns are two parts over   *)
(* the same rows, one with files and one with what is charged; the part of *)
(* the files alone has the transcriptions.  The widgets are two parts, one *)
(* with what visitors spend and one with the keys of the pages.            *)
(***************************************************************************)
EXTENDS Integers, Sequences, FiniteSets, TLC

CONSTANTS Writers, Askers, None,
          MaxFiles, Conversations, Models, Spends, MaxTurns, MaxPresses,  \* of ChatTurns
          HistoryTurns, MaxTurnImages,
          Bases, Embeddings, Chunks, BaseOf, Dense, Lexical, Edits, Searches,  \* Retrieval
          TopK, Threshold, VectorWeight, MinCandidates,
          Users, Facts, Dimensions, Readers, MaxMemories, MaxPerScope,    \* Memories
          RecallLimit, Shared,
          Widgets, Names, PlanLimit, Ceiling, TurnCost, HourlyLimit, MaxSaves,
          MaxSpoken

VARIABLES part,
          uploaded, file, object, scribe, removing, charged,
          open, thread, turn, billed, stops, pressed,
          base, passages, vectors, bases, editor, search,
          account, setting, memory, point, recency, writer, reader, written, wrote, cut,
          widget, used, saver, saves, request, spent, spoken, rate, accepted, published

attVars == <<uploaded, file, object, scribe, removing, charged>>
chtVars == <<open, thread, turn, billed, stops, pressed>>
rtvVars == <<base, passages, vectors, bases, editor, search>>
memVars == <<account, setting, memory, point, recency, writer, reader, written, wrote, cut>>
wdgVars == <<widget, used, saver, saves, request, spent, spoken, rate, accepted, published>>

(* A search of two bases: one passage is nearer in meaning, the other in   *)
(* words.  The edits open the conversation, give it a first base and give  *)
(* it another one; the two may have different embedding models.            *)
SomeEdits ==
  {[named |-> {"primary", "extra"}, primary |-> None, extra |-> {}],
   [named |-> {"primary"}, primary |-> "handbook", extra |-> {}],
   [named |-> {"extra"}, primary |-> None, extra |-> {"policy"}]}
SomeSearches ==
  {[mode |-> "hybrid", scope |-> {}, rerank |-> FALSE],
   [mode |-> "hybrid", scope |-> {"h1"}, rerank |-> TRUE],
   [mode |-> "vector", scope |-> {}, rerank |-> TRUE],
   [mode |-> "keyword", scope |-> {"h1"}, rerank |-> FALSE]}
HandbookAndPolicy == [h1 |-> "handbook", p1 |-> "policy"]
NearerInMeaning == [h1 |-> 90, p1 |-> 60]
NearerInWords == [h1 |-> 1, p1 |-> 4]
Widths == [small |-> 768, other |-> 768, large |-> 1536]

C == INSTANCE ChatTurns WITH Scribes <- Writers
R == INSTANCE Retrieval WITH Editors <- Writers, thread <- bases
M == INSTANCE Memories
W == INSTANCE Widgets WITH Savers <- Writers, Requests <- Askers

(* A widget's ceiling and pace let something through, and visitors are     *)
(* finitely many.                                                          *)
ASSUME WidgetsAssumption ==
  /\ {Ceiling, HourlyLimit} \subseteq Nat \ {0} /\ TurnCost \in Nat /\ IsFiniteSet(Askers)

(* Caps and bounds are numbers.                                            *)
ASSUME BoundsAssumption ==
  {MaxFiles, MaxTurns, MaxTurnImages, TopK, MinCandidates, MaxMemories, MaxPerScope}
    \subseteq Nat

(* Before its answer a turn pays for the reranking and the rewrite.        *)
ASSUME SpendsAssumption == Spends \subseteq SUBSET {"rerank", "refine"}

(* A passage is of one base; it is as near in meaning as an angle, and a   *)
(* rank of words is not negative.                                          *)
ASSUME RetrievalAssumption ==
  /\ IsFiniteSet(Chunks) /\ BaseOf \in [Chunks -> Bases]
  /\ Dense \in [Chunks -> -100 .. 100] /\ Lexical \in [Chunks -> Nat]
  /\ Edits \subseteq [named : SUBSET {"primary", "extra"}, primary : Bases \cup {None},
                     extra : SUBSET Bases]

(* None is no number and no row.                                           *)
ASSUME NoneAssumption ==
  /\ None \notin Nat
  /\ None \notin C!Rows \cup W!ChatWidgetRow \cup M!AgentMemoryRow

Parts == {"attachment", "charges", "files", "retrieval", "memory", "visitors", "keys"}

MCInit ==
  /\ part \in Parts
  /\ IF part = "files" THEN C!ChtUploaded ELSE C!ChtInit
  /\ R!RtvInit /\ M!MemInit /\ W!WdgInit
  /\ part # "memory" => setting = "small"
  \* Files differ by their kinds alone: an image, and an image or a recording.
  /\ part = "files" => file[1].kind = "image"

Attachment == part = "attachment" /\ UNCHANGED <<part, chtVars, rtvVars, memVars, wdgVars>>
Chat(p) == part = p /\ UNCHANGED <<part, rtvVars, memVars, wdgVars>>
(* What is charged is asked of turns without files, and what becomes of    *)
(* files of turns that charge nothing before the answer and are not stopped. *)
Charges ==
  /\ UNCHANGED attVars
  /\ \A t \in C!Turns : turn'[t].files = {} /\ turn'[t].vision = "none"
Files ==
  /\ UNCHANGED pressed
  /\ \A t \in C!Turns : turn'[t].spent = {}
Retrieval == part = "retrieval" /\ UNCHANGED <<part, attVars, chtVars, memVars, wdgVars>>
Memory == part = "memory" /\ UNCHANGED <<part, attVars, chtVars, rtvVars, wdgVars>>
(* Of the people one stays.                                                *)
Somebody == account' # {}
Widget(p) == part = p /\ UNCHANGED <<part, attVars, chtVars, rtvVars, memVars>>
(* What visitors spend is asked of one widget, and what keys pages have of *)
(* widgets nobody visits.                                                  *)
Visitors ==
  /\ saves' <= 2 /\ Cardinality(used') <= 1
  /\ \A s \in Writers : saver'[s].at = "read" => saver'[s].name = "shop"
Keys == UNCHANGED request

MCNext ==
  \/ Attachment /\ C!AttNext
  \/ Chat("charges") /\ C!ChtNext /\ Charges
  \/ Chat("files") /\ C!ChtNext /\ Files
  \/ Retrieval /\ R!RtvNext
  \/ Memory /\ M!MemNext /\ Somebody
  \/ Widget("visitors") /\ W!WdgNext /\ Visitors
  \/ Widget("keys") /\ W!WdgNext /\ Keys

mcVars == <<part, attVars, chtVars, rtvVars, memVars, wdgVars>>

MCSpec == MCInit /\ [][MCNext]_mcVars

Symmetry == Permutations(Writers) \cup Permutations(Askers) \cup Permutations(Users)

(* What a turn spent is charged before its answer is stored, once.         *)
TurnsAreAccountedFor == part \in {"charges", "files"} => C!TurnsAreAccountedFor

(* A file goes where it was sent and nowhere else.                         *)
FilesGoWhereTheyWereSent ==
  part \in {"attachment", "files"} => C!AttTypeOK /\ C!FilesGoWhereTheyWereSent

(* An answer rests on passages that are there, ranked on one scale.        *)
RetrievalIsSound == part = "retrieval" => R!FusionIsBounded /\ R!RetrievalIsSound

(* What a person told the agent about themselves is theirs.                *)
MemoriesStayInScope == part = "memory" => M!MemoriesStayInScope

(* What strangers can spend is bounded, and a page keeps its widget.       *)
WidgetsAreBounded == part \in {"visitors", "keys"} => W!WidgetsAreBounded

(* "The money is capped."                                                  *)
MoneyIsCapped == part \in {"visitors", "keys"} => W!MoneyIsCapped

(* "Please try again shortly."                                             *)
CountersEnd == part \in {"visitors", "keys"} => W!CountersEnd

(* "A memory written under a different embedding model is skipped."        *)
OtherModelsAreSkipped == part = "memory" => M!OtherModelsAreSkipped

(* "A turn that fails before `done` costs the customer nothing."           *)
FailedTurnIsFree == part \in {"charges", "files"} => C!FailedTurnIsFree

(* "A recording reaches the model as its transcript."                      *)
RecordingsAreHeard == C!RecordingsAreHeard
================================================================================
