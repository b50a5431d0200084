--------------------------- MODULE IngestionProofs ---------------------------
(***************************************************************************)
(* Proofs about Ingestion.tla: the types of the state; that the stores     *)
(* agree with the plan and with each other; that no step charges for what  *)
(* cannot be found or throws away what is settled.                         *)
(*                                                                         *)
(* The first part says what each action does to the types and to the state *)
(* (one lemma per action, named for it); the second gives the invariant of *)
(* the one execution there is at a time, Orderly, and shows that each      *)
(* action keeps it (one lemma per action again); the last, the theorems.   *)
(***************************************************************************)
EXTENDS Ingestion, TLAPS

-----------------------------------------------------------------------------
(* Types.                                                                  *)

InTask == {"parsing", "enriching", "storing", "embedding", "charging", "settling"}
Closing == {"summarising", "storing_summary", "embedding_summary", "charging_summary",
            "ending"}
Carried == {"between"} \cup InTask \cup Closing
Pruning == {"unindex", "unlist"}
Planning == {"reading", "planning", "pruning", "unindex", "unlist", "writing"}
Resting == {"idle", "reading", "counting", "over"}
PCs == Planning \cup Carried \cup {"idle", "counting", "over"}

Files ==
  {[batches |-> c.batches, enriched |-> c.enriched, summarised |-> c.summarised] : c \in Cases}
DocRow ==
  [there : BOOLEAN, status : Statuses, cancelRequested : BOOLEAN, attempt : JobIds,
   config : Configs, file : Files]
JobRow ==
  [state : {"none", "waiting", "active", "done", "failed"}, stalled : 0..MaxStalled,
   thrown : 0..MaxThrown]
TaskRow ==
  [run : 1..MaxRuns, range : Ranges, config : Configs,
   status : {"pending", "running", "done", "failed", "reused"}]
ChunkRow ==
  [range : Ranges \cup {Summary}, part : Nat \ {0}, config : Configs, run : 1..MaxRuns]
UsageRow ==
  [job : JobIds, range : Ranges, config : Configs, purpose : Purposes]
    \cup [job : JobIds, range : {Summary}]
Worker ==
  [pc : PCs, job : JobIds, holds : BOOLEAN, run : 0..MaxRuns, config : Configs,
   reusable : SUBSET Ranges, range : Ranges \cup {0}, part : Nat,
   doomed : SUBSET ChunkRow, left : SUBSET ChunkRow, whole : BOOLEAN]
RequestRow ==
  [pc : {"idle", "enqueue", "reopen", "flag", "delete_vectors", "delete_chunks",
         "delete_row"},
   attempt : JobIds]
UsedRow ==
  [slots : 1..MaxWorkers, limit : [Bounds -> Nat], runs : 0..MaxRuns,
   times : [Bounds -> Nat]]

\* An execution in a step has a run; one in a range, the range.
Coherent(e) ==
  /\ e.pc # "idle" => e.run > 0
  /\ e.pc \in InTask => e.range \in Ranges
  /\ e.left \subseteq e.doomed

DocOK == doc \in DocRow
JobsOK == jobs \in [JobIds -> JobRow]
TasksOK == \A t \in tasks : t \in TaskRow
ChunksOK == \A c \in chunks \cup vectors : c \in ChunkRow
PlacesOK == \A c, d \in chunks : c.range = d.range /\ c.part = d.part => c = d
UsageOK == \A u \in usage : u \in UsageRow
WorkersOK == workers \in [Workers -> Worker] /\ \A w \in Workers : Coherent(workers[w])
RequestsOK == requests \in [Requests -> RequestRow]
UsedOK == used \in UsedRow

Typed ==
  /\ DocOK /\ JobsOK /\ TasksOK /\ ChunksOK /\ PlacesOK /\ UsageOK /\ WorkersOK
  /\ RequestsOK /\ UsedOK

LEMMA TypedIsTypeOK == Typed => TypeOK
<1> SUFFICES ASSUME Typed PROVE TypeOK
  OBVIOUS
<1>1. doc \in DocRow /\ jobs \in [JobIds -> JobRow] /\ requests \in [Requests -> RequestRow]
  BY DEF Typed, DocOK, JobsOK, RequestsOK
<1>2. \A w \in Workers : workers[w] \in Worker /\ workers[w].left \subseteq workers[w].doomed
  BY DEF Typed, WorkersOK, Coherent
<1>3. \A w \in Workers :
        /\ workers[w].job \in JobIds /\ workers[w].config \in Configs
        /\ workers[w].reusable \subseteq Ranges /\ workers[w].range \in Ranges \cup {0}
        /\ workers[w].left \subseteq workers[w].doomed
  BY <1>2 DEF Worker
<1>. QED
  BY <1>1, <1>3
     DEF TypeOK, Typed, TasksOK, ChunksOK, PlacesOK, UsageOK, DocRow, JobRow, TaskRow,
         ChunkRow, UsageRow, RequestRow, Files

\* The file never changes: its ranges and batches are those of the case.
Kept == doc'.file = doc.file

LEMMA KeptRows ==
  ASSUME Kept
  PROVE  /\ Batches' = Batches /\ Ranges' = Ranges
         /\ TaskRow' = TaskRow /\ ChunkRow' = ChunkRow /\ UsageRow' = UsageRow
         /\ Worker' = Worker
         /\ \A e : Coherent(e)' <=> Coherent(e)
<1>1. Batches' = Batches
  BY DEF Kept, Batches
<1>2. Ranges' = Ranges
  BY <1>1 DEF Ranges
<1>3. TaskRow' = TaskRow /\ ChunkRow' = ChunkRow /\ UsageRow' = UsageRow
  BY <1>2 DEF TaskRow, ChunkRow, UsageRow
<1>4. Worker' = Worker
  BY <1>2, <1>3 DEF Worker
<1>5. \A e : Coherent(e)' <=> Coherent(e)
  BY <1>2 DEF Coherent
<1>. QED
  BY <1>1, <1>2, <1>3, <1>4, <1>5

LEMMA BatchFacts ==
  ASSUME DocOK
  PROVE  /\ 0 \notin Ranges
         /\ \A r \in Ranges : r \in Nat /\ Batches[r] \in Nat
<1>1. doc.file \in Files
  BY DEF DocOK, DocRow
<1>2. PICK case \in Cases :
        doc.file = [batches |-> case.batches, enriched |-> case.enriched,
                    summarised |-> case.summarised]
  BY <1>1 DEF Files
<1>3. Batches \in Seq(Nat)
  BY <1>2, CasesAssumption DEF Batches
<1>. QED
  BY <1>3 DEF Ranges

LEMMA Constants == 1 \in JobIds /\ (CHOOSE c \in Configs : TRUE) \in Configs
  BY BoundsAssumption DEF JobIds

LEMMA IdleTyped == DocOK => IdleWorker \in Worker /\ Coherent(IdleWorker)
<1> DEFINE config == CHOOSE c \in Configs : TRUE
<1>1. config \in Configs
  BY Constants
<1>2. IdleWorker = [pc |-> "idle", job |-> 1, holds |-> FALSE, run |-> 0, config |-> config,
                    reusable |-> {}, range |-> 0, part |-> 0, doomed |-> {}, left |-> {},
                    whole |-> FALSE]
  BY DEF IdleWorker, Execution
<1> HIDE DEF config
<1>3. 0 \in 0..MaxRuns
  BY BoundsAssumption
<1>. QED
  BY <1>1, <1>2, <1>3, Constants DEF Worker, Coherent, PCs, InTask, Carried

LEMMA InitTyped == Init => Typed
<1> SUFFICES ASSUME Init PROVE Typed
  OBVIOUS
<1>1. PICK case \in Cases, config \in Configs :
       /\ doc = [there |-> FALSE, status |-> "none", cancelRequested |-> FALSE, attempt |-> 1,
                 config |-> config,
                 file |-> [batches |-> case.batches, enriched |-> case.enriched,
                           summarised |-> case.summarised]]
       /\ used = [slots |-> case.slots, limit |-> case.limit, runs |-> 0,
                  times |-> [b \in Bounds |-> 0]]
  BY DEF Init
<1>2. DocOK
  BY <1>1, Constants DEF DocOK, DocRow, Files, Statuses
<1>3. case.slots \in 1..MaxWorkers /\ case.limit \in [Bounds -> Nat]
  BY CasesAssumption
<1>4. UsedOK
  <2>1. 0 \in 0..MaxRuns
    BY BoundsAssumption
  <2>. QED
    BY <1>1, <1>3, <2>1 DEF UsedOK, UsedRow
<1>5. JobsOK
  <2>1. NewJob \in JobRow
    BY BoundsAssumption DEF NewJob, JobRow
  <2>. QED
    BY <2>1 DEF JobsOK, Init
<1>6. WorkersOK
  BY <1>2, IdleTyped DEF WorkersOK, Init
<1>7. RequestsOK
  BY Constants DEF RequestsOK, RequestRow, IdleRequest, Init
<1>. QED
  BY <1>2, <1>4, <1>5, <1>6, <1>7
     DEF Typed, TasksOK, ChunksOK, PlacesOK, UsageOK, Init

-----------------------------------------------------------------------------
(* What the pieces of a step do to the types.                              *)

LEMMA PutWorker ==
  ASSUME WorkersOK, Kept, NEW w \in Workers, NEW f \in Worker, Coherent(f),
         workers' = [workers EXCEPT ![w] = f]
  PROVE  /\ WorkersOK' /\ workers'[w] = f
         /\ \A v \in Workers : v # w => workers'[v] = workers[v]
<1>1. /\ workers'[w] = f
      /\ \A v \in Workers : v # w => workers'[v] = workers[v]
  BY DEF WorkersOK
<1>2. workers' \in [Workers -> Worker]
  BY DEF WorkersOK
<1>3. \A v \in Workers : Coherent(workers'[v])
  BY <1>1 DEF WorkersOK
<1>4. Worker' = Worker /\ \A e : Coherent(e)' <=> Coherent(e)
  BY KeptRows
<1>5. \A v \in Workers : Coherent(workers[v])'
  <2> SUFFICES ASSUME NEW v \in Workers PROVE Coherent(workers[v])'
    OBVIOUS
  <2>1. Coherent(workers'[v])
    BY <1>3
  <2>2. Ranges' = Ranges
    BY KeptRows
  <2>. QED
    BY <2>1, <2>2 DEF Coherent
<1>. QED
  BY <1>1, <1>2, <1>4, <1>5 DEF WorkersOK, Workers

\* What an execution keeps from step to step, and what it has planned.
SameRun(e, f) == f.job = e.job /\ f.run = e.run /\ f.config = e.config

SamePlan(e, f) ==
  /\ SameRun(e, f) /\ f.reusable = e.reusable /\ f.range = e.range /\ f.part = e.part
  /\ f.doomed = e.doomed /\ f.left = e.left /\ f.whole = e.whole

LEMMA GoTo ==
  ASSUME WorkersOK, Kept, NEW w \in Workers, NEW pc \in PCs, Go(w, pc),
         workers[w].pc # "idle", pc \in InTask => workers[w].range \in Ranges
  PROVE  /\ WorkersOK' /\ workers'[w].pc = pc /\ SamePlan(workers[w], workers'[w])
         /\ \A v \in Workers : v # w => workers'[v] = workers[v]
<1> DEFINE e == workers[w]
           f == [e EXCEPT !.pc = pc]
<1>1. e \in Worker /\ Coherent(e)
  BY DEF WorkersOK
<1>2. f \in Worker
  BY <1>1 DEF Worker
<1>3. f.pc = pc /\ SamePlan(e, f)
  BY <1>1 DEF Worker, SamePlan, SameRun
<1>4. workers' = [workers EXCEPT ![w] = f]
  BY DEF Go
<1>5. Coherent(f)
  BY <1>1, <1>3 DEF Coherent, SamePlan, SameRun
<1> HIDE DEF f
<1>. QED
  BY <1>2, <1>3, <1>4, <1>5, PutWorker

LEMMA StatusSet ==
  ASSUME DocOK, NEW s \in Statuses, doc' = Updated([doc EXCEPT !.status = s])
  PROVE  /\ DocOK' /\ Kept
         /\ doc.there => doc' = [doc EXCEPT !.status = s]
         /\ ~doc.there => doc' = doc
  BY DEF DocOK, DocRow, Kept, Updated

LEMMA DocSame == ASSUME DocOK, doc' = doc PROVE DocOK' /\ Kept
  BY DEF DocOK, DocRow, Kept, Files, JobIds, Statuses

\* What happened stays so.
UsedGrows ==
  used'.slots = used.slots /\ \A b \in Bounds : used.times[b] > 0 => used'.times[b] > 0

LEMMA UseBound ==
  ASSUME UsedOK, NEW b \in Bounds, Use(b)
  PROVE  UsedOK' /\ UsedGrows /\ used'.times[b] > 0
<1> DEFINE times == [used.times EXCEPT ![b] = used.times[b] + 1]
<1>1. used.times \in [Bounds -> Nat] /\ used \in UsedRow
  BY DEF UsedOK, UsedRow
<1>2. times \in [Bounds -> Nat]
  BY <1>1
<1>3. used' = [used EXCEPT !.times = times]
  BY DEF Use
<1>4. times[b] > 0 /\ \A c \in Bounds : used.times[c] > 0 => times[c] > 0
  BY <1>1
<1> HIDE DEF times
<1>5. used' \in UsedRow /\ used'.times = times /\ used'.slots = used.slots
  BY <1>1, <1>2, <1>3 DEF UsedRow
<1>. QED
  BY <1>4, <1>5 DEF UsedOK, UsedGrows, UsedRow

LEMMA UsedSame == ASSUME UsedOK, used' = used PROVE UsedOK' /\ UsedGrows
  BY DEF UsedOK, UsedGrows, UsedRow

LEMMA JobMoves ==
  ASSUME JobsOK, NEW j \in JobIds
  PROVE  /\ Release(j) \in [JobIds -> JobRow]
         /\ Thrown(j) \in [JobIds -> JobRow]
         /\ Stalled(j) \in [JobIds -> JobRow]
<1>1. jobs \in [JobIds -> JobRow] /\ jobs[j] \in JobRow
  BY DEF JobsOK
<1>2. /\ jobs[j].thrown \in 0..MaxThrown /\ jobs[j].stalled \in 0..MaxStalled
  BY <1>1 DEF JobRow
<1>3. MaxThrown \in Nat /\ MaxStalled \in Nat
  BY BoundsAssumption
<1>4. Release(j) \in [JobIds -> JobRow]
  <2>1. [jobs[j] EXCEPT !.state = "done"] \in JobRow
    BY <1>1 DEF JobRow
  <2>. QED
    BY <1>1, <2>1 DEF Release
<1>7. GiveUp(j) \in [JobIds -> JobRow]
  <2>1. [jobs[j] EXCEPT !.state = "failed"] \in JobRow
    BY <1>1 DEF JobRow
  <2>. QED
    BY <1>1, <2>1 DEF GiveUp
<1>5. Thrown(j) \in [JobIds -> JobRow]
  <2>1. CASE jobs[j].thrown < MaxThrown
    <3>1. jobs[j].thrown + 1 \in 0..MaxThrown
      BY <2>1, <1>2, <1>3
    <3>2. [jobs[j] EXCEPT !.state = "waiting", !.thrown = jobs[j].thrown + 1] \in JobRow
      BY <1>1, <3>1 DEF JobRow
    <3>. QED
      BY <1>1, <2>1, <3>2 DEF Thrown
  <2>. QED
    BY <2>1, <1>7 DEF Thrown
<1>6. Stalled(j) \in [JobIds -> JobRow]
  <2>1. CASE jobs[j].stalled < MaxStalled
    <3>1. jobs[j].stalled + 1 \in 0..MaxStalled
      BY <2>1, <1>2, <1>3
    <3>2. [jobs[j] EXCEPT !.state = "waiting", !.stalled = jobs[j].stalled + 1] \in JobRow
      BY <1>1, <3>1 DEF JobRow
    <3>. QED
      BY <1>1, <2>1, <3>2 DEF Stalled
  <2>. QED
    BY <2>1, <1>7 DEF Stalled
<1>. QED
  BY <1>4, <1>5, <1>6

Deleting == {"delete_vectors", "delete_chunks", "delete_row"}

\* What people do leaves the executions alone.  It only takes rows away, and
\* none unless the document is being deleted; and it makes nothing ready.
Outside ==
  /\ Kept /\ workers' = workers /\ torn' = torn /\ usage' = usage
  /\ tasks' \subseteq tasks /\ chunks' \subseteq chunks /\ vectors' \subseteq vectors
  /\ doc'.status = "ready" => doc.status = "ready"

Untouched ==
  /\ tasks' = tasks /\ chunks' = chunks /\ vectors' = vectors
  /\ doc.there => doc'.there

LEMMA PutRequest ==
  ASSUME RequestsOK, NEW r \in Requests, NEW q \in RequestRow,
         requests' = [requests EXCEPT ![r] = q]
  PROVE  /\ RequestsOK' /\ requests'[r] = q
         /\ \A s \in Requests : s # r => requests'[s] = requests[s]
  BY DEF RequestsOK, RequestRow, JobIds

LEMMA RequestTo ==
  ASSUME RequestsOK, NEW r \in Requests,
         NEW pc \in {"idle", "enqueue", "reopen", "flag", "delete_vectors", "delete_chunks",
                     "delete_row"},
         requests' = [requests EXCEPT ![r].pc = pc]
  PROVE  /\ RequestsOK' /\ requests'[r].pc = pc
         /\ \A s \in Requests : s # r => requests'[s] = requests[s]
<1> DEFINE q == [requests[r] EXCEPT !.pc = pc]
<1>1. requests[r] \in RequestRow
  BY DEF RequestsOK
<1>2. q \in RequestRow /\ q.pc = pc
  BY <1>1 DEF RequestRow
<1>3. requests' = [requests EXCEPT ![r] = q]
  OBVIOUS
<1> HIDE DEF q
<1>. QED
  BY <1>2, <1>3, PutRequest

LEMMA RequestIdle ==
  ASSUME RequestsOK, NEW r \in Requests, requests' = [requests EXCEPT ![r] = IdleRequest]
  PROVE  /\ RequestsOK' /\ requests'[r].pc = "idle"
         /\ \A s \in Requests : s # r => requests'[s] = requests[s]
<1>1. IdleRequest \in RequestRow /\ IdleRequest.pc = "idle"
  BY Constants DEF IdleRequest, RequestRow
<1>. QED
  BY <1>1, PutRequest

\* What one request changes in the requests.
OneRequest(r) == \A s \in Requests : s # r => requests'[s] = requests[s]

RequestStep(r) ==
  /\ DocOK' /\ JobsOK' /\ RequestsOK' /\ UsedOK' /\ UsedGrows /\ Outside
  /\ OneRequest(r)
  /\ requests'[r].pc \in Deleting => requests[r].pc \in Deleting \/ used'.times["deletes"] > 0
  /\ requests[r].pc \notin Deleting => Untouched

LEMMA RequestSteps ==
  ASSUME Typed, NEW r \in Requests, Ask(r) \/ Handle(r) \/ VanishRequest(r)
  PROVE  RequestStep(r)
<1> USE DEF Deleting
<1>1. DocOK /\ JobsOK /\ RequestsOK /\ UsedOK
  BY DEF Typed
<1>2. requests[r].pc \in {"idle", "enqueue", "reopen", "flag", "delete_vectors",
                          "delete_chunks", "delete_row"}
      /\ requests[r].attempt \in JobIds
  BY <1>1 DEF RequestsOK, RequestRow
<1>3. /\ \A b \in {"reindexes", "settings", "cancels", "deletes", "vanished"} : b \in Bounds
  BY DEF Bounds
<1>4. ASSUME doc' = doc, workers' = workers, torn' = torn, usage' = usage, tasks' = tasks,
             chunks' = chunks, vectors' = vectors
      PROVE  DocOK' /\ Outside /\ Untouched
  BY <1>1, <1>4, DocSame DEF Outside, Untouched
<1>5. ASSUME jobs' = jobs PROVE JobsOK'
  BY <1>1, <1>5 DEF JobsOK, JobRow, JobIds
<1>6. IdleRequest.pc = "idle" /\ IdleRequest.attempt = 1
  BY DEF IdleRequest
<1>7. CASE uploadDocument(r)
  <2>1. DocOK' /\ Outside /\ Untouched
    BY <1>1, <1>7 DEF uploadDocument, DocOK, DocRow, Statuses, Outside, Untouched, Kept
  <2>2. RequestsOK' /\ requests'[r].pc = "enqueue" /\ OneRequest(r)
    BY <1>1, <1>7, RequestTo DEF uploadDocument, OneRequest
  <2>. QED
    BY <1>1, <1>5, <1>7, <2>1, <2>2, UsedSame DEF uploadDocument, RequestStep
<1>8. CASE reindexDocument(r)
  <2>1. doc.attempt + 1 \in JobIds
    BY <1>1, <1>8, BoundsAssumption DEF reindexDocument, DocOK, DocRow, JobIds
  <2>2. RequestsOK' /\ requests'[r].pc = "reopen" /\ OneRequest(r)
    <3> DEFINE q == [pc |-> "reopen", attempt |-> doc.attempt + 1]
    <3>1. q \in RequestRow /\ q.pc = "reopen"
      BY <2>1 DEF RequestRow
    <3>2. requests' = [requests EXCEPT ![r] = q]
      BY <1>8 DEF reindexDocument
    <3> HIDE DEF q
    <3>. QED
      BY <1>1, <3>1, <3>2, PutRequest DEF OneRequest
  <2>3. UsedOK' /\ UsedGrows
    BY <1>1, <1>3, <1>8, UseBound DEF reindexDocument
  <2>. QED
    BY <1>4, <1>5, <1>8, <2>2, <2>3 DEF reindexDocument, RequestStep
<1>9. CASE cancelDocument(r)
  <2>1. RequestsOK' /\ requests'[r].pc = "flag" /\ OneRequest(r)
    BY <1>1, <1>9, RequestTo DEF cancelDocument, OneRequest
  <2>2. UsedOK' /\ UsedGrows
    BY <1>1, <1>3, <1>9, UseBound DEF cancelDocument
  <2>. QED
    BY <1>4, <1>5, <1>9, <2>1, <2>2 DEF cancelDocument, RequestStep
<1>10. CASE deleteDocument(r)
  <2>1. RequestsOK' /\ OneRequest(r)
    BY <1>1, <1>10, RequestTo DEF deleteDocument, OneRequest
  <2>2. UsedOK' /\ UsedGrows /\ used'.times["deletes"] > 0
    BY <1>1, <1>3, <1>10, UseBound DEF deleteDocument
  <2>. QED
    BY <1>4, <1>5, <1>10, <2>1, <2>2 DEF deleteDocument, RequestStep
<1>11. CASE enqueueDocumentIngestion(r)
  <2> DEFINE j == requests[r].attempt
             state == IF jobs[j].state = "none" THEN "waiting" ELSE jobs[j].state
             row == [jobs[j] EXCEPT !.state = state]
  <2>1. jobs[j] \in JobRow /\ jobs \in [JobIds -> JobRow]
    BY <1>1, <1>2 DEF JobsOK
  <2>2. row \in JobRow
    BY <2>1 DEF JobRow
  <2>3. jobs' = [jobs EXCEPT ![j] = row]
    BY <1>11 DEF enqueueDocumentIngestion
  <2> HIDE DEF row
  <2>4. jobs' \in [JobIds -> JobRow]
    BY <2>1, <2>2, <2>3
  <2>5. JobsOK'
    BY <2>4 DEF JobsOK, JobRow, JobIds
  <2>6. RequestsOK' /\ requests'[r].pc = "idle" /\ OneRequest(r)
    BY <1>1, <1>11, RequestIdle DEF enqueueDocumentIngestion, OneRequest
  <2>. QED
    BY <1>1, <1>4, <1>11, <2>5, <2>6, UsedSame DEF enqueueDocumentIngestion, RequestStep
<1>12. CASE cancelFlags(r)
  <2>1. DocOK' /\ Outside /\ Untouched
    BY <1>1, <1>12 DEF cancelFlags, Updated, DocOK, DocRow, Outside, Untouched, Kept
  <2>2. RequestsOK' /\ requests'[r].pc = "idle" /\ OneRequest(r)
    BY <1>1, <1>12, RequestIdle DEF cancelFlags, OneRequest
  <2>. QED
    BY <1>1, <1>5, <1>12, <2>1, <2>2, UsedSame DEF cancelFlags, RequestStep
<1>13. CASE purgeVectors(r)
  <2>1. DocOK' /\ Outside
    BY <1>1, <1>13, DocSame DEF purgeVectors, Outside
  <2>2. RequestsOK' /\ OneRequest(r)
    BY <1>1, <1>13, RequestTo DEF purgeVectors, OneRequest
  <2>. QED
    BY <1>1, <1>5, <1>13, <2>1, <2>2, UsedSame DEF purgeVectors, RequestStep
<1>14. CASE purgeChunks(r)
  <2>1. DocOK' /\ Outside
    BY <1>1, <1>14, DocSame DEF purgeChunks, Outside
  <2>2. RequestsOK' /\ OneRequest(r)
    BY <1>1, <1>14, RequestTo DEF purgeChunks, OneRequest
  <2>. QED
    BY <1>1, <1>5, <1>14, <2>1, <2>2, UsedSame DEF purgeChunks, RequestStep
<1>15. CASE deleteRow(r)
  <2>1. DocOK' /\ Outside
    BY <1>1, <1>15 DEF deleteRow, DocOK, DocRow, Outside, Kept
  <2>2. RequestsOK' /\ OneRequest(r)
    BY <1>1, <1>15, RequestIdle DEF deleteRow, OneRequest
  <2>. QED
    BY <1>1, <1>5, <1>15, <2>1, <2>2, UsedSame DEF deleteRow, RequestStep
<1>16. ASSUME NEW config \in Configs, reindexReopens(r, config) PROVE RequestStep(r)
  <2>1. DocOK' /\ Outside /\ Untouched
    BY <1>1, <1>2, <1>16
       DEF reindexReopens, Reopened, Updated, DocOK, DocRow, Statuses, Outside, Untouched,
           Kept
  <2>2. RequestsOK' /\ requests'[r].pc = "enqueue" /\ OneRequest(r)
    BY <1>1, <1>16, RequestTo DEF reindexReopens, OneRequest
  <2>3. used' = used \/ Use("settings")
    BY <1>16 DEF reindexReopens
  <2>4. UsedOK' /\ UsedGrows
    BY <1>1, <1>3, <2>3, UseBound, UsedSame
  <2>. QED
    BY <1>5, <1>16, <2>1, <2>2, <2>4 DEF reindexReopens, RequestStep
<1>17. CASE VanishRequest(r)
  <2>1. RequestsOK' /\ requests'[r].pc = "idle" /\ OneRequest(r)
    BY <1>1, <1>17, RequestIdle DEF VanishRequest, OneRequest
  <2>2. UsedOK' /\ UsedGrows
    BY <1>1, <1>3, <1>17, UseBound DEF VanishRequest
  <2>. QED
    BY <1>4, <1>5, <1>17, <2>1, <2>2 DEF VanishRequest, RequestStep
<1>. QED
  BY <1>7, <1>8, <1>9, <1>10, <1>11, <1>12, <1>13, <1>14, <1>15, <1>16, <1>17 DEF Ask, Handle

LEMMA FewerTasks == ASSUME TasksOK, Kept, tasks' \subseteq tasks PROVE TasksOK'
  BY KeptRows DEF TasksOK

LEMMA FewerRows ==
  ASSUME ChunksOK, PlacesOK, Kept, chunks' \subseteq chunks, vectors' \subseteq vectors
  PROVE  ChunksOK' /\ PlacesOK'
  BY KeptRows DEF ChunksOK, PlacesOK

LEMMA SameUsage == ASSUME UsageOK, Kept, usage' = usage PROVE UsageOK'
  BY KeptRows DEF UsageOK

LEMMA SameWorkers == ASSUME WorkersOK, Kept, workers' = workers PROVE WorkersOK'
<1>1. Worker' = Worker /\ Ranges' = Ranges
  BY KeptRows
<1>2. \A w \in Workers : Coherent(workers[w])'
  BY <1>1 DEF WorkersOK, Coherent
<1>. QED
  BY <1>1, <1>2 DEF WorkersOK, Workers

LEMMA SameJobs == ASSUME JobsOK, jobs' = jobs PROVE JobsOK'
  BY DEF JobsOK, JobRow, JobIds

LEMMA SameRequests == ASSUME RequestsOK, requests' = requests PROVE RequestsOK'
  BY DEF RequestsOK, RequestRow, JobIds

LEMMA OutsideTyped ==
  ASSUME Typed, DocOK', JobsOK', RequestsOK', UsedOK', Outside
  PROVE  Typed'
<1>1. TasksOK' /\ ChunksOK' /\ PlacesOK' /\ UsageOK' /\ WorkersOK'
  BY FewerTasks, FewerRows, SameUsage, SameWorkers DEF Typed, Outside
<1>. QED
  BY <1>1 DEF Typed

LEMMA TaskSetTyped ==
  ASSUME TasksOK, Kept, NEW e, NEW r, NEW s \in {"pending", "running", "done", "failed", "reused"},
         tasks' = TaskSet(e, r, s)
  PROVE  TasksOK'
<1>1. TaskRow' = TaskRow
  BY KeptRows
<1>2. ASSUME NEW t \in tasks PROVE t \in TaskRow /\ [t EXCEPT !.status = s] \in TaskRow
  BY DEF TasksOK, TaskRow
<1>. QED
  BY <1>1, <1>2 DEF TasksOK, TaskSet

-----------------------------------------------------------------------------
(* The steps of an execution keep the types.                               *)

Elsewhere(w) == \A v \in Workers : v # w => workers'[v] = workers[v]

\* What every step of an execution leaves alone, and the types it keeps.
WorkerStep(w) ==
  /\ Typed' /\ Kept /\ UsedGrows /\ requests' = requests /\ Elsewhere(w)
  /\ torn => torn'

LEMMA Assemble ==
  ASSUME Typed, NEW w \in Workers, Kept, DocOK', WorkersOK', Elsewhere(w),
         TasksOK' \/ tasks' = tasks, JobsOK' \/ jobs' = jobs,
         (ChunksOK' /\ PlacesOK') \/ (chunks' \subseteq chunks /\ vectors' \subseteq vectors),
         UsageOK' \/ usage' = usage, (UsedOK' /\ UsedGrows) \/ used' = used,
         requests' = requests, torn => torn'
  PROVE  WorkerStep(w)
<1>1. TasksOK'
  BY FewerTasks DEF Typed
<1>2. JobsOK'
  BY SameJobs DEF Typed
<1>3. ChunksOK' /\ PlacesOK'
  BY FewerRows DEF Typed
<1>4. UsageOK'
  BY SameUsage DEF Typed
<1>5. UsedOK' /\ UsedGrows
  BY UsedSame DEF Typed
<1>6. RequestsOK'
  BY SameRequests DEF Typed
<1>. QED
  BY <1>1, <1>2, <1>3, <1>4, <1>5, <1>6 DEF Typed, WorkerStep

LEMMA WorkerFacts ==
  ASSUME Typed, NEW w \in Workers
  PROVE  /\ workers[w] \in Worker /\ Coherent(workers[w])
         /\ workers[w].pc \in PCs /\ workers[w].job \in JobIds
         /\ workers[w].config \in Configs /\ workers[w].part \in Nat
         /\ workers[w].reusable \subseteq Ranges /\ workers[w].range \in Ranges \cup {0}
         /\ workers[w].pc # "idle" => workers[w].run \in 1..MaxRuns
<1>1. workers[w] \in Worker /\ Coherent(workers[w])
  BY DEF Typed, WorkersOK
<1>2. workers[w].run \in 0..MaxRuns
  BY <1>1 DEF Worker
<1>3. workers[w].pc # "idle" => workers[w].run \in 1..MaxRuns
  BY <1>1, <1>2, BoundsAssumption DEF Coherent
<1>. QED
  BY <1>1, <1>3 DEF Worker

LEMMA Idling ==
  ASSUME Typed, Kept, NEW w \in Workers, workers' = [workers EXCEPT ![w] = IdleWorker]
  PROVE  WorkersOK' /\ Elsewhere(w) /\ workers'[w] = IdleWorker
  BY IdleTyped, PutWorker DEF Typed, Elsewhere

LEMMA pickUpStep ==
  ASSUME Typed, NEW w \in Workers, NEW j \in JobIds, pickUp(w, j)
  PROVE  /\ WorkerStep(w) /\ doc' = doc /\ tasks' = tasks /\ chunks' = chunks
         /\ vectors' = vectors /\ torn' = torn /\ usage' = usage
         /\ w <= used.slots
         /\ \/ workers' = workers
            \/ /\ workers'[w].pc = "reading" /\ workers'[w].range = 0 /\ doc.there
<1>1. DocOK' /\ Kept
  BY DocSame DEF Typed, pickUp
<1>2. JobsOK' /\ WorkersOK' /\ UsedOK' /\ UsedGrows /\ Elsewhere(w)
      /\ \/ workers' = workers
         \/ /\ workers'[w].pc = "reading" /\ workers'[w].range = 0 /\ doc.there
  <2>1. CASE doc.there
    <3> DEFINE f == Execution("reading", j, TRUE, used.runs + 1, doc.config)
    <3>1. used.runs \in 0..MaxRuns /\ used.runs < MaxRuns /\ used \in UsedRow
      BY <2>1 DEF pickUp, Typed, UsedOK, UsedRow
    <3>2. used.runs + 1 \in 0..MaxRuns /\ used.runs + 1 > 0
      BY <3>1, BoundsAssumption
    <3>3. doc.config \in Configs
      BY DEF Typed, DocOK, DocRow
    <3>4. f = [pc |-> "reading", job |-> j, holds |-> TRUE, run |-> used.runs + 1,
               config |-> doc.config, reusable |-> {}, range |-> 0, part |-> 0,
               doomed |-> {}, left |-> {}, whole |-> FALSE]
      BY DEF Execution
    <3>5. workers' = [workers EXCEPT ![w] = f]
      BY <2>1 DEF pickUp
    <3> HIDE DEF f
    <3>6. f \in Worker /\ f.pc = "reading" /\ f.range = 0 /\ Coherent(f)
      <4>1. "reading" \in PCs /\ "reading" \notin InTask
        BY DEF PCs, Planning, InTask
      <4>2. f \in Worker
        BY <3>2, <3>3, <3>4, <4>1 DEF Worker
      <4>. QED
        BY <3>2, <3>4, <4>1, <4>2 DEF Coherent
    <3>7. WorkersOK' /\ Elsewhere(w) /\ workers'[w].pc = "reading" /\ workers'[w].range = 0
      BY <1>1, <3>5, <3>6, PutWorker DEF Typed, Elsewhere
    <3>8. UsedOK' /\ UsedGrows
      <4>1. used' = [used EXCEPT !.runs = used.runs + 1]
        BY <2>1 DEF pickUp
      <4>. QED
        BY <3>1, <3>2, <4>1 DEF UsedOK, UsedGrows, UsedRow
    <3>9. JobsOK'
      <4>1. jobs[j] \in JobRow /\ jobs \in [JobIds -> JobRow]
        BY DEF Typed, JobsOK
      <4>2. [jobs[j] EXCEPT !.state = "active"] \in JobRow
        BY <4>1 DEF JobRow
      <4>3. jobs' = [jobs EXCEPT ![j] = [jobs[j] EXCEPT !.state = "active"]]
        BY <2>1 DEF pickUp
      <4>4. jobs' \in [JobIds -> JobRow]
        BY <4>1, <4>2, <4>3
      <4>. QED
        BY <4>4 DEF JobsOK, JobRow, JobIds
    <3>. QED
      BY <2>1, <3>7, <3>8, <3>9
  <2>2. CASE ~doc.there
    <3>1. jobs' = Thrown(j) /\ workers' = workers /\ used' = used
      BY <2>2 DEF pickUp
    <3>2. JobsOK'
      <4>1. jobs' \in [JobIds -> JobRow]
        BY <3>1, JobMoves DEF Typed
      <4>. QED
        BY <4>1 DEF JobsOK, JobRow, JobIds
    <3>. QED
      BY <1>1, <3>1, <3>2, SameWorkers, UsedSame DEF Typed, Elsewhere
  <2>. QED
    BY <2>1, <2>2
<1>3. WorkerStep(w)
  BY <1>1, <1>2, Assemble DEF pickUp
<1>. QED
  BY <1>2, <1>3 DEF pickUp, Free

\* An UPDATE of the document's status, or none.
DocStep == doc' = doc \/ \E s \in Statuses : doc' = Updated([doc EXCEPT !.status = s])

LEMMA DocSteps == ASSUME Typed, DocStep PROVE DocOK' /\ Kept
  BY DocSame, StatusSet DEF Typed, DocStep

LEMMA Goes ==
  ASSUME Typed, NEW w \in Workers, NEW to \in PCs, Go(w, to), workers[w].pc # "idle",
         to \in InTask => workers[w].range \in Ranges, DocOK', Kept,
         TasksOK' \/ tasks' = tasks, jobs' = jobs,
         (ChunksOK' /\ PlacesOK') \/ (chunks' = chunks /\ vectors' = vectors),
         UsageOK' \/ usage' = usage, (UsedOK' /\ UsedGrows) \/ used' = used,
         requests' = requests, torn => torn'
  PROVE  /\ WorkerStep(w) /\ workers'[w].pc = to /\ SamePlan(workers[w], workers'[w])
<1>1. /\ WorkersOK' /\ workers'[w].pc = to /\ SamePlan(workers[w], workers'[w])
      /\ Elsewhere(w)
  BY GoTo DEF Typed, Elsewhere
<1>. QED
  BY <1>1, Assemble

LEMMA TornFacts ==
  ASSUME NEW e, torn' = (torn \/ Tears(e))
  PROVE  (torn => torn') /\ (e.pc \in Pruning => torn')
<1>1. e.pc \in Pruning => Tears(e)
  BY DEF Tears, Pruning
<1>. QED
  BY <1>1, Zenon

LEMMA StopSteps ==
  ASSUME Typed, NEW w \in Workers, Crash(w) \/ Throws(w) \/ close(w)
  PROVE  /\ WorkerStep(w) /\ doc' = doc /\ tasks' = tasks /\ chunks' = chunks
         /\ vectors' = vectors /\ usage' = usage
         /\ workers[w].pc # "idle" /\ workers'[w] = IdleWorker
         /\ workers[w].pc \in Pruning => torn'
<1> DEFINE e == workers[w]
<1>1. e.job \in JobIds
  BY WorkerFacts
<1>2. /\ doc' = doc /\ tasks' = tasks /\ chunks' = chunks /\ vectors' = vectors
      /\ usage' = usage /\ requests' = requests
      /\ workers' = [workers EXCEPT ![w] = IdleWorker] /\ e.pc # "idle"
  BY DEF Crash, Throws, close
<1>8. (torn => torn') /\ (e.pc \in Pruning => torn')
  <2>1. CASE torn' = (torn \/ Tears(e))
    BY <2>1, TornFacts
  <2>2. CASE torn' = torn /\ e.pc = "over"
    BY <2>2 DEF Pruning
  <2>. QED
    BY <2>1, <2>2 DEF Crash, Throws, close
<1>3. DocOK' /\ Kept
  BY <1>2, DocSame DEF Typed
<1>4. WorkersOK' /\ Elsewhere(w) /\ workers'[w] = IdleWorker
  BY <1>2, <1>3, Idling
<1>5. JobsOK' \/ jobs' = jobs
  <2>1. jobs' \in {jobs, Stalled(e.job), Thrown(e.job), Release(e.job)}
    BY DEF Crash, Throws, close
  <2>2. jobs' \in [JobIds -> JobRow] \/ jobs' = jobs
    BY <1>1, <2>1, JobMoves DEF Typed
  <2>. QED
    BY <2>2 DEF JobsOK, JobRow, JobIds
<1>6. (UsedOK' /\ UsedGrows) \/ used' = used
  BY UseBound DEF Typed, Crash, Throws, close, Bounds
<1>7. WorkerStep(w)
  BY <1>2, <1>3, <1>4, <1>5, <1>6, <1>8, Assemble
<1>. QED
  BY <1>2, <1>4, <1>7, <1>8

LEMMA StallStep ==
  ASSUME Typed, NEW w \in Workers, Stall(w)
  PROVE  /\ WorkerStep(w) /\ doc' = doc /\ tasks' = tasks /\ chunks' = chunks
         /\ vectors' = vectors /\ usage' = usage /\ torn' = torn
         /\ workers[w].pc # "idle" /\ workers'[w].pc = workers[w].pc
         /\ SamePlan(workers[w], workers'[w])
<1> DEFINE e == workers[w]
           f == [e EXCEPT !.holds = FALSE]
<1>1. e \in Worker /\ Coherent(e) /\ e.job \in JobIds
  BY WorkerFacts
<1>2. f \in Worker /\ f.pc = e.pc /\ SamePlan(e, f)
  BY <1>1 DEF Worker, SamePlan, SameRun
<1>3. /\ doc' = doc /\ tasks' = tasks /\ chunks' = chunks /\ vectors' = vectors
      /\ usage' = usage /\ requests' = requests /\ torn' = torn /\ e.pc # "idle"
      /\ workers' = [workers EXCEPT ![w] = f] /\ jobs' = Stalled(e.job) /\ Use("stalls")
  BY DEF Stall
<1>4. Coherent(f)
  BY <1>1, <1>2 DEF Coherent, SamePlan, SameRun
<1> HIDE DEF f
<1>5. DocOK' /\ Kept
  BY <1>3, DocSame DEF Typed
<1>6. WorkersOK' /\ Elsewhere(w) /\ workers'[w] = f
  BY <1>2, <1>3, <1>4, <1>5, PutWorker DEF Typed, Elsewhere
<1>7. JobsOK'
  <2>1. jobs' \in [JobIds -> JobRow]
    BY <1>1, <1>3, JobMoves DEF Typed
  <2>. QED
    BY <2>1 DEF JobsOK, JobRow, JobIds
<1>8. UsedOK' /\ UsedGrows
  BY <1>3, UseBound DEF Typed, Bounds
<1>9. WorkerStep(w)
  BY <1>3, <1>5, <1>6, <1>7, <1>8, Assemble
<1>. QED
  BY <1>2, <1>3, <1>6, <1>9

LEMMA FailSteps ==
  ASSUME Typed, NEW w \in Workers, Fails(w) \/ Breaks(w) \/ parseFails(w) \/ finishEmpty(w)
  PROVE  /\ WorkerStep(w) /\ doc' = Updated([doc EXCEPT !.status = "failed"])
         /\ chunks' = chunks /\ vectors' = vectors /\ usage' = usage
         /\ tasks' = tasks \/ tasks' = TaskSet(workers[w], workers[w].range, "failed")
         /\ workers[w].pc \notin {"idle", "over"} /\ workers'[w].pc = "over"
         /\ workers[w].pc \in Pruning => torn'
<1> DEFINE e == workers[w]
<1>1. failDocument(w) /\ e.pc \notin {"idle", "over"}
  BY DEF Fails, Breaks, parseFails, finishEmpty, Refused
<1>2. /\ tasks' = tasks \/ tasks' = TaskSet(e, e.range, "failed")
  BY DEF Fails, Breaks, parseFails, finishEmpty
<1>3. (UsedOK' /\ UsedGrows) \/ used' = used
  BY UseBound DEF Typed, Fails, Breaks, parseFails, finishEmpty, Bounds
<1>4. /\ doc' = Updated([doc EXCEPT !.status = "failed"]) /\ Go(w, "over")
      /\ chunks' = chunks /\ vectors' = vectors /\ usage' = usage
      /\ jobs' = jobs /\ requests' = requests /\ torn' = (torn \/ Tears(e))
  BY <1>1 DEF failDocument
<1>9. (torn => torn') /\ (e.pc \in Pruning => torn')
  BY <1>4, TornFacts
<1>5. DocOK' /\ Kept
  BY <1>4, DocSteps DEF DocStep, Statuses
<1>6. TasksOK' \/ tasks' = tasks
  BY <1>2, <1>5, TaskSetTyped DEF Typed
<1>7. "over" \in PCs /\ "over" \notin InTask
  BY DEF PCs, InTask
<1>8. WorkerStep(w) /\ workers'[w].pc = "over"
  BY <1>1, <1>3, <1>4, <1>5, <1>6, <1>7, <1>9, Goes
<1>. QED
  BY <1>1, <1>2, <1>4, <1>8, <1>9

\* A step that leaves tasks and stores alone, from one program counter to the
\* next.
Moves(w, from, to) ==
  /\ WorkerStep(w) /\ SamePlan(workers[w], workers'[w])
  /\ tasks' = tasks /\ chunks' = chunks /\ vectors' = vectors /\ torn' = torn
  /\ workers[w].pc = from /\ workers'[w].pc = to

\* The document is not made ready.
NotReady == doc' = doc \/ (doc.there => doc'.status # "ready")

LEMMA Moving ==
  ASSUME Typed, NEW w \in Workers, NEW from \in PCs \ {"idle"}, NEW to \in PCs,
         workers[w].pc = from, Go(w, to), to \in InTask => workers[w].range \in Ranges,
         DocOK', Kept, UsageOK' \/ usage' = usage, tasks' = tasks, chunks' = chunks,
         vectors' = vectors, torn' = torn, jobs' = jobs, requests' = requests, used' = used
  PROVE  Moves(w, from, to)
<1>1. WorkerStep(w) /\ workers'[w].pc = to /\ SamePlan(workers[w], workers'[w])
  BY Goes
<1>. QED
  BY <1>1 DEF Moves

LEMMA beginStep ==
  ASSUME Typed, NEW w \in Workers, begin(w)
  PROVE  Moves(w, "reading", "planning") /\ NotReady /\ usage' = usage
<1>1. DocOK' /\ Kept
  BY DocSteps DEF begin, DocStep, Statuses
<1>2. "reading" \in PCs \ {"idle"} /\ "planning" \in PCs /\ "planning" \notin InTask
  BY DEF PCs, Planning, InTask
<1>3. Moves(w, "reading", "planning")
  BY <1>1, <1>2, Moving DEF begin
<1>4. doc.there => doc'.status = Working
  BY DEF begin, Updated, Typed, DocOK, DocRow
<1>. QED
  BY <1>3, <1>4 DEF begin, NotReady, Working

LEMMA cancelledStep ==
  ASSUME Typed, NEW w \in Workers, cancelled(w)
  PROVE  Moves(w, "between", "over") /\ NotReady /\ usage' = usage
<1>1. doc.there /\ doc' = [doc EXCEPT !.status = "cancelled", !.cancelRequested = FALSE]
  BY DEF cancelled
<1>2. DocOK' /\ Kept /\ doc'.status = "cancelled"
  BY <1>1 DEF Typed, DocOK, DocRow, Kept, Statuses
<1>3. "between" \in PCs \ {"idle"} /\ "over" \in PCs /\ "over" \notin InTask
  BY DEF PCs, Carried, InTask
<1>4. Moves(w, "between", "over")
  BY <1>2, <1>3, Moving DEF cancelled
<1>. QED
  BY <1>2, <1>4 DEF cancelled, NotReady

LEMMA startSummariesStep ==
  ASSUME Typed, NEW w \in Workers, startSummaries(w)
  PROVE  /\ Moves(w, "between", "summarising") /\ NotReady /\ usage' = usage
         /\ Ahead(workers[w]) = {}
<1>1. DocOK' /\ Kept
  BY DocSteps DEF startSummaries, DocStep, Statuses
<1>2. "between" \in PCs \ {"idle"} /\ "summarising" \in PCs /\ "summarising" \notin InTask
  BY DEF PCs, Carried, Closing, InTask
<1>3. Moves(w, "between", "summarising")
  BY <1>1, <1>2, Moving DEF startSummaries
<1>4. doc.there => doc'.status = Working
  BY DEF startSummaries, Updated, Typed, DocOK, DocRow
<1>. QED
  BY <1>3, <1>4 DEF startSummaries, NotReady, Working

LEMMA endTasksStep ==
  ASSUME Typed, NEW w \in Workers, endTasks(w)
  PROVE  /\ Moves(w, "between", "ending") /\ NotReady /\ usage' = usage
         /\ Ahead(workers[w]) = {}
<1>1. DocOK' /\ Kept
  BY DocSteps DEF endTasks, DocStep
<1>2. "between" \in PCs \ {"idle"} /\ "ending" \in PCs /\ "ending" \notin InTask
  BY DEF PCs, Carried, Closing, InTask
<1>3. Moves(w, "between", "ending")
  BY <1>1, <1>2, Moving DEF endTasks
<1>. QED
  BY <1>3 DEF endTasks, NotReady

LEMMA SummarySteps ==
  ASSUME Typed, NEW w \in Workers, skipSummaries(w) \/ buildSummaries(w) \/ chargeSummary(w)
  PROVE  /\ \E from, to \in Closing \ {"embedding_summary"} : Moves(w, from, to)
         /\ NotReady
         /\ \A u \in usage' \ usage : u.range = Summary
<1>1. DocOK' /\ Kept
  BY DocSteps DEF skipSummaries, buildSummaries, chargeSummary, DocStep
<1>2. \A pc \in Closing : pc \in PCs \ {"idle"} /\ pc \notin InTask
  BY DEF PCs, Carried, Closing, InTask
<1>3. CASE skipSummaries(w)
  <2>1. "summarising" \in Closing \ {"embedding_summary"} /\ "ending" \in Closing \ {"embedding_summary"}
    BY DEF Closing
  <2>2. Moves(w, "summarising", "ending")
    BY <1>1, <1>2, <1>3, <2>1, Moving DEF skipSummaries
  <2>. QED
    BY <1>3, <2>1, <2>2 DEF skipSummaries, NotReady
<1>4. CASE buildSummaries(w)
  <2>1. "summarising" \in Closing \ {"embedding_summary"} /\ "storing_summary" \in Closing \ {"embedding_summary"}
    BY DEF Closing
  <2>2. Moves(w, "summarising", "storing_summary")
    BY <1>1, <1>2, <1>4, <2>1, Moving DEF buildSummaries
  <2>. QED
    BY <1>4, <2>1, <2>2 DEF buildSummaries, NotReady
<1>5. CASE chargeSummary(w)
  <2>1. "charging_summary" \in Closing \ {"embedding_summary"} /\ "ending" \in Closing \ {"embedding_summary"}
    BY DEF Closing
  <2> DEFINE u == [job |-> workers[w].job, range |-> Summary]
  <2>2. workers[w].job \in JobIds
    BY WorkerFacts
  <2>3. u \in UsageRow /\ u.range = Summary
    BY <2>2 DEF UsageRow
  <2>4. usage' = usage \cup {u}
    BY <1>5 DEF chargeSummary
  <2> HIDE DEF u
  <2>5. UsageOK'
    BY <1>1, <2>3, <2>4, KeptRows DEF Typed, UsageOK
  <2>6. Moves(w, "charging_summary", "ending")
    BY <1>1, <1>2, <1>5, <2>1, <2>5, Moving DEF chargeSummary
  <2>. QED
    BY <1>5, <2>1, <2>3, <2>4, <2>6 DEF chargeSummary, NotReady
<1>. QED
  BY <1>3, <1>4, <1>5

LEMMA finishStep ==
  ASSUME Typed, NEW w \in Workers, finish(w)
  PROVE  Moves(w, "ending", "counting") /\ usage' = usage
<1>1. DocOK' /\ Kept
  BY DocSteps DEF finish, DocStep, Statuses
<1>2. "ending" \in PCs \ {"idle"} /\ "counting" \in PCs /\ "counting" \notin InTask
  BY DEF PCs, Carried, Closing, InTask
<1>3. Moves(w, "ending", "counting")
  BY <1>1, <1>2, Moving DEF finish
<1>. QED
  BY <1>3 DEF finish

LEMMA refreshCountsStep ==
  ASSUME Typed, NEW w \in Workers, refreshCounts(w)
  PROVE  Moves(w, "counting", "over") /\ NotReady /\ usage' = usage
<1>1. DocOK' /\ Kept
  BY DocSteps DEF refreshCounts, DocStep
<1>2. "counting" \in PCs \ {"idle"} /\ "over" \in PCs /\ "over" \notin InTask
  BY DEF PCs, InTask
<1>3. Moves(w, "counting", "over")
  BY <1>1, <1>2, Moving DEF refreshCounts
<1>. QED
  BY <1>3 DEF refreshCounts, NotReady

LEMMA ChargeTyped ==
  ASSUME NEW e, e.range \in Ranges, e.job \in JobIds, e.config \in Configs,
         NEW purpose \in Purposes
  PROVE  LET u == Charge(e, purpose)
         IN  /\ u \in UsageRow /\ u.range = e.range /\ u.config = e.config
             /\ u.purpose = purpose
  BY DEF Charge, UsageRow

LEMMA chargeEmbeddingStep ==
  ASSUME Typed, NEW w \in Workers, chargeEmbedding(w)
  PROVE  /\ Moves(w, "charging", "settling") /\ NotReady
         /\ \A u \in usage' \ usage :
              u.range = workers[w].range /\ u.config = workers[w].config
<1> DEFINE e == workers[w]
           u == Charge(e, "embed")
<1>1. DocOK' /\ Kept
  BY DocSteps DEF chargeEmbedding, DocStep
<1>2. "charging" \in PCs \ {"idle"} /\ "settling" \in PCs /\ "charging" \in InTask
  BY DEF PCs, Carried, InTask
<1>3. e.range \in Ranges /\ e.job \in JobIds /\ e.config \in Configs
  BY <1>2, WorkerFacts DEF chargeEmbedding, Coherent
<1>4. u \in UsageRow /\ u.range = e.range /\ u.config = e.config
  BY <1>3, ChargeTyped DEF Purposes
<1>5. usage' = usage \cup {u}
  BY DEF chargeEmbedding
<1> HIDE DEF u
<1>6. UsageOK'
  BY <1>1, <1>4, <1>5, KeptRows DEF Typed, UsageOK
<1>7. Moves(w, "charging", "settling")
  BY <1>1, <1>2, <1>3, <1>6, Moving DEF chargeEmbedding
<1>. QED
  BY <1>4, <1>5, <1>7 DEF chargeEmbedding, NotReady

\* A step that gives its execution a new record.
LEMMA Puts ==
  ASSUME Typed, NEW w \in Workers, NEW f \in Worker, Coherent(f),
         workers' = [workers EXCEPT ![w] = f], DocOK', Kept,
         TasksOK' \/ tasks' = tasks, jobs' = jobs,
         (ChunksOK' /\ PlacesOK') \/ (chunks' \subseteq chunks /\ vectors' \subseteq vectors),
         usage' = usage, requests' = requests, torn' = torn, used' = used
  PROVE  WorkerStep(w) /\ workers'[w] = f
<1>1. WorkersOK' /\ Elsewhere(w) /\ workers'[w] = f
  BY PutWorker DEF Typed, Elsewhere
<1>. QED
  BY <1>1, Assemble

SettledTask == {t \in tasks : t.status \in SettledTasks}
Has(r, c) == \E k \in chunks : k.range = r /\ k.config = c

LEMMA planTasksStep ==
  ASSUME Typed, NEW w \in Workers, planTasks(w)
  PROVE  /\ WorkerStep(w) /\ doc' = doc /\ tasks' = tasks /\ chunks' = chunks
         /\ vectors' = vectors /\ torn' = torn /\ usage' = usage
         /\ workers[w].pc = "planning" /\ workers'[w].pc = "pruning"
         /\ SameRun(workers[w], workers'[w]) /\ workers'[w].range = workers[w].range
         /\ \A r : r \in workers'[w].reusable <=>
              /\ \E t \in SettledTask : t.range = r /\ t.config = workers[w].config
              /\ Has(r, workers[w].config)
<1> DEFINE e == workers[w]
           settled == {t.range : t \in {u \in tasks : u.config = e.config /\ u.status \in SettledTasks}}
           reusable == {r \in settled : HasPassages(e, r)}
           f == [e EXCEPT !.pc = "pruning", !.reusable = reusable]
<1>1. e \in Worker /\ Coherent(e)
  BY WorkerFacts
<1>2. \A r : r \in reusable <=>
        (\E t \in SettledTask : t.range = r /\ t.config = e.config) /\ Has(r, e.config)
  BY DEF SettledTask, HasPassages, Has
<1>3. reusable \subseteq Ranges
  BY DEF Typed, TasksOK, TaskRow
<1>4. workers' = [workers EXCEPT ![w] = f] /\ e.pc = "planning"
  BY DEF planTasks
<1> HIDE DEF reusable
<1>5. "pruning" \in PCs /\ "pruning" \notin InTask
  BY DEF PCs, Planning, InTask
<1>6. f \in Worker
  BY <1>1, <1>3, <1>5 DEF Worker
<1>7. f.pc = "pruning" /\ f.reusable = reusable /\ SameRun(e, f) /\ f.range = e.range
      /\ f.left = e.left /\ f.doomed = e.doomed
  BY <1>1 DEF Worker, SameRun
<1> HIDE DEF f
<1>8. Coherent(f)
  BY <1>1, <1>4, <1>5, <1>7 DEF Coherent, SameRun
<1>9. DocOK' /\ Kept
  BY DocSteps DEF planTasks, DocStep
<1>10. WorkerStep(w) /\ workers'[w] = f
  BY <1>4, <1>6, <1>8, <1>9, Puts DEF planTasks
<1>. QED
  BY <1>2, <1>4, <1>7, <1>10 DEF planTasks

LEMMA pruneStep ==
  ASSUME Typed, NEW w \in Workers, pruneReplacedChunks(w)
  PROVE  /\ WorkerStep(w) /\ doc' = doc /\ tasks' = tasks /\ chunks' = chunks
         /\ vectors' = vectors /\ torn' = torn /\ usage' = usage
         /\ SameRun(workers[w], workers'[w]) /\ workers'[w].range = workers[w].range
         /\ workers'[w].reusable = workers[w].reusable
         /\ workers'[w].doomed = Doomed(workers[w]) /\ workers'[w].left = Doomed(workers[w])
         /\ workers'[w].whole <=> Doomed(workers[w]) = chunks
         /\ workers[w].pc = "pruning"
         /\ workers'[w].pc = IF Doomed(workers[w]) = {} THEN "writing" ELSE "unindex"
<1> DEFINE e == workers[w]
           doomed == Doomed(e)
           pc == IF doomed = {} THEN "writing" ELSE "unindex"
           whole == doomed = chunks
           f == [e EXCEPT !.pc = pc, !.doomed = doomed, !.left = doomed, !.whole = whole]
<1>1. e \in Worker /\ Coherent(e)
  BY WorkerFacts
<1>2. doomed \subseteq ChunkRow
  BY DEF Doomed, Typed, ChunksOK
<1>3. workers' = [workers EXCEPT ![w] = f] /\ e.pc = "pruning"
  BY DEF pruneReplacedChunks
<1>4. pc \in PCs /\ pc \notin InTask /\ whole \in BOOLEAN
  BY DEF PCs, Planning, InTask
<1> HIDE DEF doomed, pc, whole
<1>5. f \in Worker
  BY <1>1, <1>2, <1>4 DEF Worker
<1>6. f.pc = pc /\ SameRun(e, f) /\ f.range = e.range /\ f.reusable = e.reusable
      /\ f.doomed = doomed /\ f.left = doomed /\ f.whole = whole
  BY <1>1 DEF Worker, SameRun
<1> HIDE DEF f
<1>7. Coherent(f)
  BY <1>1, <1>3, <1>4, <1>6 DEF Coherent, SameRun
<1>8. DocOK' /\ Kept
  BY DocSteps DEF pruneReplacedChunks, DocStep
<1>9. WorkerStep(w) /\ workers'[w] = f
  BY <1>3, <1>5, <1>7, <1>8, Puts DEF pruneReplacedChunks
<1>10. f.whole <=> doomed = chunks
  BY <1>6 DEF whole
<1>. QED
  BY <1>3, <1>6, <1>9, <1>10 DEF pruneReplacedChunks, doomed, pc

\* A batch is taken from what is left.
LEMMA BatchLeft == \A e, left : left # {} => Batch(e, left) \subseteq left
  BY DEF Batch

LEMMA deleteVectorsStep ==
  ASSUME Typed, NEW w \in Workers, deleteVectors(w)
  PROVE  LET e == workers[w]
             f == workers'[w]
             left == e.left \ Batch(e, e.left)
         IN  /\ WorkerStep(w) /\ doc' = doc /\ tasks' = tasks /\ chunks' = chunks
             /\ torn' = torn /\ usage' = usage
             /\ SameRun(e, f) /\ f.range = e.range /\ f.reusable = e.reusable
             /\ f.doomed = e.doomed /\ f.whole = e.whole
             /\ vectors' = IF e.whole THEN {} ELSE vectors \ Batch(e, e.left)
             /\ e.pc = "unindex"
             /\ \/ left = {} /\ f.pc = "unlist" /\ f.left = e.doomed
                \/ left # {} /\ f.pc = "unindex" /\ f.left = left
<1> DEFINE e == workers[w]
           left == e.left \ Batch(e, e.left)
           f == IF left = {} THEN [e EXCEPT !.pc = "unlist", !.left = e.doomed]
                ELSE [e EXCEPT !.left = left]
<1>1. e \in Worker /\ Coherent(e)
  BY WorkerFacts
<1>2. e.left \subseteq ChunkRow /\ e.doomed \subseteq ChunkRow
  BY <1>1 DEF Worker
<1>3. workers' = [workers EXCEPT ![w] = f] /\ e.pc = "unindex"
  BY DEF deleteVectors
<1>4. left \subseteq e.left
  OBVIOUS
<1> HIDE DEF left
<1>5. "unlist" \in PCs /\ "unlist" \notin InTask /\ "unindex" \notin InTask
  BY DEF PCs, Planning, InTask
<1>6. f \in Worker
  BY <1>1, <1>2, <1>4, <1>5 DEF Worker
<1>7. SameRun(e, f) /\ f.range = e.range /\ f.reusable = e.reusable /\ f.doomed = e.doomed
      /\ f.whole = e.whole
  BY <1>1 DEF Worker, SameRun
<1>8. \/ left = {} /\ f.pc = "unlist" /\ f.left = e.doomed
      \/ left # {} /\ f.pc = "unindex" /\ f.left = left
  BY <1>1, <1>3 DEF Worker
<1> HIDE DEF f
<1>9. Coherent(f)
  BY <1>1, <1>3, <1>4, <1>5, <1>7, <1>8 DEF Coherent, SameRun
<1>10. DocOK' /\ Kept
  BY DocSteps DEF deleteVectors, DocStep
<1>11. vectors' = IF e.whole THEN {} ELSE vectors \ Batch(e, e.left)
  BY DEF deleteVectors
<1>12. chunks' \subseteq chunks /\ vectors' \subseteq vectors
  BY <1>11 DEF deleteVectors
<1>13. WorkerStep(w) /\ workers'[w] = f
  BY <1>3, <1>6, <1>9, <1>10, <1>12, Puts DEF deleteVectors
<1>. QED
  BY <1>3, <1>7, <1>8, <1>11, <1>13 DEF deleteVectors, left

LEMMA deleteChunksStep ==
  ASSUME Typed, NEW w \in Workers, deleteChunks(w)
  PROVE  LET e == workers[w]
             f == workers'[w]
             left == e.left \ Batch(e, e.left)
         IN  /\ WorkerStep(w) /\ doc' = doc /\ tasks' = tasks /\ vectors' = vectors
             /\ torn' = torn /\ usage' = usage
             /\ SameRun(e, f) /\ f.range = e.range /\ f.reusable = e.reusable
             /\ chunks' = IF e.whole THEN {} ELSE chunks \ Batch(e, e.left)
             /\ e.pc = "unlist"
             /\ \/ left = {} /\ f.pc = "writing"
                \/ /\ left # {} /\ f.pc = "unlist" /\ f.left = left /\ f.doomed = e.doomed
                   /\ f.whole = e.whole
<1> DEFINE e == workers[w]
           left == e.left \ Batch(e, e.left)
           f == IF left = {}
                THEN [e EXCEPT !.pc = "writing", !.doomed = {}, !.left = {}, !.whole = FALSE]
                ELSE [e EXCEPT !.left = left]
<1>1. e \in Worker /\ Coherent(e)
  BY WorkerFacts
<1>2. e.left \subseteq ChunkRow /\ e.doomed \subseteq ChunkRow
  BY <1>1 DEF Worker
<1>3. workers' = [workers EXCEPT ![w] = f] /\ e.pc = "unlist"
  BY DEF deleteChunks
<1>4. left \subseteq e.left
  OBVIOUS
<1> HIDE DEF left
<1>5. "writing" \in PCs /\ "writing" \notin InTask /\ "unlist" \notin InTask
  BY DEF PCs, Planning, InTask
<1>6. f \in Worker
  BY <1>1, <1>2, <1>4, <1>5 DEF Worker
<1>7. SameRun(e, f) /\ f.range = e.range /\ f.reusable = e.reusable
  BY <1>1 DEF Worker, SameRun
<1>8. \/ left = {} /\ f.pc = "writing" /\ f.left = {} /\ f.doomed = {}
      \/ /\ left # {} /\ f.pc = "unlist" /\ f.left = left /\ f.doomed = e.doomed
         /\ f.whole = e.whole
  BY <1>1, <1>3 DEF Worker
<1> HIDE DEF f
<1>9. Coherent(f)
  BY <1>1, <1>3, <1>4, <1>5, <1>7, <1>8 DEF Coherent, SameRun
<1>10. DocOK' /\ Kept
  BY DocSteps DEF deleteChunks, DocStep
<1>11. chunks' = IF e.whole THEN {} ELSE chunks \ Batch(e, e.left)
  BY DEF deleteChunks
<1>12. chunks' \subseteq chunks /\ vectors' \subseteq vectors
  BY <1>11 DEF deleteChunks
<1>13. WorkerStep(w) /\ workers'[w] = f
  BY <1>3, <1>6, <1>9, <1>10, <1>12, Puts DEF deleteChunks
<1>. QED
  BY <1>3, <1>7, <1>8, <1>11, <1>13 DEF deleteChunks, left

LEMMA writePlanStep ==
  ASSUME Typed, NEW w \in Workers, writePlan(w)
  PROVE  LET e == workers[w] IN
         /\ WorkerStep(w) /\ SamePlan(e, workers'[w])
         /\ doc' = doc /\ chunks' = chunks /\ vectors' = vectors /\ usage' = usage
         /\ torn' = torn /\ e.pc = "writing" /\ workers'[w].pc = "between"
         /\ \A t \in tasks' :
              /\ t.run = e.run /\ t.config = e.config
              /\ \/ t.range \in e.reusable /\ t.status = "reused"
                 \/ t.range \in Pending(e) /\ t.status = "pending"
         /\ \A r \in Ranges : \E t \in tasks' : t.range = r
<1> DEFINE e == workers[w]
           row(r) == [run |-> e.run, range |-> r, config |-> e.config,
                      status |-> IF r \in e.reusable THEN "reused" ELSE "pending"]
<1>1. e.pc = "writing" /\ Go(w, "between") /\ tasks' = {row(r) : r \in Ranges}
  BY DEF writePlan
<1>2. e.run \in 1..MaxRuns /\ e.config \in Configs
  BY <1>1, WorkerFacts
<1>3. ASSUME NEW r \in Ranges
      PROVE  /\ row(r) \in TaskRow /\ row(r).run = e.run /\ row(r).config = e.config
             /\ row(r).range = r
             /\ row(r).status = IF r \in e.reusable THEN "reused" ELSE "pending"
  BY <1>2 DEF TaskRow
<1>4. DocOK' /\ Kept
  BY DocSteps DEF writePlan, DocStep
<1> HIDE DEF row
<1>5. \A t \in tasks' : t \in TaskRow
  BY <1>1, <1>3
<1>6. TasksOK'
  BY <1>4, <1>5, KeptRows DEF TasksOK
<1>7. "between" \in PCs /\ "between" \notin InTask
  BY DEF PCs, Carried, InTask
<1>8. WorkerStep(w) /\ workers'[w].pc = "between" /\ SamePlan(e, workers'[w])
  BY <1>1, <1>4, <1>6, <1>7, Goes DEF writePlan
<1>9. \A r \in Ranges : \E t \in tasks' : t.range = r
  BY <1>1, <1>3
<1>10. ASSUME NEW t \in tasks'
       PROVE  /\ t.run = e.run /\ t.config = e.config
              /\ \/ t.range \in e.reusable /\ t.status = "reused"
                 \/ t.range \in Pending(e) /\ t.status = "pending"
  <2>1. PICK r \in Ranges : t = row(r)
    BY <1>1
  <2>. QED
    BY <1>3, <2>1 DEF Pending
<1>. QED
  BY <1>1, <1>8, <1>9, <1>10 DEF writePlan

LEMMA AheadFacts ==
  ASSUME Typed, NEW w \in Workers
  PROVE  Ahead(workers[w]) \subseteq Ranges /\ Ahead(workers[w]) \subseteq Nat
  BY BatchFacts DEF Ahead, Pending, Typed

LEMMA startTaskStep ==
  ASSUME Typed, NEW w \in Workers, startTask(w)
  PROVE  LET e == workers[w]
             f == workers'[w]
         IN  /\ WorkerStep(w) /\ doc' = doc /\ chunks' = chunks /\ vectors' = vectors
             /\ usage' = usage /\ torn' = torn
             /\ SameRun(e, f) /\ f.reusable = e.reusable /\ f.part = 0
             /\ f.range \in Ahead(e) /\ (\A r \in Ahead(e) : f.range <= r)
             /\ tasks' = TaskSet(e, f.range, "running")
             /\ e.pc = "between" /\ f.pc = "parsing"
<1> DEFINE e == workers[w]
<1>1. PICK next \in Ahead(e) :
       /\ \A r \in Ahead(e) : next <= r
       /\ tasks' = TaskSet(e, next, "running")
       /\ workers' = [workers EXCEPT ![w] = [e EXCEPT !.pc = "parsing", !.range = next, !.part = 0]]
  BY DEF startTask
<1> DEFINE f == [e EXCEPT !.pc = "parsing", !.range = next, !.part = 0]
<1>2. e \in Worker /\ Coherent(e)
  BY WorkerFacts
<1>3. next \in Ranges
  BY AheadFacts
<1>4. "parsing" \in PCs
  BY DEF PCs, Carried, InTask
<1>5. f \in Worker
  BY <1>2, <1>3, <1>4 DEF Worker
<1>6. SameRun(e, f) /\ f.reusable = e.reusable /\ f.part = 0 /\ f.range = next
      /\ f.pc = "parsing" /\ f.left = e.left /\ f.doomed = e.doomed
  BY <1>2 DEF Worker, SameRun
<1>7. workers' = [workers EXCEPT ![w] = f]
  BY <1>1
<1>8. e.pc = "between"
  BY DEF startTask
<1> HIDE DEF f
<1>9. Coherent(f)
  BY <1>2, <1>3, <1>6, <1>8 DEF Coherent, SameRun
<1>10. DocOK' /\ Kept
  BY DocSteps DEF startTask, DocStep
<1>11. TasksOK'
  BY <1>1, <1>10, TaskSetTyped DEF Typed
<1>12. WorkerStep(w) /\ workers'[w] = f
  BY <1>5, <1>7, <1>9, <1>10, <1>11, Puts DEF startTask
<1>. QED
  BY <1>1, <1>6, <1>8, <1>12 DEF startTask

\* What only the status of the document tells apart.
LEMMA WorkingDoc ==
  ASSUME Typed, doc' = Updated([doc EXCEPT !.status = Working])
  PROVE  DocOK' /\ Kept /\ NotReady
<1>1. DocOK' /\ Kept
  BY DocSteps DEF DocStep, Statuses
<1>2. doc.there => doc'.status = Working
  BY DEF Updated, Typed, DocOK, DocRow
<1>. QED
  BY <1>1, <1>2 DEF NotReady, Working

\* The keywords and questions are charged for, if they cost anything.
LEMMA enrichStep ==
  ASSUME Typed, NEW w \in Workers, enrich(w)
  PROVE  /\ Moves(w, "enriching", "storing") /\ NotReady
         /\ \A u \in usage' \ usage : u.range # Summary /\ u.purpose = "enrich"
<1> DEFINE e == workers[w]
           u == Charge(e, "enrich")
<1>1. DocOK' /\ Kept /\ NotReady
  BY WorkingDoc DEF enrich
<1>2. "enriching" \in PCs \ {"idle"} /\ "storing" \in PCs /\ "enriching" \in InTask
  BY DEF PCs, Carried, InTask
<1>3. e.range \in Ranges /\ e.job \in JobIds /\ e.config \in Configs
  BY <1>2, WorkerFacts DEF enrich, Coherent
<1>4. u \in UsageRow /\ u.range # Summary /\ u.purpose = "enrich"
  BY <1>3, ChargeTyped, BatchFacts DEF Purposes, Typed, Summary
<1>5. usage' = usage \cup {u} \/ usage' = usage
  BY DEF enrich
<1> HIDE DEF u
<1>6. UsageOK' \/ usage' = usage
  BY <1>1, <1>4, <1>5, KeptRows DEF Typed, UsageOK
<1>7. Moves(w, "enriching", "storing")
  BY <1>1, <1>2, <1>3, <1>6, Moving DEF enrich
<1>. QED
  BY <1>1, <1>4, <1>5, <1>7

LEMMA parseStep ==
  ASSUME Typed, NEW w \in Workers, parse(w)
  PROVE  LET e == workers[w]
             f == workers'[w]
         IN  /\ WorkerStep(w) /\ NotReady /\ SamePlan(e, f) /\ chunks' = chunks
             /\ vectors' = vectors /\ usage' = usage /\ torn' = torn
             /\ e.pc = "parsing" /\ e.range \in Ranges
             /\ \/ /\ Batches[e.range] = 0 /\ f.pc = "between"
                   /\ tasks' = TaskSet(e, e.range, "done")
                \/ /\ Batches[e.range] # 0 /\ f.pc \in {"enriching", "storing"}
                   /\ tasks' = tasks
<1> DEFINE e == workers[w]
<1>1. DocOK' /\ Kept /\ NotReady
  BY WorkingDoc DEF parse
<1>2. e.pc = "parsing" /\ e.range \in Ranges
  BY WorkerFacts DEF parse, Coherent, InTask
<1>3. "between" \in PCs /\ "storing" \in PCs /\ "enriching" \in PCs
  BY DEF PCs, Carried, InTask
<1>4. CASE Batches[e.range] = 0
  <2>1. tasks' = TaskSet(e, e.range, "done") /\ Go(w, "between")
    BY <1>4 DEF parse
  <2>2. TasksOK'
    BY <1>1, <2>1, TaskSetTyped DEF Typed
  <2>3. WorkerStep(w) /\ workers'[w].pc = "between" /\ SamePlan(e, workers'[w])
    BY <1>1, <1>2, <1>3, <2>1, <2>2, Goes DEF parse
  <2>. QED
    BY <1>1, <1>2, <1>4, <2>1, <2>3 DEF parse
<1>5. CASE Batches[e.range] # 0
  <2>1. PICK to \in {"enriching", "storing"} : tasks' = tasks /\ Go(w, to)
    BY <1>5 DEF parse
  <2>2. WorkerStep(w) /\ workers'[w].pc = to /\ SamePlan(e, workers'[w])
    BY <1>1, <1>2, <1>3, <2>1, Goes DEF parse
  <2>. QED
    BY <1>1, <1>2, <1>5, <2>1, <2>2 DEF parse
<1>. QED
  BY <1>4, <1>5

LEMMA settleTaskStep ==
  ASSUME Typed, NEW w \in Workers, settleTask(w)
  PROVE  LET e == workers[w]
             f == workers'[w]
         IN  /\ WorkerStep(w) /\ NotReady /\ SamePlan(e, f) /\ chunks' = chunks
             /\ vectors' = vectors /\ usage' = usage /\ torn' = torn
             /\ e.pc = "settling" /\ e.range \in Ranges /\ f.pc = "between"
             /\ tasks' = TaskSet(e, e.range, "done")
<1> DEFINE e == workers[w]
<1>1. DocOK' /\ Kept /\ NotReady
  BY WorkingDoc DEF settleTask
<1>2. e.pc = "settling" /\ e.range \in Ranges
  BY WorkerFacts DEF settleTask, Coherent, InTask
<1>3. "between" \in PCs
  BY DEF PCs, Carried
<1>4. tasks' = TaskSet(e, e.range, "done") /\ Go(w, "between")
  BY DEF settleTask
<1>5. TasksOK'
  BY <1>1, <1>4, TaskSetTyped DEF Typed
<1>6. WorkerStep(w) /\ workers'[w].pc = "between" /\ SamePlan(e, workers'[w])
  BY <1>1, <1>2, <1>3, <1>4, <1>5, Goes DEF settleTask
<1>. QED
  BY <1>1, <1>2, <1>4, <1>6 DEF settleTask

\* A passage or summary of a run is a row of its store.
LEMMA ChunkTyped ==
  ASSUME Typed, NEW w \in Workers, workers[w].pc # "idle",
         NEW range \in Ranges \cup {Summary}, NEW part \in Nat \ {0}
  PROVE  LET c == Chunk(workers[w], range, part) IN
         /\ c \in ChunkRow /\ c.range = range /\ c.part = part
         /\ c.config = workers[w].config /\ c.run = workers[w].run
<1>1. workers[w].run \in 1..MaxRuns /\ workers[w].config \in Configs
  BY WorkerFacts
<1>. QED
  BY <1>1 DEF Chunk, ChunkRow

\* A store with one more row of a place that was free.
LEMMA OneMore ==
  ASSUME Typed, Kept, NEW c \in ChunkRow, ~Taken(c.range, c.part),
         chunks' = chunks \cup {c}, vectors' = vectors
  PROVE  ChunksOK' /\ PlacesOK'
<1>1. ChunkRow' = ChunkRow
  BY KeptRows
<1>2. ChunksOK'
  BY <1>1 DEF Typed, ChunksOK
<1>3. PlacesOK'
  BY DEF Typed, PlacesOK, Taken
<1>. QED
  BY <1>2, <1>3

LEMMA storeChunksStep ==
  ASSUME Typed, NEW w \in Workers, storeChunks(w)
  PROVE  LET e == workers[w]
             f == workers'[w]
         IN  /\ WorkerStep(w) /\ NotReady /\ SameRun(e, f) /\ f.reusable = e.reusable
             /\ f.range = e.range /\ f.part = e.part + 1
             /\ f.pc = IF e.part + 1 = Batches[e.range] THEN "embedding" ELSE "storing"
             /\ chunks' = chunks \cup {Chunk(e, e.range, e.part + 1)}
             /\ tasks' = tasks /\ vectors' = vectors /\ usage' = usage /\ torn' = torn
             /\ e.pc = "storing" /\ e.range \in Ranges
<1> DEFINE e == workers[w]
           c == Chunk(e, e.range, e.part + 1)
           pc == IF e.part + 1 = Batches[e.range] THEN "embedding" ELSE "storing"
           f == [e EXCEPT !.part = e.part + 1, !.pc = pc]
<1>1. DocOK' /\ Kept /\ NotReady
  BY WorkingDoc DEF storeChunks
<1>2. e \in Worker /\ Coherent(e) /\ e.part \in Nat /\ e.pc = "storing" /\ e.range \in Ranges
  BY WorkerFacts DEF storeChunks, Coherent, InTask
<1>3. e.part + 1 \in Nat \ {0}
  BY <1>2
<1>4. c \in ChunkRow /\ c.range = e.range /\ c.part = e.part + 1
  BY <1>2, <1>3, ChunkTyped
<1>5. ~Taken(e.range, e.part + 1) /\ chunks' = chunks \cup {c} /\ vectors' = vectors
  BY <1>2 DEF storeChunks, Refused
<1>6. ChunksOK' /\ PlacesOK'
  BY <1>1, <1>4, <1>5, OneMore
<1>7. pc \in PCs
  BY DEF PCs, Carried, InTask
<1>8. workers' = [workers EXCEPT ![w] = f]
  BY DEF storeChunks
<1> HIDE DEF pc
<1>9. f \in Worker
  BY <1>2, <1>3, <1>7 DEF Worker
<1>10. SameRun(e, f) /\ f.reusable = e.reusable /\ f.range = e.range /\ f.part = e.part + 1
       /\ f.pc = pc /\ f.left = e.left /\ f.doomed = e.doomed
  BY <1>2 DEF Worker, SameRun
<1> HIDE DEF f
<1>11. Coherent(f)
  BY <1>2, <1>10 DEF Coherent, SameRun
<1>12. WorkerStep(w) /\ workers'[w] = f
  BY <1>1, <1>6, <1>8, <1>9, <1>11, Puts DEF storeChunks
<1>. QED
  BY <1>1, <1>2, <1>5, <1>10, <1>12 DEF storeChunks, pc

LEMMA embedStep ==
  ASSUME Typed, NEW w \in Workers, embed(w)
  PROVE  LET e == workers[w]
             f == workers'[w]
         IN  /\ WorkerStep(w) /\ doc' = doc /\ SamePlan(e, f) /\ chunks' = chunks
             /\ vectors' = vectors \cup Passages(e, e.range)
             /\ tasks' = tasks /\ usage' = usage /\ torn' = torn
             /\ e.pc = "embedding" /\ f.pc = "charging"
<1> DEFINE e == workers[w]
<1>1. DocOK' /\ Kept
  BY DocSteps DEF embed, DocStep
<1>2. e.pc = "embedding" /\ e.range \in Ranges
  BY WorkerFacts DEF embed, Coherent, InTask
<1>3. \A part \in 1..Batches[e.range] : Chunk(e, e.range, part) \in ChunkRow
  <2> TAKE part \in 1..Batches[e.range]
  <2>1. part \in Nat \ {0}
    BY <1>2, BatchFacts DEF Typed
  <2>. QED
    BY <1>2, <2>1, ChunkTyped
<1>4. Passages(e, e.range) \subseteq ChunkRow
  BY <1>3 DEF Passages
<1>5. chunks' = chunks /\ vectors' = vectors \cup Passages(e, e.range)
  BY DEF embed
<1>6. ChunksOK' /\ PlacesOK'
  BY <1>1, <1>4, <1>5, KeptRows DEF Typed, ChunksOK, PlacesOK
<1>7. "charging" \in PCs
  BY DEF PCs, Carried, InTask
<1>8. WorkerStep(w) /\ workers'[w].pc = "charging" /\ SamePlan(e, workers'[w])
  BY <1>1, <1>2, <1>6, <1>7, Goes DEF embed
<1>. QED
  BY <1>2, <1>5, <1>8 DEF embed

LEMMA storeSummaryStep ==
  ASSUME Typed, NEW w \in Workers, storeSummary(w)
  PROVE  LET e == workers[w]
             f == workers'[w]
         IN  /\ WorkerStep(w) /\ doc' = doc /\ SamePlan(e, f)
             /\ chunks' = chunks \cup {Chunk(e, Summary, 1)} /\ vectors' = vectors
             /\ tasks' = tasks /\ usage' = usage /\ torn' = torn
             /\ e.pc = "storing_summary" /\ f.pc = "embedding_summary"
<1> DEFINE e == workers[w]
           c == Chunk(e, Summary, 1)
<1>1. DocOK' /\ Kept
  BY DocSteps DEF storeSummary, DocStep
<1>2. e.pc = "storing_summary"
  BY DEF storeSummary
<1>3. c \in ChunkRow /\ c.range = Summary /\ c.part = 1
  BY <1>2, ChunkTyped
<1>4. ~Taken(Summary, 1) /\ chunks' = chunks \cup {c} /\ vectors' = vectors
  BY <1>2 DEF storeSummary, Refused
<1>5. ChunksOK' /\ PlacesOK'
  BY <1>1, <1>3, <1>4, OneMore
<1>6. "embedding_summary" \in PCs /\ "embedding_summary" \notin InTask
  BY DEF PCs, Carried, Closing, InTask
<1>7. WorkerStep(w) /\ workers'[w].pc = "embedding_summary" /\ SamePlan(e, workers'[w])
  BY <1>1, <1>2, <1>5, <1>6, Goes DEF storeSummary
<1>. QED
  BY <1>2, <1>4, <1>7 DEF storeSummary

LEMMA embedSummaryStep ==
  ASSUME Typed, NEW w \in Workers, embedSummary(w)
  PROVE  LET e == workers[w]
             f == workers'[w]
         IN  /\ WorkerStep(w) /\ doc' = doc /\ SamePlan(e, f) /\ chunks' = chunks
             /\ vectors' = vectors \cup {Chunk(e, Summary, 1)}
             /\ tasks' = tasks /\ usage' = usage /\ torn' = torn
             /\ e.pc = "embedding_summary" /\ f.pc = "charging_summary"
<1> DEFINE e == workers[w]
           c == Chunk(e, Summary, 1)
<1>1. DocOK' /\ Kept
  BY DocSteps DEF embedSummary, DocStep
<1>2. e.pc = "embedding_summary"
  BY DEF embedSummary
<1>3. c \in ChunkRow
  BY <1>2, ChunkTyped
<1>4. chunks' = chunks /\ vectors' = vectors \cup {c}
  BY DEF embedSummary
<1>5. ChunksOK' /\ PlacesOK'
  BY <1>1, <1>3, <1>4, KeptRows DEF Typed, ChunksOK, PlacesOK
<1>6. "charging_summary" \in PCs /\ "charging_summary" \notin InTask
  BY DEF PCs, Carried, Closing, InTask
<1>7. WorkerStep(w) /\ workers'[w].pc = "charging_summary" /\ SamePlan(e, workers'[w])
  BY <1>1, <1>2, <1>5, <1>6, Goes DEF embedSummary
<1>. QED
  BY <1>2, <1>4, <1>7 DEF embedSummary

-----------------------------------------------------------------------------
(* Type correctness.                                                       *)

WorkerNext(w) == Ingest(w) \/ GoesWrong(w) \/ \E j \in JobIds : pickUp(w, j)

LEMMA WorkerSteps ==
  ASSUME Typed, NEW w \in Workers, WorkerNext(w)
  PROVE  WorkerStep(w)
<1>1. CASE Plan(w)
  BY <1>1, beginStep, planTasksStep, pruneStep, deleteVectorsStep, deleteChunksStep,
     writePlanStep DEF Plan, Moves
<1>2. CASE RunTask(w)
  BY <1>2, startTaskStep, parseStep, enrichStep, storeChunksStep, embedStep, chargeEmbeddingStep,
     settleTaskStep DEF RunTask, Moves
<1>3. CASE Summarise(w)
  BY <1>3, startSummariesStep, SummarySteps, storeSummaryStep, embedSummaryStep
     DEF Summarise, Moves
<1>4. CASE Conclude(w)
  BY <1>4, cancelledStep, endTasksStep, finishStep, refreshCountsStep, StopSteps, FailSteps
     DEF Conclude, Moves
<1>5. CASE GoesWrong(w)
  BY <1>5, FailSteps, StopSteps, StallStep DEF GoesWrong
<1>6. CASE \E j \in JobIds : pickUp(w, j)
  BY <1>6, pickUpStep
<1>. QED
  BY <1>1, <1>2, <1>3, <1>4, <1>5, <1>6 DEF WorkerNext, Ingest

LEMMA updateBaseStep ==
  ASSUME Typed, NEW config \in Configs, updateBase(config)
  PROVE  Typed' /\ UsedGrows /\ Outside /\ Untouched /\ requests' = requests
<1>1. DocOK' /\ Outside /\ Untouched
  BY DEF Typed, updateBase, DocOK, DocRow, Outside, Untouched, Kept
<1>2. UsedOK' /\ UsedGrows
  BY UseBound DEF Typed, updateBase, Bounds
<1>3. JobsOK' /\ RequestsOK'
  BY SameJobs, SameRequests DEF Typed, updateBase
<1>. QED
  BY <1>1, <1>2, <1>3, OutsideTyped DEF updateBase

LEMMA NextCases ==
  ASSUME Next
  PROVE  \/ \E r \in Requests : Ask(r) \/ Handle(r) \/ VanishRequest(r)
         \/ \E w \in Workers : WorkerNext(w)
         \/ \E config \in Configs : updateBase(config)
  BY DEF Next, WorkerNext

LEMMA SameTyped == Typed /\ UNCHANGED vars => Typed'
<1> SUFFICES ASSUME Typed, UNCHANGED vars PROVE Typed'
  OBVIOUS
<1>1. DocOK' /\ Kept
  BY DocSame DEF Typed, vars
<1>2. JobsOK' /\ RequestsOK' /\ UsedOK'
  BY SameJobs, SameRequests, UsedSame DEF Typed, vars
<1>3. TasksOK' /\ ChunksOK' /\ PlacesOK' /\ UsageOK' /\ WorkersOK'
  BY <1>1, FewerTasks, FewerRows, SameUsage, SameWorkers DEF Typed, vars
<1>. QED
  BY <1>1, <1>2, <1>3 DEF Typed

LEMMA TypedStep == Typed /\ [Next]_vars => Typed'
<1> SUFFICES ASSUME Typed, [Next]_vars PROVE Typed'
  OBVIOUS
<1>1. ASSUME NEW r \in Requests, Ask(r) \/ Handle(r) \/ VanishRequest(r) PROVE Typed'
  BY <1>1, RequestSteps, OutsideTyped DEF RequestStep
<1>2. ASSUME NEW w \in Workers, WorkerNext(w) PROVE Typed'
  BY <1>2, WorkerSteps DEF WorkerStep
<1>3. ASSUME NEW config \in Configs, updateBase(config) PROVE Typed'
  BY <1>3, updateBaseStep
<1>4. CASE UNCHANGED vars
  BY <1>4, SameTyped
<1>. QED
  BY <1>1, <1>2, <1>3, <1>4, NextCases

\* The rows, the queue, the executions and the requests are what the code takes
\* them for, in every state.
THEOREM IngestionTyped == Spec => []Typed
<1>. QED
  BY InitTyped, TypedStep, PTL DEF Spec

-----------------------------------------------------------------------------
(* The two stores agree.  What follows holds of the one execution there is *)
(* at a time, while nobody deletes the document.                           *)

Undisturbed == OneAtATime /\ ~Happened("deletes")
Only == workers[1]

\* What the stores hold in full: every passage of the range, with its vector.
IndexedAt(r, c) ==
  \E run \in 1..MaxRuns :
    \A part \in 1..Batches[r] :
      LET k == [range |-> r, part |-> part, config |-> c, run |-> run]
      IN  k \in chunks /\ k \in vectors
Found == {k \in Ranges \X Configs : IndexedAt(k[1], k[2])}

\* What a prune throws away for its plan: the passages of anything else.
Unwanted(e, c) == c.range # Summary /\ ~(c.range \in e.reusable /\ c.config = e.config)

Alone == OneAtATime => \A w \in Workers : w # 1 => workers[w].pc = "idle"

NotDeleted ==
  ~Happened("deletes") =>
    /\ \A r \in Requests : requests[r].pc \notin Deleting
    /\ \A w \in Workers : workers[w].pc # "idle" => doc.there

PlansAfresh == Only.pc \in Planning => Only.range = 0

\* What the plan reuses is in both stores, and the prune leaves it there.
ReusesFound ==
  ~torn /\ Only.pc \in {"pruning", "unindex", "unlist", "writing"} =>
    \A r \in Only.reusable : <<r, Only.config>> \in Found

\* The plan reuses every settled range it can.
ReusesSettled ==
  Only.pc \in {"pruning", "unindex", "unlist"} =>
    /\ \A t \in SettledTask :
         t.config = Only.config /\ Has(t.range, t.config) => t.range \in Only.reusable
    /\ Only.pc = "pruning" => \A r \in Only.reusable : Has(r, Only.config)

\* Half a prune: what is doomed is unwanted and what is unwanted is doomed; the
\* vectors go first.
PrunesUnwanted ==
  Only.pc \in Pruning =>
    /\ Only.left # {}
    /\ Only.whole => Only.reusable = {}
    /\ \A c \in Only.doomed : c.range # Summary => Unwanted(Only, c)
    /\ Only.pc = "unindex" =>
         /\ \A c \in chunks : Unwanted(Only, c) => c \in Only.doomed
         /\ \A c \in Only.doomed : c \notin Only.left => c \notin vectors
    /\ Only.pc = "unlist" =>
         /\ \A c \in chunks : Unwanted(Only, c) => c \in Only.left
         /\ \A c \in Only.left : c \notin vectors
         /\ Only.whole => vectors = {}

\* After the prune the document has passages of one configuration.
OneConfig ==
  Only.pc \in {"writing"} \cup Carried =>
    \A c \in chunks : c.range # Summary => c.config = Only.config

\* The tasks are those of the run, and the ranges behind it are settled.
TasksCarried ==
  Only.pc \in Carried =>
    /\ \A t \in tasks : t.run = Only.run /\ t.config = Only.config
    /\ \A r \in Ranges : \E t \in tasks : t.range = r
    /\ \A t \in tasks :
         \/ t.range \in Ahead(Only)
         \/ Only.pc \in InTask /\ t.range = Only.range
         \/ t.status \in SettledTasks
    /\ Only.pc \in InTask => \A t \in tasks : t.range = Only.range => t.status = "running"
    /\ Only.pc \in Closing => Ahead(Only) = {}

\* What the run has stored of the range it is in.
PassagesStored ==
  /\ Only.pc \in {"parsing", "enriching"} => Only.part = 0
  /\ Only.pc = "enriching" => Only.part < Batches[Only.range]
  /\ Only.pc = "storing" =>
       /\ Only.part < Batches[Only.range]
       /\ \A q \in 1..Only.part : Chunk(Only, Only.range, q) \in chunks
  /\ Only.pc \in {"embedding", "charging", "settling"} =>
       Passages(Only, Only.range) \subseteq chunks
  /\ Only.pc \in {"charging", "settling"} => Passages(Only, Only.range) \subseteq vectors
  /\ Only.pc = "embedding_summary" => Chunk(Only, Summary, 1) \in chunks

\* A settled range is in both stores, or none of it is listed.
SettledFound ==
  ~torn =>
    \A t \in SettledTask :
      /\ Only.pc \in Carried => <<t.range, t.config>> \in Found
      /\ Only.pc \notin Pruning =>
           <<t.range, t.config>> \in Found \/ ~Has(t.range, t.config)

NoOrphans == vectors \subseteq chunks

ReadyRests == doc.status = "ready" => Only.pc \in Resting

ReadyPlan ==
  doc.status = "ready" /\ ~torn =>
    /\ \A r \in Ranges : \E t \in tasks : t.range = r
    /\ \A t \in tasks : t.status \in SettledTasks /\ <<t.range, t.config>> \in Found
    /\ \A c \in chunks : c.range # Summary =>
         \E t \in tasks : t.range = c.range /\ t.config = c.config

Orderly ==
  /\ PlansAfresh /\ ReusesFound /\ ReusesSettled /\ PrunesUnwanted /\ OneConfig
  /\ TasksCarried /\ PassagesStored /\ SettledFound /\ NoOrphans /\ ReadyRests /\ ReadyPlan

Inv == Typed /\ Alone /\ NotDeleted /\ (Undisturbed => Orderly)

LEMMA FoundMore ==
  ASSUME Kept, chunks \subseteq chunks', vectors \subseteq vectors'
  PROVE  Found \subseteq Found'
<1>1. Batches' = Batches /\ Ranges' = Ranges
  BY KeptRows
<1>2. ASSUME NEW r, NEW c, IndexedAt(r, c) PROVE IndexedAt(r, c)'
  BY <1>1, <1>2 DEF IndexedAt
<1>. QED
  BY <1>1, <1>2 DEF Found

LEMMA FoundIsIndexed ==
  ASSUME TasksOK, NEW t \in tasks
  PROVE  Indexed(t) <=> <<t.range, t.config>> \in Found
<1>1. t.range \in Ranges /\ t.config \in Configs
  BY DEF TasksOK, TaskRow
<1>2. Indexed(t) <=> IndexedAt(t.range, t.config)
  BY DEF Indexed, IndexedAt
<1>. QED
  BY <1>1, <1>2 DEF Found

LEMMA TheOne == ASSUME Typed PROVE 1 \in Workers /\ (OneAtATime => used.slots = 1)
  BY BoundsAssumption DEF Typed, UsedOK, UsedRow, Workers, OneAtATime

\* What the invariant says is what the run checks.
LEMMA InvIsStoresAgree == Inv => StoresAgree
<1> SUFFICES ASSUME Inv PROVE StoresAgree
  OBVIOUS
<1>1. TypeOK
  BY TypedIsTypeOK DEF Inv
<1>2. ReadyIsIndexed
  <2> SUFFICES ASSUME doc.status = "ready", OneAtATime, ~Happened("deletes"), ~torn
               PROVE  /\ {t.range : t \in tasks} = Ranges
                      /\ \A t \in tasks : t.status \in SettledTasks /\ Indexed(t)
                      /\ \A c \in chunks : c.range # Summary =>
                           \E t \in tasks : t.range = c.range /\ t.config = c.config
    BY DEF ReadyIsIndexed
  <2>1. ReadyPlan
    BY DEF Inv, Undisturbed, Orderly
  <2>2. \A t \in tasks : t.range \in Ranges
    BY DEF Inv, Typed, TasksOK, TaskRow
  <2>3. \A t \in tasks : Indexed(t)
    BY <2>1, FoundIsIndexed DEF Inv, Typed, ReadyPlan
  <2>. QED
    BY <2>1, <2>2, <2>3 DEF ReadyPlan
<1>3. VectorsHavePassages
  BY DEF Inv, Undisturbed, Orderly, NoOrphans, VectorsHavePassages
<1>. QED
  BY <1>1, <1>2, <1>3 DEF StoresAgree

LEMMA InitInv == Init => Inv
<1> SUFFICES ASSUME Init PROVE Inv
  OBVIOUS
<1>1. Typed
  BY InitTyped
<1>2. \A w \in Workers : workers[w].pc = "idle"
  BY DEF Init, IdleWorker, Execution
<1>3. \A r \in Requests : requests[r].pc = "idle"
  BY DEF Init, IdleRequest
<1>4. doc.status = "none"
  BY DEF Init
<1>5. Only.pc = "idle"
  BY <1>1, <1>2, TheOne DEF Only
<1>6. Orderly
  <2>1. "idle" \notin Planning \cup Carried \cup Pruning
    BY DEF Planning, Carried, InTask, Closing, Pruning
  <2>2. tasks = {} /\ chunks = {} /\ vectors = {}
    BY DEF Init
  <2>. QED
    BY <1>4, <1>5, <2>1, <2>2
       DEF Orderly, PlansAfresh, ReusesFound, ReusesSettled, PrunesUnwanted, OneConfig,
           TasksCarried, PassagesStored, SettledFound, SettledTask, NoOrphans, ReadyRests,
           ReadyPlan
<1>. QED
  BY <1>1, <1>2, <1>3, <1>6 DEF Inv, Alone, NotDeleted, Deleting

\* An execution that is idle takes no step but to pick a job up.
LEMMA Awake ==
  ASSUME NEW w \in Workers, Ingest(w) \/ GoesWrong(w)
  PROVE  workers[w].pc # "idle"
<1>1. ASSUME Plan(w) \/ RunTask(w) PROVE workers[w].pc # "idle"
  BY <1>1 DEF Plan, RunTask, begin, planTasks, pruneReplacedChunks, deleteVectors,
     deleteChunks, writePlan, startTask, parse, enrich, storeChunks, embed, chargeEmbedding,
     settleTask
<1>2. ASSUME Summarise(w) \/ Conclude(w) PROVE workers[w].pc # "idle"
  BY <1>2 DEF Summarise, Conclude, startSummaries, skipSummaries, buildSummaries,
     storeSummary, embedSummary, chargeSummary, cancelled, endTasks, finish, finishEmpty,
     refreshCounts, close, Breaks, Refused
<1>3. ASSUME GoesWrong(w) PROVE workers[w].pc # "idle"
  BY <1>3 DEF GoesWrong, Fails, parseFails, Throws, Crash, Stall
<1>. QED
  BY <1>1, <1>2, <1>3 DEF Ingest

LEMMA OnlyOne ==
  ASSUME Typed, Alone, OneAtATime, NEW w \in Workers, WorkerNext(w)
  PROVE  w = 1
<1>1. w \in Nat /\ w >= 1 /\ used.slots = 1
  BY TheOne, BoundsAssumption DEF Workers
<1>2. ASSUME NEW j \in JobIds, pickUp(w, j) PROVE w <= used.slots
  BY <1>2, pickUpStep
<1>3. CASE Ingest(w) \/ GoesWrong(w)
  BY <1>3, Awake DEF Alone
<1>. QED
  BY <1>1, <1>2, <1>3 DEF WorkerNext

\* The row of the document stays where it is.
LEMMA DocThere ==
  ASSUME Typed, NEW w \in Workers, WorkerNext(w)
  PROVE  doc'.there = doc.there
<1>1. ASSUME NEW s, doc' = Updated([doc EXCEPT !.status = s]) PROVE doc'.there = doc.there
  BY <1>1 DEF Updated, Typed, DocOK, DocRow
<1>2. ASSUME Plan(w) \/ RunTask(w) PROVE doc'.there = doc.there
  BY <1>1, <1>2 DEF Plan, RunTask, begin, planTasks, pruneReplacedChunks, deleteVectors,
     deleteChunks, writePlan, startTask, parse, enrich, storeChunks, embed, chargeEmbedding,
     settleTask
<1>3. ASSUME Summarise(w) \/ Conclude(w) PROVE doc'.there = doc.there
  <2>1. CASE cancelled(w)
    BY <2>1 DEF cancelled, Typed, DocOK, DocRow
  <2>2. CASE ~cancelled(w)
    BY <1>1, <1>3, <2>2 DEF Summarise, Conclude, startSummaries, skipSummaries,
       buildSummaries, storeSummary, embedSummary, chargeSummary, endTasks, finish,
       finishEmpty, refreshCounts, close, Breaks, failDocument
  <2>. QED
    BY <2>1, <2>2
<1>4. ASSUME GoesWrong(w) PROVE doc'.there = doc.there
  BY <1>1, <1>4 DEF GoesWrong, Fails, parseFails, Throws, Crash, Stall, failDocument
<1>5. ASSUME NEW j \in JobIds, pickUp(w, j) PROVE doc'.there = doc.there
  BY <1>5 DEF pickUp
<1>. QED
  BY <1>2, <1>3, <1>4, <1>5 DEF WorkerNext, Ingest

LEMMA AloneStep ==
  ASSUME Typed, Alone, Next
  PROVE  Alone'
<1>1. ASSUME workers' = workers, UsedGrows PROVE Alone'
  BY <1>1 DEF Alone, OneAtATime, UsedGrows, Workers
<1>2. ASSUME NEW r \in Requests, Ask(r) \/ Handle(r) \/ VanishRequest(r) PROVE Alone'
  BY <1>1, <1>2, RequestSteps DEF RequestStep, Outside
<1>3. ASSUME NEW config \in Configs, updateBase(config) PROVE Alone'
  BY <1>1, <1>3, updateBaseStep DEF Outside
<1>4. ASSUME NEW w \in Workers, WorkerNext(w) PROVE Alone'
  <2>1. WorkerStep(w)
    BY <1>4, WorkerSteps
  <2>2. OneAtATime => w = 1
    BY <1>4, OnlyOne
  <2>. QED
    BY <2>1, <2>2 DEF WorkerStep, Elsewhere, UsedGrows, OneAtATime, Alone, Workers
<1>. QED
  BY <1>2, <1>3, <1>4, NextCases

LEMMA NotDeletedStep ==
  ASSUME Typed, NotDeleted, Next
  PROVE  NotDeleted'
<1>1. "deletes" \in Bounds
  BY DEF Bounds
<1>2. ASSUME NEW r \in Requests, Ask(r) \/ Handle(r) \/ VanishRequest(r) PROVE NotDeleted'
  <2>1. RequestStep(r)
    BY <1>2, RequestSteps
  <2>. QED
    BY <1>1, <2>1 DEF RequestStep, UsedGrows, OneRequest, Outside, Untouched, NotDeleted,
       Happened, Workers
<1>3. ASSUME NEW config \in Configs, updateBase(config) PROVE NotDeleted'
  <2>1. UsedGrows /\ Outside /\ Untouched /\ requests' = requests
    BY <1>3, updateBaseStep
  <2>. QED
    BY <1>1, <2>1 DEF UsedGrows, Outside, Untouched, NotDeleted, Happened, Workers
<1>4. ASSUME NEW w \in Workers, WorkerNext(w) PROVE NotDeleted'
  <2>1. WorkerStep(w) /\ doc'.there = doc.there
    BY <1>4, WorkerSteps, DocThere
  <2>2. ~Happened("deletes")' => ~Happened("deletes")
    BY <1>1, <2>1 DEF WorkerStep, UsedGrows, Happened
  <2>3. \A v \in Workers : v # w => workers'[v] = workers[v]
    BY <2>1 DEF WorkerStep, Elsewhere
  <2>4. ASSUME ~Happened("deletes"), workers'[w].pc # "idle" PROVE doc.there
    <3>1. CASE workers[w].pc # "idle"
      BY <2>4, <3>1 DEF NotDeleted
    <3>2. CASE workers[w].pc = "idle"
      <4>1. PICK j \in JobIds : pickUp(w, j)
        BY <1>4, <3>2, Awake DEF WorkerNext
      <4>. QED
        BY <2>4, <3>2, <4>1, pickUpStep
    <3>. QED
      BY <3>1, <3>2
  <2>. QED
    BY <2>1, <2>2, <2>3, <2>4 DEF NotDeleted, WorkerStep, Workers
<1>. QED
  BY <1>2, <1>3, <1>4, NextCases

\* A step that moves nothing keeps the order.
LEMMA QuietStep ==
  ASSUME Typed, Orderly, Kept, tasks' = tasks, chunks' = chunks, vectors' = vectors,
         torn' = torn, Only'.pc = Only.pc, SamePlan(Only, Only'),
         doc'.status = "ready" => doc.status = "ready"
  PROVE  Orderly'
<1>1. /\ Only'.run = Only.run /\ Only'.config = Only.config
      /\ Only'.reusable = Only.reusable /\ Only'.range = Only.range
      /\ Only'.part = Only.part /\ Only'.doomed = Only.doomed /\ Only'.left = Only.left
      /\ Only'.whole = Only.whole
  BY DEF SamePlan, SameRun
<1>2. Batches' = Batches /\ Ranges' = Ranges
  BY KeptRows
<1>3. Found' = Found
  BY <1>2 DEF Found, IndexedAt
<1>4. SettledTask' = SettledTask
  BY DEF SettledTask
<1>5. PlansAfresh' /\ ReusesFound' /\ ReusesSettled'
  BY <1>1, <1>3, <1>4 DEF Orderly, PlansAfresh, ReusesFound, ReusesSettled, Has
<1>6. PrunesUnwanted' /\ OneConfig'
  BY <1>1 DEF Orderly, PrunesUnwanted, OneConfig, Unwanted
<1>7. TasksCarried'
  BY <1>1, <1>2 DEF Orderly, TasksCarried, Ahead, Pending
<1>8. PassagesStored'
  BY <1>1, <1>2 DEF Orderly, PassagesStored, Passages, Chunk
<1>9. SettledFound' /\ NoOrphans' /\ ReadyRests'
  BY <1>3, <1>4 DEF Orderly, SettledFound, NoOrphans, ReadyRests, Has
<1>10. ReadyPlan'
  BY <1>2, <1>3 DEF Orderly, ReadyPlan
<1>. QED
  BY <1>5, <1>6, <1>7, <1>8, <1>9, <1>10 DEF Orderly

\* The document is made ready by finish alone; a document that was ready has its
\* execution at rest.
LEMMA StaysReady ==
  ASSUME Orderly, NotReady, doc.there, doc'.status = "ready"
  PROVE  doc.status = "ready" /\ Only.pc \in Resting
  BY DEF Orderly, NotReady, ReadyRests

\* A step after which the execution is at rest, or has only begun: the stores are
\* as they were, and a task has at most failed.
LEMMA RestStep ==
  ASSUME Typed, Orderly, Kept, chunks' = chunks, vectors' = vectors, torn => torn',
         SettledTask' \subseteq SettledTask,
         Only'.pc \in Resting \cup {"planning"}, Only'.pc \in Planning => Only'.range = 0,
         Only.pc \in Pruning => torn',
         doc'.status = "ready" => ReadyPlan' /\ Only'.pc # "planning"
  PROVE  Orderly'
<1>1. /\ Only'.pc \notin {"pruning", "unindex", "unlist", "writing"} \cup Carried
      /\ Only'.pc \notin Pruning
  BY DEF Resting, Carried, InTask, Closing, Pruning
<1>2. Only'.pc \notin InTask \cup Closing
  BY <1>1 DEF Carried
<1>3. Found' = Found
  BY KeptRows DEF Found, IndexedAt
<1>4. PlansAfresh' /\ ReusesFound' /\ ReusesSettled' /\ PrunesUnwanted' /\ OneConfig'
      /\ TasksCarried'
  BY <1>1 DEF PlansAfresh, ReusesFound, ReusesSettled, PrunesUnwanted, OneConfig,
     TasksCarried, Pruning
<1>5. PassagesStored'
  BY <1>2 DEF PassagesStored, InTask, Closing
<1>6. SettledFound'
  BY <1>1, <1>3 DEF Orderly, SettledFound, Has
<1>7. NoOrphans' /\ ReadyRests' /\ ReadyPlan'
  BY DEF Orderly, NoOrphans, ReadyRests, Resting, ReadyPlan
<1>. QED
  BY <1>4, <1>5, <1>6, <1>7 DEF Orderly

\* The plan of a document that stays ready is as complete as it was.
LEMMA SameReadyPlan ==
  ASSUME Orderly, Kept, tasks' = tasks, chunks' = chunks, vectors' = vectors,
         torn => torn', doc.status = "ready"
  PROVE  ReadyPlan'
<1>1. Found' = Found /\ Ranges' = Ranges
  BY KeptRows DEF Found, IndexedAt
<1>. QED
  BY <1>1 DEF Orderly, ReadyPlan

\* What finish calls ready is complete.
LEMMA FinishedPlan ==
  ASSUME Typed, Orderly, Kept, Only.pc = "ending", tasks' = tasks, chunks' = chunks,
         vectors' = vectors, torn' = torn
  PROVE  ReadyPlan'
<1>1. Found' = Found /\ Ranges' = Ranges
  BY KeptRows DEF Found, IndexedAt
<1>2. Only.pc \in Carried /\ Only.pc \in Closing /\ Only.pc \notin InTask
  BY DEF Carried, Closing, InTask
<1>3. \A r \in Ranges : \E t \in tasks : t.range = r
  BY <1>2 DEF Orderly, TasksCarried
<1>4. \A t \in tasks : t.status \in SettledTasks /\ t.config = Only.config
  BY <1>2 DEF Orderly, TasksCarried
<1>5. ~torn => \A t \in tasks : <<t.range, t.config>> \in Found
  BY <1>2, <1>4 DEF Orderly, SettledFound, SettledTask
<1>6. \A c \in chunks : c.range # Summary => c.range \in Ranges /\ c.config = Only.config
  BY <1>2 DEF Orderly, OneConfig, Typed, ChunksOK, ChunkRow
<1>. QED
  BY <1>1, <1>3, <1>4, <1>5, <1>6 DEF ReadyPlan

\* What setting a task's status does to the settled ones.
LEMMA TaskSetFacts ==
  ASSUME TasksOK, NEW e, NEW r, NEW s \in {"running", "done", "failed"},
         tasks' = TaskSet(e, r, s)
  PROVE  /\ \A t \in tasks' :
              \/ t \in tasks /\ ~(t.run = e.run /\ t.range = r)
              \/ /\ t.status = s /\ t.run = e.run /\ t.range = r
                 /\ \E u \in tasks : u.range = r /\ u.config = t.config /\ u.run = e.run
         /\ \A t \in tasks : \E u \in tasks' : u.range = t.range
         /\ s # "done" => SettledTask' \subseteq SettledTask
<1>1. ASSUME NEW t \in tasks'
      PROVE  \/ t \in tasks /\ ~(t.run = e.run /\ t.range = r)
             \/ /\ t.status = s /\ t.run = e.run /\ t.range = r
                /\ \E u \in tasks : u.range = r /\ u.config = t.config /\ u.run = e.run
  <2>1. PICK u \in tasks :
          t = IF u.run = e.run /\ u.range = r THEN [u EXCEPT !.status = s] ELSE u
    BY DEF TaskSet
  <2>2. u \in TaskRow
    BY DEF TasksOK
  <2>3. CASE u.run = e.run /\ u.range = r
    <3>1. t.status = s /\ t.run = u.run /\ t.range = u.range /\ t.config = u.config
      BY <2>1, <2>2, <2>3 DEF TaskRow
    <3>. QED
      BY <2>3, <3>1
  <2>. QED
    BY <2>1, <2>3
<1>2. ASSUME NEW t \in tasks PROVE \E u \in tasks' : u.range = t.range
  <2> DEFINE u == IF t.run = e.run /\ t.range = r THEN [t EXCEPT !.status = s] ELSE t
  <2>1. u \in tasks'
    BY DEF TaskSet
  <2>2. u.range = t.range
    BY DEF TasksOK, TaskRow
  <2>. QED
    BY <2>1, <2>2
<1>3. s # "done" => SettledTask' \subseteq SettledTask
  BY <1>1 DEF SettledTask, SettledTasks
<1>. QED
  BY <1>1, <1>2, <1>3

\* The steps after which the execution is at rest, or has only begun.
LEMMA RestSteps ==
  ASSUME Typed, Orderly, 1 \in Workers, Only.pc # "idle" => doc.there,
         \/ Crash(1) \/ Throws(1) \/ close(1)
         \/ Fails(1) \/ Breaks(1) \/ parseFails(1) \/ finishEmpty(1)
         \/ begin(1) \/ cancelled(1) \/ finish(1) \/ refreshCounts(1)
         \/ \E j \in JobIds : pickUp(1, j)
  PROVE  Orderly'
<1>1. ASSUME doc' = doc \/ NotReady, doc.there \/ doc' = doc, Kept, tasks' = tasks,
             chunks' = chunks, vectors' = vectors, torn => torn'
      PROVE  /\ SettledTask' \subseteq SettledTask
             /\ doc'.status = "ready" => ReadyPlan' /\ Only.pc \in Resting
  BY <1>1, SameReadyPlan DEF SettledTask, NotReady, Orderly, ReadyRests
<1>2. CASE Crash(1) \/ Throws(1) \/ close(1)
  <2>1. /\ WorkerStep(1) /\ doc' = doc /\ tasks' = tasks /\ chunks' = chunks
        /\ vectors' = vectors /\ Only.pc # "idle" /\ Only' = IdleWorker
        /\ Only.pc \in Pruning => torn'
    BY <1>2, StopSteps DEF Only
  <2>2. Only'.pc = "idle"
    BY <2>1 DEF IdleWorker, Execution
  <2>. QED
    BY <1>1, <2>1, <2>2, RestStep DEF WorkerStep, Resting, Planning
<1>3. CASE Fails(1) \/ Breaks(1) \/ parseFails(1) \/ finishEmpty(1)
  <2>1. /\ WorkerStep(1) /\ doc' = Updated([doc EXCEPT !.status = "failed"])
        /\ chunks' = chunks /\ vectors' = vectors
        /\ tasks' = tasks \/ tasks' = TaskSet(Only, Only.range, "failed")
        /\ Only.pc # "idle" /\ Only'.pc = "over"
        /\ Only.pc \in Pruning => torn'
    BY <1>3, FailSteps DEF Only
  <2>2. doc'.status = "failed"
    BY <2>1 DEF Updated, Typed, DocOK, DocRow
  <2>3. SettledTask' \subseteq SettledTask
    BY <2>1, TaskSetFacts DEF SettledTask, Typed
  <2>. QED
    BY <2>1, <2>2, <2>3, RestStep DEF WorkerStep, Resting, Planning
<1>4. CASE begin(1)
  <2>1. Moves(1, "reading", "planning") /\ NotReady
    BY <1>4, beginStep
  <2>2. Only.pc = "reading" /\ Only'.pc = "planning" /\ Only'.range = Only.range
    BY <2>1 DEF Moves, SamePlan, Only
  <2>3. Only.range = 0
    BY <2>2 DEF Orderly, PlansAfresh, Planning
  <2>4. doc'.status # "ready"
    BY <1>4, <2>2 DEF begin, Updated, Typed, DocOK, DocRow, Working
  <2>. QED
    BY <1>1, <2>1, <2>2, <2>3, <2>4, RestStep DEF Moves, WorkerStep, Pruning
<1>5. CASE cancelled(1)
  <2>1. Moves(1, "between", "over") /\ NotReady
    BY <1>5, cancelledStep
  <2>. QED
    BY <1>1, <2>1, RestStep DEF Moves, WorkerStep, Resting, Planning, Pruning, Only
<1>6. CASE finish(1)
  <2>1. Moves(1, "ending", "counting")
    BY <1>6, finishStep
  <2>2. SettledTask' \subseteq SettledTask
    BY <2>1 DEF Moves, SettledTask
  <2>3. ReadyPlan'
    BY <2>1, FinishedPlan DEF Moves, WorkerStep, Only
  <2>. QED
    BY <2>1, <2>2, <2>3, RestStep DEF Moves, WorkerStep, Resting, Planning, Pruning, Only
<1>7. CASE refreshCounts(1)
  <2>1. Moves(1, "counting", "over") /\ NotReady
    BY <1>7, refreshCountsStep
  <2>. QED
    BY <1>1, <2>1, RestStep DEF Moves, WorkerStep, Resting, Planning, Pruning, Only
<1>8. ASSUME NEW j \in JobIds, pickUp(1, j) PROVE Orderly'
  <2>1. /\ WorkerStep(1) /\ doc' = doc /\ tasks' = tasks /\ chunks' = chunks
        /\ vectors' = vectors /\ torn' = torn
        /\ \/ workers' = workers
           \/ Only'.pc = "reading" /\ Only'.range = 0
    BY <1>8, pickUpStep DEF Only
  <2>2. CASE workers' = workers
    BY <2>1, <2>2, QuietStep DEF Only, SamePlan, SameRun, WorkerStep
  <2>3. CASE Only'.pc = "reading" /\ Only'.range = 0
    <3>1. Only.pc = "idle"
      BY <1>8 DEF pickUp, Free, Only, IdleWorker, Execution
    <3>. QED
      BY <1>1, <2>1, <2>3, <3>1, RestStep DEF WorkerStep, Resting, Pruning
  <2>. QED
    BY <2>1, <2>2, <2>3
<1>. QED
  BY <1>2, <1>3, <1>4, <1>5, <1>6, <1>7, <1>8

\* While the execution works the document is not ready.
LEMMA WorksUnready ==
  ASSUME Orderly, Only.pc \notin Resting, doc' = doc \/ (NotReady /\ doc.there)
  PROVE  ReadyRests' /\ ReadyPlan'
<1>1. doc'.status # "ready"
  BY DEF Orderly, ReadyRests, NotReady
<1>. QED
  BY <1>1 DEF ReadyRests, ReadyPlan

LEMMA planTasksOrder ==
  ASSUME Typed, Orderly, 1 \in Workers, planTasks(1)
  PROVE  Orderly'
<1>1. /\ WorkerStep(1) /\ doc' = doc /\ tasks' = tasks /\ chunks' = chunks
      /\ vectors' = vectors /\ torn' = torn
      /\ Only.pc = "planning" /\ Only'.pc = "pruning"
      /\ Only'.config = Only.config /\ Only'.range = Only.range
      /\ \A r : r \in Only'.reusable <=>
           /\ \E t \in SettledTask : t.range = r /\ t.config = Only.config
           /\ Has(r, Only.config)
  BY planTasksStep DEF Only, SameRun
<1>2. Found' = Found /\ SettledTask' = SettledTask
  BY <1>1, KeptRows DEF Found, IndexedAt, SettledTask, WorkerStep
<1>3. Only'.pc \notin Pruning \cup Carried \cup {"writing"} \cup InTask \cup Closing
  BY <1>1 DEF Pruning, Carried, InTask, Closing
<1>4. PlansAfresh'
  BY <1>1 DEF Orderly, PlansAfresh, Planning
<1>5. ReusesFound'
  <2> SUFFICES ASSUME ~torn, NEW r \in Only'.reusable PROVE <<r, Only.config>> \in Found
    BY <1>1, <1>2 DEF ReusesFound
  <2>1. PICK t \in SettledTask : t.range = r /\ t.config = Only.config
    BY <1>1
  <2>2. Only.pc \notin Pruning
    BY <1>1 DEF Pruning
  <2>. QED
    BY <1>1, <2>1, <2>2 DEF Orderly, SettledFound
<1>6. ReusesSettled'
  BY <1>1, <1>2 DEF ReusesSettled, Has
<1>7. PrunesUnwanted' /\ OneConfig' /\ TasksCarried'
  BY <1>3 DEF PrunesUnwanted, OneConfig, TasksCarried
<1>8. PassagesStored'
  BY <1>1 DEF PassagesStored
<1>9. SettledFound' /\ NoOrphans'
  <2>1. Only.pc \notin Pruning
    BY <1>1 DEF Pruning
  <2>. QED
    BY <1>1, <1>2, <1>3, <2>1 DEF Orderly, SettledFound, NoOrphans, Has
<1>10. ReadyRests' /\ ReadyPlan'
  BY <1>1, WorksUnready DEF Resting
<1>. QED
  BY <1>4, <1>5, <1>6, <1>7, <1>8, <1>9, <1>10 DEF Orderly

\* A settled range whose passages survive the prune is one the plan reuses.
LEMMA PruneSettles ==
  ASSUME Typed, ReusesSettled, ReusesFound', OneConfig', 1 \in Workers,
         Only.pc \in {"pruning", "unlist"}, Only'.pc = "writing",
         tasks' = tasks, chunks' \subseteq chunks,
         Only'.reusable = Only.reusable, Only'.config = Only.config
  PROVE  SettledFound'
<1> SUFFICES ASSUME ~torn', NEW t \in SettledTask',
                    \E k \in chunks' : k.range = t.range /\ k.config = t.config
             PROVE  <<t.range, t.config>> \in Found'
  BY DEF SettledFound, Has, Carried, InTask, Closing
<1>1. t \in SettledTask /\ t \in tasks
  BY DEF SettledTask
<1>2. t.range # Summary
  BY <1>1, BatchFacts DEF Typed, TasksOK, TaskRow, Summary
<1>3. t.config = Only.config
  BY <1>2 DEF OneConfig
<1>4. t.range \in Only.reusable
  BY <1>1, <1>3 DEF ReusesSettled, Has
<1>. QED
  BY <1>3, <1>4 DEF ReusesFound

LEMMA pruneOrder ==
  ASSUME Typed, Orderly, 1 \in Workers, pruneReplacedChunks(1)
  PROVE  Orderly'
<1>1. /\ WorkerStep(1) /\ doc' = doc /\ tasks' = tasks /\ chunks' = chunks
      /\ vectors' = vectors /\ torn' = torn
      /\ Only'.config = Only.config /\ Only'.range = Only.range
      /\ Only'.reusable = Only.reusable
      /\ Only'.doomed = Doomed(Only) /\ Only'.left = Doomed(Only)
      /\ Only'.whole <=> Doomed(Only) = chunks
      /\ Only.pc = "pruning"
      /\ Only'.pc = IF Doomed(Only) = {} THEN "writing" ELSE "unindex"
  BY pruneStep DEF Only, SameRun
<1>2. Found' = Found /\ SettledTask' = SettledTask
  BY <1>1, KeptRows DEF Found, IndexedAt, SettledTask, WorkerStep
<1>3. Only'.pc \in {"writing", "unindex"} /\ Only'.pc \notin Carried
  BY <1>1 DEF Carried, InTask, Closing
<1>4. \A c \in chunks : /\ c \in Doomed(Only) /\ c.range # Summary => Unwanted(Only, c)
                        /\ Unwanted(Only, c) => c \in Doomed(Only)
  BY DEF Doomed, Unwanted
<1>5. Doomed(Only) \subseteq chunks
  BY DEF Doomed
<1>6. PlansAfresh' /\ ReusesFound'
  BY <1>1, <1>2, <1>3 DEF Orderly, PlansAfresh, ReusesFound, Planning
<1>7. ReusesSettled'
  BY <1>1, <1>2, <1>3 DEF Orderly, ReusesSettled, Has
<1>8. Only'.whole => Only.reusable = {}
  <2> SUFFICES ASSUME Only'.whole, NEW r \in Only.reusable PROVE FALSE
    OBVIOUS
  <2>1. PICK k \in chunks : k.range = r /\ k.config = Only.config
    BY <1>1 DEF Orderly, ReusesSettled, Has
  <2>2. r # Summary
    BY WorkerFacts, BatchFacts DEF Typed, Only, Summary
  <2>3. k \notin Doomed(Only)
    BY <2>1, <2>2 DEF Doomed
  <2>. QED
    BY <1>1, <2>1, <2>3
<1>9. PrunesUnwanted'
  <2> SUFFICES ASSUME Only'.pc \in Pruning
               PROVE  /\ Only'.left # {}
                      /\ \A c \in Only'.doomed : c.range # Summary => Unwanted(Only', c)
                      /\ \A c \in chunks : Unwanted(Only', c) => c \in Only'.doomed
    BY <1>1, <1>3, <1>8 DEF PrunesUnwanted
  <2>1. Only'.pc = "unindex" /\ Doomed(Only) # {}
    BY <1>1, <1>3 DEF Pruning
  <2>2. \A c : Unwanted(Only', c) <=> Unwanted(Only, c)
    BY <1>1 DEF Unwanted
  <2>. QED
    BY <1>1, <1>4, <1>5, <2>1, <2>2
<1>10. OneConfig'
  <2> SUFFICES ASSUME Only'.pc = "writing", NEW c \in chunks, c.range # Summary
               PROVE  c.config = Only.config
    BY <1>1, <1>3 DEF OneConfig
  <2>1. c \notin Doomed(Only)
    BY <1>1
  <2>. QED
    BY <1>4, <2>1 DEF Unwanted
<1>11. TasksCarried' /\ PassagesStored'
  BY <1>3 DEF TasksCarried, PassagesStored
<1>12. SettledFound'
  <2>1. CASE Only'.pc = "writing"
    BY <1>1, <1>6, <1>10, <2>1, PruneSettles DEF Orderly
  <2>2. CASE Only'.pc = "unindex"
    BY <1>3, <2>2 DEF SettledFound, Pruning
  <2>. QED
    BY <1>3, <2>1, <2>2
<1>13. NoOrphans' /\ ReadyRests' /\ ReadyPlan'
  BY <1>1, WorksUnready DEF Orderly, NoOrphans, Resting
<1>. QED
  BY <1>6, <1>7, <1>9, <1>10, <1>11, <1>12, <1>13 DEF Orderly

\* What is found stays so when only rows of other digests go.
LEMMA FoundKept ==
  ASSUME Kept, NEW r, NEW config, <<r, config>> \in Found,
         \A c \in chunks : c.range = r /\ c.config = config => c \in chunks',
         \A c \in vectors : c.range = r /\ c.config = config => c \in vectors'
  PROVE  <<r, config>> \in Found'
<1>1. Batches' = Batches /\ Ranges' = Ranges
  BY KeptRows
<1>2. IndexedAt(r, config) /\ r \in Ranges /\ config \in Configs
  BY DEF Found
<1>3. IndexedAt(r, config)'
  BY <1>1, <1>2 DEF IndexedAt
<1>. QED
  BY <1>1, <1>2, <1>3 DEF Found

LEMMA deleteVectorsOrder ==
  ASSUME Typed, Orderly, 1 \in Workers, deleteVectors(1)
  PROVE  Orderly'
<1> DEFINE batch == Batch(Only, Only.left)
           left == Only.left \ batch
<1>1. /\ WorkerStep(1) /\ doc' = doc /\ tasks' = tasks /\ chunks' = chunks
      /\ torn' = torn
      /\ Only'.config = Only.config /\ Only'.range = Only.range
      /\ Only'.reusable = Only.reusable
      /\ Only'.doomed = Only.doomed /\ Only'.whole = Only.whole
      /\ vectors' = IF Only.whole THEN {} ELSE vectors \ batch
      /\ Only.pc = "unindex"
      /\ \/ left = {} /\ Only'.pc = "unlist" /\ Only'.left = Only.doomed
         \/ left # {} /\ Only'.pc = "unindex" /\ Only'.left = left
  BY deleteVectorsStep DEF Only, SameRun
<1>2. /\ Only.left # {}
      /\ Only.whole => Only.reusable = {}
      /\ \A c \in Only.doomed : c.range # Summary => Unwanted(Only, c)
      /\ \A c \in chunks : Unwanted(Only, c) => c \in Only.doomed
      /\ \A c \in Only.doomed : c \notin Only.left => c \notin vectors
  BY <1>1 DEF Orderly, PrunesUnwanted, Pruning
<1>3. batch \subseteq Only.left /\ Only.left \subseteq Only.doomed
  BY <1>2, BatchLeft, WorkerFacts DEF Only, Coherent
<1>4. Only'.pc \in {"unindex", "unlist"} /\ Only'.pc \notin Carried
  BY <1>1 DEF Carried, InTask, Closing
<1> HIDE DEF batch
<1>5. SettledTask' = SettledTask
  BY <1>1 DEF SettledTask
<1>6. PlansAfresh'
  BY <1>1, <1>4 DEF Orderly, PlansAfresh, Planning
<1>7. ReusesFound'
  <2> SUFFICES ASSUME ~torn, NEW r \in Only.reusable PROVE <<r, Only.config>> \in Found'
    BY <1>1, <1>4 DEF ReusesFound
  <2>1. <<r, Only.config>> \in Found
    BY <1>1 DEF Orderly, ReusesFound
  <2>2. ~Only.whole /\ r # Summary
    BY <1>2, WorkerFacts, BatchFacts DEF Typed, Only, Summary
  <2>3. \A c \in vectors : c.range = r /\ c.config = Only.config => c \in vectors'
    BY <1>1, <1>2, <1>3, <2>2 DEF Unwanted
  <2>. QED
    BY <1>1, <2>1, <2>3, FoundKept DEF WorkerStep
<1>8. ReusesSettled'
  BY <1>1, <1>4, <1>5 DEF Orderly, ReusesSettled, Has
<1>9. PrunesUnwanted'
  <2>1. \A c : Unwanted(Only', c) <=> Unwanted(Only, c)
    BY <1>1 DEF Unwanted
  <2>2. \A c \in Only.doomed : c \notin left => c \notin vectors'
    BY <1>1, <1>2
  <2>3. Only.doomed # {}
    BY <1>2, <1>3
  <2>4. CASE left = {}
    <3>1. Only'.pc = "unlist" /\ Only'.left = Only.doomed
      BY <1>1, <2>4
    <3>2. \A c \in Only.doomed : c \notin vectors'
      BY <2>2, <2>4
    <3>. QED
      BY <1>1, <1>2, <2>1, <2>3, <3>1, <3>2 DEF PrunesUnwanted
  <2>5. CASE left # {}
    <3>1. Only'.pc = "unindex" /\ Only'.left = left
      BY <1>1, <2>5
    <3>. QED
      BY <1>1, <1>2, <2>1, <2>2, <2>5, <3>1 DEF PrunesUnwanted
  <2>. QED
    BY <2>4, <2>5
<1>10. OneConfig' /\ TasksCarried' /\ PassagesStored'
  BY <1>4 DEF OneConfig, TasksCarried, PassagesStored
<1>11. SettledFound'
  BY <1>4 DEF SettledFound, Pruning
<1>12. NoOrphans'
  BY <1>1 DEF Orderly, NoOrphans
<1>13. ReadyRests' /\ ReadyPlan'
  BY <1>1, WorksUnready DEF Resting
<1>. QED
  BY <1>6, <1>7, <1>8, <1>9, <1>10, <1>11, <1>12, <1>13 DEF Orderly

LEMMA deleteChunksOrder ==
  ASSUME Typed, Orderly, 1 \in Workers, deleteChunks(1)
  PROVE  Orderly'
<1> DEFINE batch == Batch(Only, Only.left)
           left == Only.left \ batch
<1>1. /\ WorkerStep(1) /\ doc' = doc /\ tasks' = tasks /\ vectors' = vectors
      /\ torn' = torn
      /\ Only'.config = Only.config /\ Only'.range = Only.range
      /\ Only'.reusable = Only.reusable
      /\ chunks' = IF Only.whole THEN {} ELSE chunks \ batch
      /\ Only.pc = "unlist"
      /\ \/ left = {} /\ Only'.pc = "writing"
         \/ /\ left # {} /\ Only'.pc = "unlist" /\ Only'.left = left
            /\ Only'.doomed = Only.doomed /\ Only'.whole = Only.whole
  BY deleteChunksStep DEF Only, SameRun
<1>2. /\ Only.left # {}
      /\ Only.whole => Only.reusable = {}
      /\ \A c \in Only.doomed : c.range # Summary => Unwanted(Only, c)
      /\ \A c \in chunks : Unwanted(Only, c) => c \in Only.left
      /\ \A c \in Only.left : c \notin vectors
      /\ Only.whole => vectors = {}
  BY <1>1 DEF Orderly, PrunesUnwanted, Pruning
<1>3. batch \subseteq Only.left /\ Only.left \subseteq Only.doomed
  BY <1>2, BatchLeft, WorkerFacts DEF Only, Coherent
<1>4. Only'.pc \in {"unlist", "writing"} /\ Only'.pc \notin Carried
  BY <1>1 DEF Carried, InTask, Closing
<1> HIDE DEF batch
<1>5. SettledTask' = SettledTask /\ chunks' \subseteq chunks
  BY <1>1 DEF SettledTask
<1>6. PlansAfresh'
  BY <1>1, <1>4 DEF Orderly, PlansAfresh, Planning
<1>7. ReusesFound'
  <2> SUFFICES ASSUME ~torn, NEW r \in Only.reusable PROVE <<r, Only.config>> \in Found'
    BY <1>1, <1>4 DEF ReusesFound
  <2>1. <<r, Only.config>> \in Found
    BY <1>1 DEF Orderly, ReusesFound
  <2>2. ~Only.whole /\ r # Summary
    BY <1>2, WorkerFacts, BatchFacts DEF Typed, Only, Summary
  <2>3. \A c \in chunks : c.range = r /\ c.config = Only.config => c \in chunks'
    BY <1>1, <1>2, <1>3, <2>2 DEF Unwanted
  <2>. QED
    BY <1>1, <2>1, <2>3, FoundKept DEF WorkerStep
<1>8. ReusesSettled'
  BY <1>1, <1>4, <1>5 DEF Orderly, ReusesSettled, Has
<1>9. PrunesUnwanted'
  <2> SUFFICES ASSUME Only'.pc = "unlist"
               PROVE  /\ Only'.left # {}
                      /\ Only'.whole => Only'.reusable = {}
                      /\ \A c \in Only'.doomed : c.range # Summary => Unwanted(Only', c)
                      /\ \A c \in chunks' : Unwanted(Only', c) => c \in Only'.left
                      /\ \A c \in Only'.left : c \notin vectors'
                      /\ Only'.whole => vectors' = {}
    BY <1>4 DEF PrunesUnwanted, Pruning
  <2>1. \A c : Unwanted(Only', c) <=> Unwanted(Only, c)
    BY <1>1 DEF Unwanted
  <2>2. \A c \in chunks' : Unwanted(Only, c) => c \in left
    BY <1>1, <1>2
  <2>3. left # {} /\ Only'.left = left /\ Only'.doomed = Only.doomed /\ Only'.whole = Only.whole
    BY <1>1
  <2>. QED
    BY <1>1, <1>2, <2>1, <2>2, <2>3
<1>10. OneConfig'
  <2> SUFFICES ASSUME Only'.pc = "writing", NEW c \in chunks', c.range # Summary
               PROVE  c.config = Only.config
    BY <1>1, <1>4 DEF OneConfig
  <2>1. left = {}
    BY <1>1
  <2>2. c \in chunks /\ c \notin Only.left
    BY <1>1, <2>1
  <2>. QED
    BY <1>2, <2>2 DEF Unwanted
<1>11. TasksCarried' /\ PassagesStored'
  BY <1>4 DEF TasksCarried, PassagesStored
<1>12. SettledFound'
  <2>1. CASE Only'.pc = "writing"
    BY <1>1, <1>5, <1>7, <1>10, <2>1, PruneSettles DEF Orderly
  <2>2. CASE Only'.pc = "unlist"
    BY <1>4, <2>2 DEF SettledFound, Pruning
  <2>. QED
    BY <1>4, <2>1, <2>2
<1>13. NoOrphans'
  BY <1>1, <1>2, <1>3 DEF Orderly, NoOrphans
<1>14. ReadyRests' /\ ReadyPlan'
  BY <1>1, WorksUnready DEF Resting
<1>. QED
  BY <1>6, <1>7, <1>8, <1>9, <1>10, <1>11, <1>12, <1>13, <1>14 DEF Orderly

LEMMA writePlanOrder ==
  ASSUME Typed, Orderly, 1 \in Workers, writePlan(1)
  PROVE  Orderly'
<1>1. /\ WorkerStep(1) /\ SamePlan(Only, Only')
      /\ doc' = doc /\ chunks' = chunks /\ vectors' = vectors /\ torn' = torn
      /\ Only.pc = "writing" /\ Only'.pc = "between"
      /\ \A t \in tasks' :
           /\ t.run = Only.run /\ t.config = Only.config
           /\ \/ t.range \in Only.reusable /\ t.status = "reused"
              \/ t.range \in Pending(Only) /\ t.status = "pending"
      /\ \A r \in Ranges : \E t \in tasks' : t.range = r
  BY writePlanStep DEF Only
<1>2. /\ Only'.run = Only.run /\ Only'.config = Only.config
      /\ Only'.reusable = Only.reusable /\ Only'.range = 0
  BY <1>1 DEF SamePlan, SameRun, Orderly, PlansAfresh, Planning
<1>3. Ranges' = Ranges /\ Found' = Found
  BY <1>1, KeptRows DEF Found, IndexedAt, WorkerStep
<1>4. /\ "between" \notin Planning \cup Pruning \cup InTask \cup Closing
      /\ "between" \in Carried
  BY DEF Planning, Pruning, InTask, Closing, Carried
<1>5. \A r \in Pending(Only) : r \in Ahead(Only)'
  <2>1. \A r \in Ranges : r > 0
    BY BatchFacts DEF Typed
  <2>. QED
    BY <1>2, <1>3, <2>1 DEF Ahead, Pending
<1>6. PlansAfresh' /\ ReusesFound' /\ ReusesSettled' /\ PrunesUnwanted' /\ PassagesStored'
  BY <1>1, <1>4
     DEF PlansAfresh, ReusesFound, ReusesSettled, PrunesUnwanted, PassagesStored
<1>7. OneConfig'
  BY <1>1, <1>2 DEF Orderly, OneConfig
<1>8. TasksCarried'
  <2>1. \A t \in tasks' : t.range \in Ahead(Only)' \/ t.status \in SettledTasks
    BY <1>1, <1>5 DEF SettledTasks
  <2>. QED
    BY <1>1, <1>2, <1>3, <1>4, <2>1 DEF TasksCarried
<1>9. SettledFound'
  <2> SUFFICES ASSUME ~torn, NEW t \in SettledTask' PROVE <<t.range, t.config>> \in Found
    BY <1>1, <1>3 DEF SettledFound
  <2>1. t.config = Only.config /\ t.range \in Only.reusable
    BY <1>1 DEF SettledTask, SettledTasks
  <2>. QED
    BY <1>1, <2>1 DEF Orderly, ReusesFound
<1>10. NoOrphans' /\ ReadyRests' /\ ReadyPlan'
  BY <1>1, WorksUnready DEF Orderly, NoOrphans, Resting
<1>. QED
  BY <1>6, <1>7, <1>8, <1>9, <1>10 DEF Orderly

\* A step from the plan to the end: the run stores rows, and settles its tasks.
LEMMA CarriedStep ==
  ASSUME Typed, Orderly, Kept, Only.pc \in Carried, Only'.pc \in Carried,
         Only'.config = Only.config, torn' = torn,
         chunks \subseteq chunks', vectors \subseteq vectors', NoOrphans',
         \A c \in chunks' : c \in chunks \/ c.config = Only.config,
         \A t \in SettledTask' : t \in SettledTask \/ <<t.range, t.config>> \in Found',
         doc' = doc \/ (NotReady /\ doc.there), TasksCarried', PassagesStored'
  PROVE  Orderly'
<1>1. /\ Only.pc \notin Planning \cup Pruning \cup Resting
      /\ Only'.pc \notin Planning \cup Pruning
  BY DEF Carried, InTask, Closing, Planning, Pruning, Resting
<1>2. Found \subseteq Found'
  BY FoundMore
<1>3. PlansAfresh' /\ ReusesFound' /\ ReusesSettled' /\ PrunesUnwanted'
  BY <1>1 DEF Planning, PlansAfresh, ReusesFound, ReusesSettled, PrunesUnwanted
<1>4. OneConfig'
  BY DEF Orderly, OneConfig
<1>5. SettledFound'
  BY <1>1, <1>2 DEF Orderly, SettledFound
<1>6. ReadyRests' /\ ReadyPlan'
  BY <1>1, WorksUnready
<1>. QED
  BY <1>3, <1>4, <1>5, <1>6 DEF Orderly

\* A move that keeps to the plan's tasks.
LEMMA CarriedMove ==
  ASSUME Typed, Orderly, Kept, SamePlan(Only, Only'), tasks' = tasks,
         Only.pc \in Carried, Only'.pc \in Carried,
         Only'.pc \in InTask => Only.pc \in InTask, Only.pc \in InTask => Only'.pc \in InTask,
         Only'.pc \in Closing => Only.pc \in Closing \/ Ahead(Only) = {}
  PROVE  TasksCarried'
<1>1. /\ Only'.run = Only.run /\ Only'.config = Only.config
      /\ Only'.reusable = Only.reusable /\ Only'.range = Only.range
  BY DEF SamePlan, SameRun
<1>2. Ranges' = Ranges
  BY KeptRows
<1>3. Ahead(Only)' = Ahead(Only)
  BY <1>1, <1>2 DEF Ahead, Pending
<1>. QED
  BY <1>1, <1>2, <1>3 DEF Orderly, TasksCarried

LEMMA MovesCarried ==
  ASSUME Typed, Orderly, 1 \in Workers, NEW from \in Carried, NEW to \in Carried,
         Moves(1, from, to), NotReady, doc.there,
         to \in InTask <=> from \in InTask,
         to \in Closing => from \in Closing \/ Ahead(Only) = {}, PassagesStored'
  PROVE  Orderly'
<1>1. /\ WorkerStep(1) /\ SamePlan(Only, Only')
      /\ tasks' = tasks /\ chunks' = chunks /\ vectors' = vectors /\ torn' = torn
      /\ Only.pc = from /\ Only'.pc = to
  BY DEF Moves, Only
<1>2. TasksCarried'
  BY <1>1, CarriedMove DEF WorkerStep
<1>3. SettledTask' = SettledTask /\ NoOrphans'
  BY <1>1 DEF SettledTask, Orderly, NoOrphans
<1>4. Only'.config = Only.config
  BY <1>1 DEF SamePlan, SameRun
<1>. QED
  BY <1>1, <1>2, <1>3, <1>4, CarriedStep DEF WorkerStep

LEMMA MoveSteps ==
  ASSUME Typed, Orderly, 1 \in Workers, Only.pc # "idle" => doc.there,
         \/ enrich(1) \/ chargeEmbedding(1) \/ startSummaries(1) \/ endTasks(1)
         \/ skipSummaries(1) \/ buildSummaries(1) \/ chargeSummary(1)
  PROVE  Orderly'
<1>1. CASE chargeEmbedding(1)
  <2>1. Moves(1, "charging", "settling") /\ NotReady
    BY <1>1, chargeEmbeddingStep
  <2>2. /\ Kept /\ Only.pc = "charging" /\ Only'.pc = "settling"
        /\ chunks' = chunks /\ vectors' = vectors
        /\ Only'.config = Only.config /\ Only'.run = Only.run /\ Only'.range = Only.range
    BY <2>1 DEF Moves, WorkerStep, SamePlan, SameRun, Only
  <2>3. PassagesStored'
    BY <2>2, KeptRows DEF Orderly, PassagesStored, Passages, Chunk
  <2>4. "charging" \in InTask /\ "settling" \in InTask /\ "settling" \notin Closing
    BY DEF InTask, Closing
  <2>. QED
    BY <2>1, <2>2, <2>3, <2>4, MovesCarried DEF Carried
<1>4. CASE enrich(1)
  <2>1. Moves(1, "enriching", "storing") /\ NotReady
    BY <1>4, enrichStep
  <2>2. /\ Kept /\ Only.pc = "enriching" /\ Only'.pc = "storing"
        /\ Only'.range = Only.range /\ Only'.part = Only.part
    BY <2>1 DEF Moves, WorkerStep, SamePlan, SameRun, Only
  <2>3. Only.part = 0 /\ Only.part < Batches[Only.range] /\ Batches' = Batches
    BY <2>2, KeptRows DEF Orderly, PassagesStored
  <2>4. PassagesStored'
    BY <2>2, <2>3 DEF PassagesStored
  <2>5. "enriching" \in InTask /\ "storing" \in InTask /\ "storing" \notin Closing
    BY DEF InTask, Closing
  <2>. QED
    BY <2>1, <2>2, <2>4, <2>5, MovesCarried DEF Carried
<1>2. CASE startSummaries(1) \/ endTasks(1)
  <2>1. PICK to \in {"summarising", "ending"} :
          Moves(1, "between", to) /\ NotReady /\ Ahead(Only) = {}
    BY <1>2, startSummariesStep, endTasksStep DEF Only
  <2>2. to \in Closing /\ to \notin InTask /\ "between" \in Carried /\ "between" \notin InTask
    BY DEF Closing, InTask, Carried
  <2>3. Only.pc = "between" /\ Only'.pc = to
    BY <2>1 DEF Moves, Only
  <2>4. PassagesStored'
    BY <2>3 DEF PassagesStored
  <2>. QED
    BY <2>1, <2>2, <2>3, <2>4, MovesCarried DEF Carried
<1>3. CASE skipSummaries(1) \/ buildSummaries(1) \/ chargeSummary(1)
  <2>1. PICK from, to \in Closing \ {"embedding_summary"} : Moves(1, from, to)
    BY <1>3, SummarySteps
  <2>2. NotReady
    BY <1>3, SummarySteps
  <2>3. from \notin InTask /\ to \notin InTask /\ from # "idle" /\ to \notin {"embedding_summary"}
    BY <2>1 DEF Closing, InTask
  <2>4. Only.pc = from /\ Only'.pc = to
    BY <2>1 DEF Moves, Only
  <2>5. PassagesStored'
    BY <2>3, <2>4 DEF PassagesStored, InTask
  <2>. QED
    BY <2>1, <2>2, <2>3, <2>4, <2>5, MovesCarried DEF Carried
<1>. QED
  BY <1>1, <1>2, <1>3, <1>4

LEMMA startTaskOrder ==
  ASSUME Typed, Orderly, 1 \in Workers, startTask(1)
  PROVE  Orderly'
<1>1. /\ WorkerStep(1) /\ doc' = doc /\ chunks' = chunks /\ vectors' = vectors
      /\ torn' = torn
      /\ Only'.run = Only.run /\ Only'.config = Only.config
      /\ Only'.reusable = Only.reusable /\ Only'.part = 0
      /\ Only'.range \in Ahead(Only) /\ (\A r \in Ahead(Only) : Only'.range <= r)
      /\ tasks' = TaskSet(Only, Only'.range, "running")
      /\ Only.pc = "between" /\ Only'.pc = "parsing"
  BY startTaskStep DEF Only, SameRun
<1>2. Ranges' = Ranges /\ Kept
  BY <1>1, KeptRows DEF WorkerStep
<1>3. /\ Only.pc \in Carried /\ Only'.pc \in Carried /\ Only'.pc \in InTask
      /\ Only.pc \notin InTask /\ Only'.pc \notin Closing
  BY <1>1 DEF Carried, InTask, Closing
<1>4. /\ \A t \in tasks : t.run = Only.run /\ t.config = Only.config
      /\ \A r \in Ranges : \E t \in tasks : t.range = r
      /\ \A t \in tasks : t.range \in Ahead(Only) \/ t.status \in SettledTasks
  BY <1>3 DEF Orderly, TasksCarried
<1>5. /\ \A t \in tasks' :
           \/ t \in tasks /\ t.range # Only'.range
           \/ /\ t.status = "running" /\ t.run = Only.run /\ t.range = Only'.range
              /\ \E u \in tasks : u.config = t.config
      /\ \A t \in tasks : \E u \in tasks' : u.range = t.range
      /\ SettledTask' \subseteq SettledTask
  BY <1>1, <1>4, TaskSetFacts DEF Typed
<1>6. \A r \in Ahead(Only) : r = Only'.range \/ r \in Ahead(Only)'
  <2> TAKE r \in Ahead(Only)
  <2>1. r \in Nat /\ Only'.range \in Nat /\ Only'.range <= r
    BY <1>1, AheadFacts DEF Only
  <2>2. r \in Pending(Only)'
    BY <1>1, <1>2 DEF Ahead, Pending
  <2>. QED
    BY <2>1, <2>2 DEF Ahead
<1>7. TasksCarried'
  <2>1. \A t \in tasks' : t.run = Only'.run /\ t.config = Only'.config
    BY <1>1, <1>4, <1>5
  <2>2. \A r \in Ranges' : \E t \in tasks' : t.range = r
    BY <1>2, <1>4, <1>5
  <2>3. \A t \in tasks' :
          \/ t.range \in Ahead(Only)'
          \/ Only'.pc \in InTask /\ t.range = Only'.range
          \/ t.status \in SettledTasks
    BY <1>3, <1>4, <1>5, <1>6
  <2>4. \A t \in tasks' : t.range = Only'.range => t.status = "running"
    BY <1>5
  <2>. QED
    BY <1>3, <2>1, <2>2, <2>3, <2>4 DEF TasksCarried
<1>8. PassagesStored' /\ NoOrphans'
  BY <1>1 DEF PassagesStored, Orderly, NoOrphans
<1>. QED
  BY <1>1, <1>2, <1>3, <1>5, <1>7, <1>8, CarriedStep

\* The range the run is in is settled, and found.
LEMMA SettlesRange ==
  ASSUME Typed, Orderly, 1 \in Workers, WorkerStep(1), NotReady, doc.there,
         SamePlan(Only, Only'), chunks' = chunks, vectors' = vectors, torn' = torn,
         tasks' = TaskSet(Only, Only.range, "done"),
         Only.pc \in InTask, Only'.pc = "between",
         <<Only.range, Only.config>> \in Found
  PROVE  Orderly'
<1>1. Ranges' = Ranges /\ Kept
  BY KeptRows DEF WorkerStep
<1>2. /\ Only.pc \in Carried /\ Only'.pc \in Carried /\ Only'.pc \notin InTask \cup Closing
  BY DEF Carried, InTask, Closing
<1>3. /\ \A t \in tasks : t.run = Only.run /\ t.config = Only.config
      /\ \A r \in Ranges : \E t \in tasks : t.range = r
      /\ \A t \in tasks :
           t.range \in Ahead(Only) \/ t.range = Only.range \/ t.status \in SettledTasks
  BY <1>2 DEF Orderly, TasksCarried
<1>4. /\ \A t \in tasks' :
           \/ t \in tasks /\ t.range # Only.range
           \/ /\ t.status = "done" /\ t.run = Only.run /\ t.range = Only.range
              /\ \E u \in tasks : u.config = t.config
      /\ \A t \in tasks : \E u \in tasks' : u.range = t.range
  BY <1>3, TaskSetFacts DEF Typed
<1>5. /\ Only'.run = Only.run /\ Only'.config = Only.config
      /\ Only'.reusable = Only.reusable /\ Only'.range = Only.range
  BY DEF SamePlan, SameRun
<1>6. Ahead(Only)' = Ahead(Only)
  BY <1>1, <1>5 DEF Ahead, Pending
<1>7. TasksCarried'
  <2>1. \A t \in tasks' : t.range \in Ahead(Only)' \/ t.status \in SettledTasks
    BY <1>3, <1>4, <1>6 DEF SettledTasks
  <2>. QED
    BY <1>1, <1>2, <1>3, <1>4, <1>5, <2>1 DEF TasksCarried
<1>8. Found \subseteq Found'
  BY <1>1, FoundMore
<1>9. \A t \in SettledTask' : t \in SettledTask \/ <<t.range, t.config>> \in Found'
  BY <1>3, <1>4, <1>8 DEF SettledTask
<1>10. PassagesStored' /\ NoOrphans'
  BY DEF PassagesStored, Orderly, NoOrphans
<1>. QED
  BY <1>1, <1>2, <1>5, <1>7, <1>9, <1>10, CarriedStep

LEMMA parseOrder ==
  ASSUME Typed, Orderly, 1 \in Workers, Only.pc # "idle" => doc.there, parse(1)
  PROVE  Orderly'
<1>1. /\ WorkerStep(1) /\ NotReady /\ SamePlan(Only, Only') /\ chunks' = chunks
      /\ vectors' = vectors /\ torn' = torn
      /\ Only.pc = "parsing" /\ Only.range \in Ranges
      /\ \/ /\ Batches[Only.range] = 0 /\ Only'.pc = "between"
            /\ tasks' = TaskSet(Only, Only.range, "done")
         \/ /\ Batches[Only.range] # 0 /\ Only'.pc \in {"enriching", "storing"}
            /\ tasks' = tasks
  BY parseStep DEF Only
<1>2. Only.run \in 1..MaxRuns /\ Only.config \in Configs
  BY <1>1, WorkerFacts DEF Only
<1>3. CASE Batches[Only.range] = 0 /\ Only'.pc = "between"
           /\ tasks' = TaskSet(Only, Only.range, "done")
  <2>1. IndexedAt(Only.range, Only.config)
    BY <1>2, <1>3 DEF IndexedAt
  <2>2. <<Only.range, Only.config>> \in Found
    BY <1>1, <1>2, <2>1 DEF Found
  <2>. QED
    BY <1>1, <1>3, <2>2, SettlesRange DEF InTask
<1>4. CASE /\ Batches[Only.range] # 0 /\ Only'.pc \in {"enriching", "storing"}
           /\ tasks' = tasks
  <2>1. Kept /\ Batches' = Batches
    BY <1>1, KeptRows DEF WorkerStep
  <2>2. /\ "parsing" \in InTask /\ Only'.pc \in InTask /\ Only'.pc \notin Closing
        /\ "parsing" \in Carried /\ Only'.pc \in Carried
    BY <1>4 DEF InTask, Closing, Carried
  <2>3. Moves(1, "parsing", Only'.pc)
    BY <1>1, <1>4 DEF Moves, Only
  <2>4. Only'.range = Only.range /\ Only'.part = 0
    BY <1>1 DEF SamePlan, Orderly, PassagesStored
  <2>5. Batches[Only.range] > 0
    BY <1>1, <1>4, BatchFacts DEF Typed
  <2>6. PassagesStored'
    BY <1>4, <2>1, <2>4, <2>5 DEF PassagesStored
  <2>. QED
    BY <1>1, <2>2, <2>3, <2>6, MovesCarried
<1>. QED
  BY <1>1, <1>3, <1>4

LEMMA storeChunksOrder ==
  ASSUME Typed, Orderly, 1 \in Workers, Only.pc # "idle" => doc.there, storeChunks(1)
  PROVE  Orderly'
<1>1. /\ WorkerStep(1) /\ NotReady
      /\ Only'.run = Only.run /\ Only'.config = Only.config
      /\ Only'.reusable = Only.reusable
      /\ Only'.range = Only.range /\ Only'.part = Only.part + 1
      /\ Only'.pc = IF Only.part + 1 = Batches[Only.range] THEN "embedding" ELSE "storing"
      /\ chunks' = chunks \cup {Chunk(Only, Only.range, Only.part + 1)}
      /\ tasks' = tasks /\ vectors' = vectors /\ torn' = torn
      /\ Only.pc = "storing" /\ Only.range \in Ranges
  BY storeChunksStep DEF Only, SameRun
<1>2. Kept /\ Batches' = Batches /\ Ranges' = Ranges
  BY <1>1, KeptRows DEF WorkerStep
<1>3. /\ Only.pc \in Carried /\ Only'.pc \in Carried /\ Only.pc \in InTask
      /\ Only'.pc \in InTask /\ Only'.pc \notin Closing
  BY <1>1 DEF Carried, InTask, Closing
<1>4. Only.part \in Nat /\ Batches[Only.range] \in Nat /\ Only.part < Batches[Only.range]
  BY <1>1, WorkerFacts, BatchFacts DEF Typed, Only, Orderly, PassagesStored
<1>5. \A q \in 1..(Only.part + 1) : Chunk(Only, Only.range, q) \in chunks'
  <2> TAKE q \in 1..(Only.part + 1)
  <2>1. q \in 1..Only.part \/ q = Only.part + 1
    BY <1>4
  <2>. QED
    BY <1>1, <2>1 DEF Orderly, PassagesStored
<1>6. \A q : Chunk(Only, Only.range, q)' = Chunk(Only, Only.range, q)
  BY <1>1 DEF Chunk
<1>7. TasksCarried'
  <2>1. Ahead(Only)' = Ahead(Only)
    BY <1>1, <1>2 DEF Ahead, Pending
  <2>. QED
    BY <1>1, <1>2, <1>3, <2>1 DEF Orderly, TasksCarried
<1>8. PassagesStored'
  <2>1. CASE Only.part + 1 = Batches[Only.range]
    <3>1. Only'.pc = "embedding"
      BY <1>1, <2>1
    <3>2. Passages(Only, Only.range)' \subseteq chunks'
      BY <1>1, <1>2, <1>5, <1>6, <2>1 DEF Passages, Chunk
    <3>. QED
      BY <3>1, <3>2 DEF PassagesStored
  <2>2. CASE Only.part + 1 # Batches[Only.range]
    <3>1. Only'.pc = "storing" /\ Only'.part < Batches'[Only'.range]
      BY <1>1, <1>2, <1>4, <2>2
    <3>2. \A q \in 1..Only'.part : Chunk(Only, Only.range, q)' \in chunks'
      BY <1>1, <1>5, <1>6
    <3>. QED
      BY <3>1, <3>2 DEF PassagesStored, Chunk
  <2>. QED
    BY <2>1, <2>2
<1>9. NoOrphans' /\ SettledTask' = SettledTask
  BY <1>1 DEF Orderly, NoOrphans, SettledTask
<1>10. \A c \in chunks' : c \in chunks \/ c.config = Only.config
  BY <1>1 DEF Chunk
<1>. QED
  BY <1>1, <1>2, <1>3, <1>7, <1>8, <1>9, <1>10, CarriedStep

LEMMA embedOrder ==
  ASSUME Typed, Orderly, 1 \in Workers, Only.pc # "idle" => doc.there, embed(1)
  PROVE  Orderly'
<1>1. /\ WorkerStep(1) /\ doc' = doc /\ SamePlan(Only, Only') /\ chunks' = chunks
      /\ vectors' = vectors \cup Passages(Only, Only.range)
      /\ tasks' = tasks /\ torn' = torn
      /\ Only.pc = "embedding" /\ Only'.pc = "charging"
  BY embedStep DEF Only
<1>2. Kept /\ Batches' = Batches
  BY <1>1, KeptRows DEF WorkerStep
<1>3. /\ Only.pc \in Carried /\ Only'.pc \in Carried /\ Only.pc \in InTask
      /\ Only'.pc \in InTask /\ Only'.pc \notin Closing
  BY <1>1 DEF Carried, InTask, Closing
<1>4. Only'.run = Only.run /\ Only'.config = Only.config /\ Only'.range = Only.range
  BY <1>1 DEF SamePlan, SameRun
<1>5. TasksCarried'
  BY <1>1, <1>2, <1>3, CarriedMove
<1>6. Passages(Only, Only.range) \subseteq chunks
  BY <1>1 DEF Orderly, PassagesStored
<1>7. Passages(Only, Only.range)' = Passages(Only, Only.range)
  BY <1>2, <1>4 DEF Passages, Chunk
<1>8. PassagesStored'
  <2>1. Passages(Only, Only.range)' \subseteq chunks' /\ Passages(Only, Only.range)' \subseteq vectors'
    BY <1>1, <1>6, <1>7
  <2>. QED
    BY <1>1, <2>1 DEF PassagesStored
<1>9. NoOrphans' /\ SettledTask' = SettledTask
  BY <1>1, <1>6 DEF Orderly, NoOrphans, SettledTask
<1>. QED
  BY <1>1, <1>2, <1>3, <1>4, <1>5, <1>8, <1>9, CarriedStep

\* What an execution has charged for, or is about to, is found.
LEMMA StoredIsFound ==
  ASSUME Typed, Orderly, 1 \in Workers, Only.pc \in {"charging", "settling"}
  PROVE  /\ Only.range \in Ranges /\ Only.config \in Configs
         /\ <<Only.range, Only.config>> \in Found
<1>1. Only.range \in Ranges /\ Only.config \in Configs /\ Only.run \in 1..MaxRuns
  BY WorkerFacts DEF Only, Coherent, InTask
<1>2. Passages(Only, Only.range) \subseteq chunks /\ Passages(Only, Only.range) \subseteq vectors
  BY DEF Orderly, PassagesStored
<1>3. ASSUME NEW part \in 1..Batches[Only.range]
      PROVE  LET k == [range |-> Only.range, part |-> part, config |-> Only.config,
                       run |-> Only.run]
             IN  k \in chunks /\ k \in vectors
  BY <1>2 DEF Passages, Chunk
<1>4. IndexedAt(Only.range, Only.config)
  BY <1>1, <1>3 DEF IndexedAt
<1>. QED
  BY <1>1, <1>4 DEF Found

LEMMA settleTaskOrder ==
  ASSUME Typed, Orderly, 1 \in Workers, Only.pc # "idle" => doc.there, settleTask(1)
  PROVE  Orderly'
<1>1. /\ WorkerStep(1) /\ NotReady /\ SamePlan(Only, Only') /\ chunks' = chunks
      /\ vectors' = vectors /\ torn' = torn
      /\ Only.pc = "settling" /\ Only'.pc = "between"
      /\ tasks' = TaskSet(Only, Only.range, "done")
  BY settleTaskStep DEF Only
<1>2. <<Only.range, Only.config>> \in Found
  BY <1>1, StoredIsFound
<1>. QED
  BY <1>1, <1>2, SettlesRange DEF InTask

\* Storing and embedding a summary.
LEMMA SummaryOrder ==
  ASSUME Typed, Orderly, 1 \in Workers, storeSummary(1) \/ embedSummary(1)
  PROVE  Orderly'
<1> DEFINE c == Chunk(Only, Summary, 1)
<1>1. /\ WorkerStep(1) /\ doc' = doc /\ SamePlan(Only, Only')
      /\ tasks' = tasks /\ torn' = torn
      /\ \/ /\ Only.pc = "storing_summary" /\ Only'.pc = "embedding_summary"
            /\ chunks' = chunks \cup {c} /\ vectors' = vectors
         \/ /\ Only.pc = "embedding_summary" /\ Only'.pc = "charging_summary"
            /\ chunks' = chunks /\ vectors' = vectors \cup {c}
  BY storeSummaryStep, embedSummaryStep DEF Only
<1>2. Kept
  BY <1>1 DEF WorkerStep
<1>3. /\ Only.pc \in Carried /\ Only'.pc \in Carried /\ Only.pc \in Closing
      /\ Only.pc \notin InTask /\ Only'.pc \notin InTask
  BY <1>1 DEF Carried, InTask, Closing
<1>4. Only'.run = Only.run /\ Only'.config = Only.config
  BY <1>1 DEF SamePlan, SameRun
<1>5. c.config = Only.config /\ c' = c
  BY <1>4 DEF Chunk, Summary
<1>6. TasksCarried'
  BY <1>1, <1>2, <1>3, CarriedMove
<1>7. Only.pc = "embedding_summary" => c \in chunks
  BY DEF Orderly, PassagesStored
<1> HIDE DEF c
<1>8. Only'.pc = "embedding_summary" => Chunk(Only, Summary, 1)' \in chunks'
  BY <1>1, <1>5 DEF c
<1>9. PassagesStored'
  BY <1>1, <1>8 DEF PassagesStored
<1>10. NoOrphans' /\ SettledTask' = SettledTask
  BY <1>1, <1>7 DEF Orderly, NoOrphans, SettledTask
<1>11. \A d \in chunks' : d \in chunks \/ d.config = Only.config
  BY <1>1, <1>5
<1>12. chunks \subseteq chunks' /\ vectors \subseteq vectors'
  BY <1>1
<1>. QED
  BY <1>1, <1>2, <1>3, <1>4, <1>6, <1>9, <1>10, <1>11, <1>12, CarriedStep

LEMMA OrderlyStep ==
  ASSUME Typed, Alone, NotDeleted, Undisturbed, Orderly, Next, Undisturbed'
  PROVE  Orderly'
<1>1. 1 \in Workers /\ OneAtATime /\ ~Happened("deletes") /\ "deletes" \in Bounds
  BY TheOne DEF Undisturbed, Bounds
<1>2. \A w \in Workers : workers[w].pc # "idle" => doc.there
  BY <1>1 DEF NotDeleted
<1>3. Only.pc # "idle" => doc.there
  BY <1>1, <1>2 DEF Only
<1>4. ASSUME Outside, Untouched PROVE Orderly'
  BY <1>4, QuietStep DEF Outside, Untouched, Only, SamePlan, SameRun
<1>5. ASSUME NEW r \in Requests, Ask(r) \/ Handle(r) \/ VanishRequest(r) PROVE Orderly'
  <2>1. RequestStep(r)
    BY <1>5, RequestSteps
  <2>2. requests[r].pc \notin Deleting
    BY <1>1 DEF NotDeleted
  <2>. QED
    BY <1>4, <2>1, <2>2 DEF RequestStep
<1>6. ASSUME NEW config \in Configs, updateBase(config) PROVE Orderly'
  BY <1>4, <1>6, updateBaseStep
<1>7. ASSUME NEW w \in Workers, WorkerNext(w) PROVE Orderly'
  <2>1. WorkerNext(1)
    BY <1>1, <1>7, OnlyOne
  <2>2. CASE Plan(1)
    BY <1>1, <1>3, <2>2, RestSteps, planTasksOrder, pruneOrder, deleteVectorsOrder,
       deleteChunksOrder, writePlanOrder DEF Plan
  <2>3. CASE RunTask(1)
    BY <1>1, <1>3, <2>3, startTaskOrder, parseOrder, storeChunksOrder, embedOrder,
       MoveSteps, settleTaskOrder DEF RunTask
  <2>4. CASE Summarise(1)
    BY <1>1, <1>3, <2>4, MoveSteps, SummaryOrder DEF Summarise
  <2>5. CASE Conclude(1)
    BY <1>1, <1>3, <2>5, RestSteps, MoveSteps DEF Conclude
  <2>6. CASE Stall(1)
    <3>1. /\ WorkerStep(1) /\ doc' = doc /\ tasks' = tasks /\ chunks' = chunks
          /\ vectors' = vectors /\ torn' = torn
          /\ Only'.pc = Only.pc /\ SamePlan(Only, Only')
      BY <1>1, <2>6, StallStep DEF Only
    <3>. QED
      BY <3>1, QuietStep DEF WorkerStep
  <2>7. CASE GoesWrong(1) /\ ~Stall(1)
    BY <1>1, <1>3, <2>7, RestSteps DEF GoesWrong
  <2>8. CASE \E j \in JobIds : pickUp(1, j)
    BY <1>1, <1>3, <2>8, RestSteps
  <2>. QED
    BY <2>1, <2>2, <2>3, <2>4, <2>5, <2>6, <2>7, <2>8 DEF WorkerNext, Ingest
<1>. QED
  BY <1>5, <1>6, <1>7, NextCases

\* What happened is not undone: who is undisturbed has always been.
LEMMA WasUndisturbed ==
  ASSUME Typed, Next, Undisturbed'
  PROVE  Undisturbed
<1>1. "deletes" \in Bounds
  BY DEF Bounds
<1>2. UsedGrows
  BY NextCases, RequestSteps, updateBaseStep, WorkerSteps DEF RequestStep, WorkerStep
<1>. QED
  BY <1>1, <1>2 DEF UsedGrows, Undisturbed, OneAtATime, Happened

LEMMA InvStep == Inv /\ [Next]_vars => Inv'
<1> SUFFICES ASSUME Inv, [Next]_vars PROVE Inv'
  OBVIOUS
<1>1. Typed'
  BY TypedStep DEF Inv
<1>2. CASE Next
  <2>1. Alone' /\ NotDeleted'
    BY <1>2, AloneStep, NotDeletedStep DEF Inv
  <2>2. Undisturbed' => Orderly'
    BY <1>2, WasUndisturbed, OrderlyStep DEF Inv
  <2>. QED
    BY <1>1, <2>1, <2>2 DEF Inv
<1>3. CASE UNCHANGED vars
  <2>1. Alone' /\ NotDeleted' /\ (Undisturbed' => Undisturbed)
    BY <1>3 DEF vars, Inv, Alone, NotDeleted, OneAtATime, Happened, Undisturbed, Workers
  <2>2. Orderly => Orderly'
    BY <1>3, QuietStep DEF vars, Inv, Only, SamePlan, SameRun, Kept
  <2>. QED
    BY <1>1, <2>1, <2>2 DEF Inv
<1>. QED
  BY <1>2, <1>3

LEMMA IngestionInv == Spec => []Inv
<1>. QED
  BY InitInv, InvStep, PTL DEF Spec

\* The stores agree with the plan and with each other, however people, retries,
\* crashes and lost locks interleave: a document that says it is ready has every
\* range of its plan in Postgres and in Qdrant, and no vector outlives its
\* passage (ingestion.service.ts, ingestDocument).
THEOREM IngestionStoresAgree == Spec => []StoresAgree
<1>. QED
  BY IngestionInv, InvIsStoresAgree, PTL

-----------------------------------------------------------------------------
(* What a step may never do.                                               *)

\* Three steps charge, and one takes passages away.
LEMMA Charges ==
  ASSUME NEW w \in Workers, WorkerNext(w)
  PROVE  /\ usage' = usage \/ enrich(w) \/ chargeEmbedding(w) \/ chargeSummary(w)
         /\ chunks \subseteq chunks' \/ deleteChunks(w)
<1>1. ASSUME begin(w) \/ planTasks(w) \/ pruneReplacedChunks(w) \/ deleteVectors(w) \/ writePlan(w)
      PROVE  usage' = usage /\ chunks' = chunks
  BY <1>1 DEF begin, planTasks, pruneReplacedChunks, deleteVectors, writePlan
<1>2. ASSUME deleteChunks(w) PROVE usage' = usage
  BY <1>2 DEF deleteChunks
<1>3. ASSUME startTask(w) \/ parse(w) \/ embed(w) \/ settleTask(w)
      PROVE  usage' = usage /\ chunks' = chunks
  BY <1>3 DEF startTask, parse, embed, settleTask
<1>4. ASSUME storeChunks(w) PROVE usage' = usage /\ chunks \subseteq chunks'
  BY <1>4 DEF storeChunks
<1>5. ASSUME enrich(w) \/ chargeEmbedding(w) PROVE chunks' = chunks
  BY <1>5 DEF enrich, chargeEmbedding
<1>6. CASE Summarise(w) \/ Conclude(w)
  BY <1>6 DEF Summarise, Conclude, startSummaries, skipSummaries, buildSummaries,
     storeSummary, embedSummary, chargeSummary, cancelled, endTasks, finish, finishEmpty,
     refreshCounts, close, Breaks, failDocument
<1>7. CASE GoesWrong(w)
  BY <1>7 DEF GoesWrong, Fails, parseFails, Throws, Crash, Stall, failDocument
<1>8. CASE \E j \in JobIds : pickUp(w, j)
  BY <1>8 DEF pickUp
<1>. QED
  BY <1>1, <1>2, <1>3, <1>4, <1>5, <1>6, <1>7, <1>8 DEF WorkerNext, Ingest, Plan, RunTask

LEMMA ChargedStep == Inv /\ Next => ChargedIsIndexed
<1> SUFFICES ASSUME Inv, Next, OneAtATime, ~Happened("deletes"),
                    NEW u \in usage' \ usage, u.range # Summary, u.purpose = "embed"
             PROVE  Indexed([range |-> u.range, config |-> u.config])
  BY DEF ChargedIsIndexed
<1>1. Typed /\ Alone /\ Orderly /\ 1 \in Workers
  BY TheOne DEF Inv, Undisturbed
<1>2. PICK w \in Workers : WorkerNext(w)
  BY <1>1, NextCases, RequestSteps, updateBaseStep DEF RequestStep, Outside
<1>3. w = 1
  BY <1>1, <1>2, OnlyOne
<1>4. ~chargeSummary(1) /\ ~enrich(1)
  BY <1>1, SummarySteps, enrichStep
<1>5. chargeEmbedding(1)
  BY <1>2, <1>3, <1>4, Charges
<1>6. Only.pc = "charging" /\ u.range = Only.range /\ u.config = Only.config
  BY <1>1, <1>5, chargeEmbeddingStep DEF Moves, Only
<1>7. IndexedAt(Only.range, Only.config)
  BY <1>1, <1>6, StoredIsFound DEF Found
<1>. QED
  BY <1>6, <1>7 DEF Indexed, IndexedAt

LEMMA KeptStep == Inv /\ Next => PassagesAreKept
<1> SUFFICES ASSUME Inv, Next, OneAtATime, ~Happened("deletes"),
                    NEW c \in chunks \ chunks', NEW t \in tasks,
                    t.range = c.range, t.config = c.config, t.status \in SettledTasks
             PROVE  \E w \in Workers : workers[w].pc = "unlist" /\ workers[w].config # c.config
  BY DEF PassagesAreKept
<1>1. Typed /\ Alone /\ NotDeleted /\ Orderly /\ 1 \in Workers
  BY TheOne DEF Inv, Undisturbed
<1>2. PICK w \in Workers : WorkerNext(w)
  <2>1. \A r \in Requests : requests[r].pc \notin Deleting
    BY <1>1 DEF NotDeleted
  <2>. QED
    BY <1>1, <2>1, NextCases, RequestSteps, updateBaseStep DEF RequestStep, Untouched
<1>3. deleteChunks(1)
  BY <1>1, <1>2, OnlyOne, Charges
<1>4. /\ Only.pc = "unlist"
      /\ chunks' = IF Only.whole THEN {} ELSE chunks \ Batch(Only, Only.left)
  BY <1>1, <1>3, deleteChunksStep DEF Only
<1>5. /\ Only.left # {}
      /\ Only.whole => Only.reusable = {}
      /\ \A d \in Only.doomed : d.range # Summary => Unwanted(Only, d)
  BY <1>1, <1>4 DEF Orderly, PrunesUnwanted, Pruning
<1>6. c.range # Summary
  BY <1>1, BatchFacts DEF Typed, TasksOK, TaskRow, Summary
<1>7. ASSUME Only.config = c.config PROVE FALSE
  <2>1. t.range \in Only.reusable
    BY <1>1, <1>4, <1>7 DEF Orderly, ReusesSettled, SettledTask, Has
  <2>2. ~Only.whole
    BY <1>5, <2>1
  <2>3. c \in Only.doomed
    BY <1>1, <1>4, <1>5, <2>2, BatchLeft, WorkerFacts DEF Only, Coherent
  <2>. QED
    BY <1>5, <1>6, <1>7, <2>1, <2>3 DEF Unwanted
<1>. QED
  BY <1>1, <1>4, <1>7 DEF Only

\* No step charges for the embedding of a range that cannot be found, and none throws away the
\* passages of a settled range that the execution wants (ingestion.service.ts,
\* planTasks and runTask).
THEOREM IngestionSettledIsKept == Spec => SettledIsKept
<1>1. Inv /\ [Next]_vars => [ChargedIsIndexed /\ PassagesAreKept]_vars
  BY ChargedStep, KeptStep
<1>. QED
  BY <1>1, IngestionInv, PTL DEF Spec, SettledIsKept
=============================================================================
