----------------------------- MODULE Ingestion -----------------------------
(***************************************************************************)
(* Indexing one document: its row, the ranges of pages it is parsed in,    *)
(* their passages in Postgres and the vectors of those in Qdrant, the      *)
(* summaries over them, and the people who index it again, stop it and     *)
(* delete it (src/src/modules/knowledge/: ingestion.service.ts,            *)
(* knowledge.service.ts; src/src/jobs/ingestion.jobs.ts).                  *)
(*                                                                         *)
(* One action is one statement on Postgres, one request to Qdrant or one   *)
(* call of the queue.  A digest is a range under a configuration of the    *)
(* parser.  The passages of a range are inserted and deleted in batches;   *)
(* what the model calls a passage is one batch.  `progress`, which only    *)
(* moves the bar, is part of the statement next to it.                     *)
(***************************************************************************)
EXTENDS Integers, Sequences, FiniteSets

CONSTANTS
  Configs,       \* configurations of the parser
  MaxWorkers,    \* bound on the concurrent executions of ingestDocument
  Requests,      \* concurrent requests on the document
  Cases,         \* files and the bounds for them
  MaxAttempts,   \* bound on the attempts of the document
  MaxRuns,       \* bound on the executions of ingestDocument
  MaxStalled,    \* BullMQ: how often a job may lose its worker
  MaxThrown      \* BullMQ: how often a job may throw

(* A case is a file (how many batches of passages each range of it gives,     *)
(* whether a model writes keywords and questions for them, and whether        *)
(* summaries are built), how many executions may go on at once, and a bound   *)
(* for each kind of event:                                                    *)
(*   failures: errors of the file, the providers, the ledger and the stores;  *)
(*   crashes, stalls: workers that die, and workers that lose their lock;     *)
(*   settings, reindexes, cancels, deletes: what people ask for;              *)
(*   vanished: requests whose process dies.                                   *)
Bounds == {"failures", "crashes", "stalls", "settings", "reindexes", "cancels",
           "deletes", "vanished"}

ASSUME CasesAssumption ==
  \A c \in Cases :
    /\ c.batches \in Seq(Nat) /\ c.batches # << >>
    /\ c.enriched \in BOOLEAN /\ c.summarised \in BOOLEAN
    /\ c.slots \in 1..MaxWorkers
    /\ c.limit \in [Bounds -> Nat]
ASSUME BoundsAssumption ==
  /\ {MaxAttempts, MaxRuns, MaxStalled, MaxThrown, MaxWorkers} \subseteq Nat
  /\ MaxAttempts > 0
  /\ Configs # {}

VARIABLES
  doc,       \* the document row, and the file it names
  jobs,      \* the queue's jobs, by the attempt their id names
  tasks,     \* ingestion_task: the plan of the last run that wrote one
  chunks,    \* chunk: passages (range 1, 2, ...) and summaries (range 0)
  vectors,   \* Qdrant's points, each the chunk it was made for
  usage,     \* usage_ledger: what was charged, by reference
  workers,   \* the executions of ingestDocument
  requests,  \* the requests on the document
  torn,      \* history: a prune ended between its two stores
  used       \* how often each kind of event happened, and its limit

vars == <<doc, jobs, tasks, chunks, vectors, usage, workers, requests, torn, used>>

-----------------------------------------------------------------------------
Batches == doc.file.batches
Ranges == DOMAIN Batches
Summary == 0

Working == "working"    \* parsing, chunking, enriching, embedding, summarising
Statuses == {"none", "pending", Working, "ready", "failed", "cancelled"}
Over == {"ready", "failed", "cancelled"}
SettledTasks == {"done", "reused"}

Purposes == {"enrich", "embed"}

Workers == 1..MaxWorkers
JobIds == 1..MaxAttempts
NewJob == [state |-> "none", stalled |-> 0, thrown |-> 0]
Execution(pc, job, holds, run, config) ==
  [pc |-> pc, job |-> job, holds |-> holds, run |-> run, config |-> config,
   reusable |-> {}, range |-> 0, part |-> 0, doomed |-> {}, left |-> {}, whole |-> FALSE]
IdleWorker == Execution("idle", 1, FALSE, 0, CHOOSE c \in Configs : TRUE)
IdleRequest == [pc |-> "idle", attempt |-> 1]

Use(bound) ==
  /\ used.times[bound] < used.limit[bound]
  /\ used' = [used EXCEPT !.times[bound] = @ + 1]

\* A passage of a run: its place (document_id, ordinal is unique) and its digest.
Chunk(e, range, part) ==
  [range |-> range, part |-> part, config |-> e.config, run |-> e.run]
Passages(e, range) == {Chunk(e, range, part) : part \in 1..Batches[range]}
Taken(range, part) == \E c \in chunks : c.range = range /\ c.part = part

\* What a charge for a range is recorded under: the job's id and the digest.
Charge(e, purpose) ==
  [job |-> e.job, range |-> e.range, config |-> e.config, purpose |-> purpose]

Pending(e) == Ranges \ e.reusable
Ahead(e) == {r \in Pending(e) : r > e.range}

\* An UPDATE of the document: no row, no effect.
Updated(patched) == IF doc.there THEN patched ELSE doc

\* An UPDATE of the task of a run for a range: the row may have been replaced.
TaskSet(e, range, status) ==
  {IF t.run = e.run /\ t.range = range THEN [t EXCEPT !.status = status] ELSE t : t \in tasks}

Go(w, pc) == workers' = [workers EXCEPT ![w].pc = pc]

Init ==
  /\ \E case \in Cases, config \in Configs :
       /\ doc = [there |-> FALSE, status |-> "none", cancelRequested |-> FALSE, attempt |-> 1,
                 config |-> config,
                 file |-> [batches |-> case.batches, enriched |-> case.enriched,
                           summarised |-> case.summarised]]
       /\ used = [slots |-> case.slots, limit |-> case.limit, runs |-> 0,
                  times |-> [b \in Bounds |-> 0]]
  /\ jobs = [j \in JobIds |-> NewJob]
  /\ tasks = {}
  /\ chunks = {}
  /\ vectors = {}
  /\ usage = {}
  /\ workers = [w \in Workers |-> IdleWorker]
  /\ requests = [r \in Requests |-> IdleRequest]
  /\ torn = FALSE

-----------------------------------------------------------------------------
(* Requests.                                                               *)

\* uploadDocument: the row, then the job of the first attempt.
uploadDocument(r) ==
  /\ doc.status = "none"
  /\ requests[r] = IdleRequest
  /\ doc' = [doc EXCEPT !.there = TRUE, !.status = "pending"]
  /\ requests' = [requests EXCEPT ![r].pc = "enqueue"]
  /\ UNCHANGED <<jobs, tasks, chunks, vectors, usage, workers, torn, used>>

\* Adding an id the queue still keeps does nothing.
enqueueDocumentIngestion(r) ==
  /\ requests[r].pc = "enqueue"
  /\ jobs' = [jobs EXCEPT ![requests[r].attempt].state =
                IF @ = "none" THEN "waiting" ELSE @]
  /\ requests' = [requests EXCEPT ![r] = IdleRequest]
  /\ UNCHANGED <<doc, tasks, chunks, vectors, usage, workers, torn, used>>

\* reindexDocument: whatever the status, the attempt after the one it read.
reindexDocument(r) ==
  /\ Use("reindexes")
  /\ requests[r] = IdleRequest
  /\ doc.there
  /\ doc.attempt < MaxAttempts
  /\ requests' = [requests EXCEPT ![r] = [pc |-> "reopen", attempt |-> doc.attempt + 1]]
  /\ UNCHANGED <<doc, jobs, tasks, chunks, vectors, usage, workers, torn>>

Reopened(r, config) ==
  Updated([doc EXCEPT !.status = "pending", !.cancelRequested = FALSE,
                      !.attempt = requests[r].attempt, !.config = config])

reindexReopens(r, config) ==
  /\ requests[r].pc = "reopen"
  /\ IF config = doc.config THEN UNCHANGED used ELSE Use("settings")
  /\ doc' = Reopened(r, config)
  /\ requests' = [requests EXCEPT ![r].pc = "enqueue"]
  /\ UNCHANGED <<jobs, tasks, chunks, vectors, usage, workers, torn>>

\* updateBase: the settings the document inherits.
updateBase(config) ==
  /\ Use("settings")
  /\ doc.there /\ config # doc.config
  /\ doc' = [doc EXCEPT !.config = config]
  /\ UNCHANGED <<jobs, tasks, chunks, vectors, usage, workers, requests, torn>>

\* cancelDocument reads the status, then raises the flag.
cancelDocument(r) ==
  /\ Use("cancels")
  /\ requests[r] = IdleRequest
  /\ doc.there /\ doc.status \notin Over
  /\ requests' = [requests EXCEPT ![r].pc = "flag"]
  /\ UNCHANGED <<doc, jobs, tasks, chunks, vectors, usage, workers, torn>>

cancelFlags(r) ==
  /\ requests[r].pc = "flag"
  /\ doc' = Updated([doc EXCEPT !.cancelRequested = TRUE])
  /\ requests' = [requests EXCEPT ![r] = IdleRequest]
  /\ UNCHANGED <<jobs, tasks, chunks, vectors, usage, workers, torn, used>>

\* deleteDocument: the vectors, the passages, the row and what cascades from it.
deleteDocument(r) ==
  /\ Use("deletes")
  /\ requests[r] = IdleRequest
  /\ doc.there
  /\ requests' = [requests EXCEPT ![r].pc = "delete_vectors"]
  /\ UNCHANGED <<doc, jobs, tasks, chunks, vectors, usage, workers, torn>>

purgeVectors(r) ==
  /\ requests[r].pc = "delete_vectors"
  /\ vectors' = {}
  /\ requests' = [requests EXCEPT ![r].pc = "delete_chunks"]
  /\ UNCHANGED <<doc, jobs, tasks, chunks, usage, workers, torn, used>>

purgeChunks(r) ==
  /\ requests[r].pc = "delete_chunks"
  /\ chunks' = {}
  /\ requests' = [requests EXCEPT ![r].pc = "delete_row"]
  /\ UNCHANGED <<doc, jobs, tasks, vectors, usage, workers, torn, used>>

deleteRow(r) ==
  /\ requests[r].pc = "delete_row"
  /\ doc' = [doc EXCEPT !.there = FALSE]
  /\ tasks' = {}
  /\ chunks' = {}
  /\ requests' = [requests EXCEPT ![r] = IdleRequest]
  /\ UNCHANGED <<jobs, vectors, usage, workers, torn, used>>

\* The process of a request dies.
VanishRequest(r) ==
  /\ Use("vanished")
  /\ requests[r] # IdleRequest
  /\ requests' = [requests EXCEPT ![r] = IdleRequest]
  /\ UNCHANGED <<doc, jobs, tasks, chunks, vectors, usage, workers, torn>>

-----------------------------------------------------------------------------
(* The queue.                                                              *)

\* The first of the free slots: they are all alike.
Free(w) ==
  /\ w <= used.slots
  /\ workers[w] = IdleWorker
  /\ \A v \in 1..(w - 1) : workers[v] # IdleWorker

Release(job) == [jobs EXCEPT ![job].state = "done"]
GiveUp(job) == [jobs EXCEPT ![job].state = "failed"]
Thrown(job) ==
  IF jobs[job].thrown < MaxThrown
  THEN [jobs EXCEPT ![job].state = "waiting", ![job].thrown = @ + 1]
  ELSE GiveUp(job)
Stalled(job) ==
  IF jobs[job].stalled < MaxStalled
  THEN [jobs EXCEPT ![job].state = "waiting", ![job].stalled = @ + 1]
  ELSE GiveUp(job)

\* The job starts and reads the document; without one it throws.
pickUp(w, j) ==
  /\ Free(w)
  /\ jobs[j].state = "waiting"
  /\ IF doc.there
     THEN /\ used.runs < MaxRuns
          /\ used' = [used EXCEPT !.runs = @ + 1]
          /\ workers' = [workers EXCEPT ![w] =
               Execution("reading", j, TRUE, used.runs + 1, doc.config)]
          /\ jobs' = [jobs EXCEPT ![j].state = "active"]
     ELSE jobs' = Thrown(j) /\ UNCHANGED <<workers, used>>
  /\ UNCHANGED <<doc, tasks, chunks, vectors, usage, requests, torn>>

\* A prune that stops between the two stores leaves passages without vectors.
Tears(e) == e.pc \in {"unindex", "unlist"}

\* The worker dies, or an error that fail cannot write down leaves the job.
Crash(w) ==
  LET e == workers[w] IN
  /\ Use("crashes")
  /\ e.pc # "idle"
  /\ jobs' = IF e.holds THEN Stalled(e.job) ELSE jobs
  /\ workers' = [workers EXCEPT ![w] = IdleWorker]
  /\ torn' = (torn \/ Tears(e))
  /\ UNCHANGED <<doc, tasks, chunks, vectors, usage, requests>>

Throws(w) ==
  LET e == workers[w] IN
  /\ Use("failures")
  /\ e.pc \notin {"idle", "over"}
  /\ jobs' = IF e.holds THEN Thrown(e.job) ELSE jobs
  /\ workers' = [workers EXCEPT ![w] = IdleWorker]
  /\ torn' = (torn \/ Tears(e))
  /\ UNCHANGED <<doc, tasks, chunks, vectors, usage, requests>>

\* A worker that is alive fails to renew its lock.
Stall(w) ==
  /\ Use("stalls")
  /\ workers[w].pc # "idle" /\ workers[w].holds
  /\ jobs' = Stalled(workers[w].job)
  /\ workers' = [workers EXCEPT ![w].holds = FALSE]
  /\ UNCHANGED <<doc, tasks, chunks, vectors, usage, requests, torn>>

\* The job is done.
close(w) ==
  /\ workers[w].pc = "over"
  /\ jobs' = IF workers[w].holds THEN Release(workers[w].job) ELSE jobs
  /\ workers' = [workers EXCEPT ![w] = IdleWorker]
  /\ UNCHANGED <<doc, tasks, chunks, vectors, usage, requests, torn, used>>

-----------------------------------------------------------------------------
(* One execution: ingestDocument.                                          *)

\* Mutant: the failure is logged, and the row left as it is.
failDocument_OnlyLogs(w) ==
  /\ Go(w, "over")
  /\ torn' = (torn \/ Tears(workers[w]))
  /\ UNCHANGED <<doc, jobs, chunks, vectors, usage, requests>>

\* fail: the row says why, and the job ends well.
failDocument(w) ==
  /\ doc' = Updated([doc EXCEPT !.status = "failed"])
  /\ Go(w, "over")
  /\ torn' = (torn \/ Tears(workers[w]))
  /\ UNCHANGED <<jobs, chunks, vectors, usage, requests>>

Fails(w) ==
  /\ Use("failures")
  /\ workers[w].pc \notin {"idle", "over"}
  /\ failDocument(w)
  /\ UNCHANGED tasks

\* What the stores refuse: a row of a document that is gone, a place that is
\* taken.
Refused(e) ==
  \/ e.pc \in {"writing", "storing", "storing_summary"} /\ ~doc.there
  \/ e.pc = "storing" /\ Taken(e.range, e.part + 1)
  \/ e.pc = "storing_summary" /\ Taken(Summary, 1)

Breaks(w) ==
  /\ Refused(workers[w])
  /\ failDocument(w)
  /\ UNCHANGED <<tasks, used>>

begin(w) ==
  /\ workers[w].pc = "reading"
  /\ doc' = Updated([doc EXCEPT !.status = Working])
  /\ Go(w, "planning")
  /\ UNCHANGED <<jobs, tasks, chunks, vectors, usage, requests, torn, used>>

HasPassages(e, r) == \E c \in chunks : c.range = r /\ c.config = e.config

\* Mutant: passages of the digest are enough, whatever became of their task.
planTasks_TrustsPassages(w) ==
  LET e == workers[w] IN
  /\ e.pc = "planning"
  /\ workers' = [workers EXCEPT ![w] =
       [e EXCEPT !.pc = "pruning", !.reusable = {r \in Ranges : HasPassages(e, r)}]]
  /\ UNCHANGED <<doc, jobs, tasks, chunks, vectors, usage, requests, torn, used>>

\* planTasks: a range is reused when a settled task and some passage carry its
\* digest.
planTasks(w) ==
  LET e == workers[w]
      settled == {t.range : t \in {u \in tasks : u.config = e.config /\ u.status \in SettledTasks}}
  IN
  /\ e.pc = "planning"
  /\ workers' = [workers EXCEPT ![w] =
       [e EXCEPT !.pc = "pruning", !.reusable = {r \in settled : HasPassages(e, r)}]]
  /\ UNCHANGED <<doc, jobs, tasks, chunks, vectors, usage, requests, torn, used>>

\* Mutant: when anything is parsed again, everything goes.
Doomed_Everything(e) == IF Pending(e) = {} THEN {} ELSE chunks

\* What the plan does not reuse; summaries go when anything is parsed again.
Doomed(e) ==
  {c \in chunks : IF c.range = Summary THEN Pending(e) # {}
                  ELSE ~(c.range \in e.reusable /\ c.config = e.config)}

pruneReplacedChunks(w) ==
  LET e == workers[w]
      doomed == Doomed(e)
  IN
  /\ e.pc = "pruning"
  /\ workers' = [workers EXCEPT ![w] =
       [e EXCEPT !.pc = IF doomed = {} THEN "writing" ELSE "unindex",
                 !.doomed = doomed, !.left = doomed, !.whole = doomed = chunks]]
  /\ UNCHANGED <<doc, jobs, tasks, chunks, vectors, usage, requests, torn, used>>

\* The next batch of a deletion, or the whole document at once.
Batch(e, left) == IF e.whole THEN left ELSE {CHOOSE c \in left : TRUE}

\* deleteDocumentVectors, deleteChunkVectors.
deleteVectors(w) ==
  LET e == workers[w]
      left == e.left \ Batch(e, e.left)
  IN
  /\ e.pc = "unindex"
  /\ vectors' = IF e.whole THEN {} ELSE vectors \ Batch(e, e.left)
  /\ workers' = [workers EXCEPT ![w] =
       IF left = {} THEN [e EXCEPT !.pc = "unlist", !.left = e.doomed] ELSE [e EXCEPT !.left = left]]
  /\ UNCHANGED <<doc, jobs, tasks, chunks, usage, requests, torn, used>>

\* deleteChunksOfDocument, deleteChunksByIds.
deleteChunks(w) ==
  LET e == workers[w]
      left == e.left \ Batch(e, e.left)
  IN
  /\ e.pc = "unlist"
  /\ chunks' = IF e.whole THEN {} ELSE chunks \ Batch(e, e.left)
  /\ workers' = [workers EXCEPT ![w] =
       IF left = {} THEN [e EXCEPT !.pc = "writing", !.doomed = {}, !.left = {}, !.whole = FALSE]
       ELSE [e EXCEPT !.left = left]]
  /\ UNCHANGED <<doc, jobs, tasks, vectors, usage, requests, torn, used>>

\* writePlan: the tasks are replaced in one transaction.
writePlan(w) ==
  LET e == workers[w] IN
  /\ e.pc = "writing" /\ ~Refused(e)
  /\ tasks' = {[run |-> e.run, range |-> r, config |-> e.config,
                status |-> IF r \in e.reusable THEN "reused" ELSE "pending"] : r \in Ranges}
  /\ Go(w, "between")
  /\ UNCHANGED <<doc, jobs, chunks, vectors, usage, requests, torn, used>>

\* cancel: between two ranges, or before the summaries.
cancelled(w) ==
  LET e == workers[w] IN
  /\ e.pc = "between" /\ (Ahead(e) # {} \/ doc.file.summarised)
  /\ doc.there /\ doc.cancelRequested
  /\ doc' = [doc EXCEPT !.status = "cancelled", !.cancelRequested = FALSE]
  /\ Go(w, "over")
  /\ UNCHANGED <<jobs, tasks, chunks, vectors, usage, requests, torn, used>>

Stopped == doc.there /\ doc.cancelRequested

startTask(w) ==
  LET e == workers[w] IN
  /\ e.pc = "between" /\ ~Stopped
  /\ \E next \in Ahead(e) :
       /\ \A r \in Ahead(e) : next <= r
       /\ tasks' = TaskSet(e, next, "running")
       /\ workers' = [workers EXCEPT ![w] =
            [e EXCEPT !.pc = "parsing", !.range = next, !.part = 0]]
  /\ UNCHANGED <<doc, jobs, chunks, vectors, usage, requests, torn, used>>

\* The parser gives passages, or none, which settles the range.
parse(w) ==
  LET e == workers[w] IN
  /\ e.pc = "parsing"
  /\ IF Batches[e.range] = 0
     THEN tasks' = TaskSet(e, e.range, "done") /\ Go(w, "between")
     ELSE Go(w, IF doc.file.enriched THEN "enriching" ELSE "storing") /\ UNCHANGED tasks
  /\ doc' = Updated([doc EXCEPT !.status = Working])
  /\ UNCHANGED <<jobs, chunks, vectors, usage, requests, torn, used>>

\* A range that cannot be parsed says so before the document does.
parseFails(w) ==
  LET e == workers[w] IN
  /\ Use("failures")
  /\ e.pc = "parsing"
  /\ tasks' = TaskSet(e, e.range, "failed")
  /\ failDocument(w)

\* recordAndCharge, for what enrichChunks read and wrote; under the job's id and
\* the digest, and before anything of the range is stored.
enrich(w) ==
  LET e == workers[w] IN
  /\ e.pc = "enriching"
  /\ \/ usage' = usage \cup {Charge(e, "enrich")}
     \/ UNCHANGED usage
  /\ doc' = Updated([doc EXCEPT !.status = Working])
  /\ Go(w, "storing")
  /\ UNCHANGED <<jobs, tasks, chunks, vectors, requests, torn, used>>

\* insertChunks, batch by batch.
storeChunks(w) ==
  LET e == workers[w] IN
  /\ e.pc = "storing" /\ ~Refused(e)
  /\ chunks' = chunks \cup {Chunk(e, e.range, e.part + 1)}
  /\ workers' = [workers EXCEPT ![w] =
       [e EXCEPT !.part = e.part + 1,
                 !.pc = IF e.part + 1 = Batches[e.range] THEN "embedding" ELSE "storing"]]
  /\ doc' = Updated([doc EXCEPT !.status = Working])
  /\ UNCHANGED <<jobs, tasks, vectors, usage, requests, torn, used>>

\* upsertChunkVectors: Qdrant knows nothing of the rows.
embed(w) ==
  LET e == workers[w] IN
  /\ e.pc = "embedding"
  /\ vectors' = vectors \cup Passages(e, e.range)
  /\ Go(w, "charging")
  /\ UNCHANGED <<doc, jobs, tasks, chunks, usage, requests, torn, used>>

\* recordAndCharge, under the job's id and the digest (for the summaries, no
\* digest).
chargeEmbedding(w) ==
  LET e == workers[w] IN
  /\ e.pc = "charging"
  /\ usage' = usage \cup {Charge(e, "embed")}
  /\ Go(w, "settling")
  /\ UNCHANGED <<doc, jobs, tasks, chunks, vectors, requests, torn, used>>

settleTask(w) ==
  LET e == workers[w] IN
  /\ e.pc = "settling"
  /\ tasks' = TaskSet(e, e.range, "done")
  /\ doc' = Updated([doc EXCEPT !.status = Working])
  /\ Go(w, "between")
  /\ UNCHANGED <<jobs, chunks, vectors, usage, requests, torn, used>>

startSummaries(w) ==
  LET e == workers[w] IN
  /\ e.pc = "between" /\ Ahead(e) = {} /\ doc.file.summarised /\ ~Stopped
  /\ doc' = Updated([doc EXCEPT !.status = Working])
  /\ Go(w, "summarising")
  /\ UNCHANGED <<jobs, tasks, chunks, vectors, usage, requests, torn, used>>

\* Nothing was parsed again and there are summaries; or the tree has no node:
\* too few passages, no cluster, a stop.
skipSummaries(w) ==
  LET e == workers[w] IN
  /\ e.pc = "summarising"
  /\ Go(w, "ending")
  /\ UNCHANGED <<doc, jobs, tasks, chunks, vectors, usage, requests, torn, used>>

\* buildRaptorTree, from the passages that have a vector.
buildSummaries(w) ==
  LET e == workers[w] IN
  /\ e.pc = "summarising"
  /\ Pending(e) # {} \/ \A c \in chunks : c.range # Summary
  /\ \E c \in chunks : c.range # Summary /\ c \in vectors
  /\ Go(w, "storing_summary")
  /\ UNCHANGED <<doc, jobs, tasks, chunks, vectors, usage, requests, torn, used>>

storeSummary(w) ==
  LET e == workers[w] IN
  /\ e.pc = "storing_summary" /\ ~Refused(e)
  /\ chunks' = chunks \cup {Chunk(e, Summary, 1)}
  /\ Go(w, "embedding_summary")
  /\ UNCHANGED <<doc, jobs, tasks, vectors, usage, requests, torn, used>>

embedSummary(w) ==
  LET e == workers[w] IN
  /\ e.pc = "embedding_summary"
  /\ vectors' = vectors \cup {Chunk(e, Summary, 1)}
  /\ Go(w, "charging_summary")
  /\ UNCHANGED <<doc, jobs, tasks, chunks, usage, requests, torn, used>>

chargeSummary(w) ==
  LET e == workers[w] IN
  /\ e.pc = "charging_summary"
  /\ usage' = usage \cup {[job |-> e.job, range |-> Summary]}
  /\ Go(w, "ending")
  /\ UNCHANGED <<doc, jobs, tasks, chunks, vectors, requests, torn, used>>

endTasks(w) ==
  /\ workers[w].pc = "between" /\ Ahead(workers[w]) = {} /\ ~doc.file.summarised
  /\ Go(w, "ending")
  /\ UNCHANGED <<doc, jobs, tasks, chunks, vectors, usage, requests, torn, used>>

\* A document with passages is ready.
finish(w) ==
  /\ workers[w].pc = "ending" /\ chunks # {}
  /\ doc' = Updated([doc EXCEPT !.status = "ready"])
  /\ Go(w, "counting")
  /\ UNCHANGED <<jobs, tasks, chunks, vectors, usage, requests, torn, used>>

finishEmpty(w) ==
  /\ workers[w].pc = "ending" /\ chunks = {}
  /\ failDocument(w)
  /\ UNCHANGED <<tasks, used>>

\* refreshBaseCounts, and the event.
refreshCounts(w) ==
  /\ workers[w].pc = "counting"
  /\ Go(w, "over")
  /\ UNCHANGED <<doc, jobs, tasks, chunks, vectors, usage, requests, torn, used>>

-----------------------------------------------------------------------------
Handle(r) ==
  \/ enqueueDocumentIngestion(r) \/ cancelFlags(r)
  \/ purgeVectors(r) \/ purgeChunks(r) \/ deleteRow(r)
  \/ \E config \in Configs : reindexReopens(r, config)

Ask(r) == uploadDocument(r) \/ reindexDocument(r) \/ cancelDocument(r) \/ deleteDocument(r)

Plan(w) ==
  \/ begin(w) \/ planTasks(w) \/ pruneReplacedChunks(w) \/ deleteVectors(w)
  \/ deleteChunks(w) \/ writePlan(w)

RunTask(w) ==
  \/ startTask(w) \/ parse(w) \/ enrich(w) \/ storeChunks(w) \/ embed(w)
  \/ chargeEmbedding(w) \/ settleTask(w)

Summarise(w) ==
  \/ startSummaries(w) \/ skipSummaries(w) \/ buildSummaries(w) \/ storeSummary(w)
  \/ embedSummary(w) \/ chargeSummary(w)

Conclude(w) ==
  \/ cancelled(w) \/ endTasks(w) \/ finish(w) \/ finishEmpty(w) \/ refreshCounts(w)
  \/ close(w) \/ Breaks(w)

Ingest(w) == Plan(w) \/ RunTask(w) \/ Summarise(w) \/ Conclude(w)

GoesWrong(w) == Fails(w) \/ parseFails(w) \/ Throws(w) \/ Crash(w) \/ Stall(w)

Next ==
  \/ \E r \in Requests : Ask(r) \/ Handle(r) \/ VanishRequest(r)
  \/ \E w \in Workers :
       \/ Ingest(w) \/ GoesWrong(w)
       \/ \E j \in JobIds : pickUp(w, j)
  \/ \E config \in Configs : updateBase(config)

Spec == Init /\ [][Next]_vars

\* A request that started and an execution go on; a waiting job is taken once a
\* worker is free.
Fairness ==
  /\ \A r \in Requests : WF_vars(Handle(r))
  /\ \A w \in Workers : WF_vars(Ingest(w))
  /\ WF_vars(\E w \in Workers, j \in JobIds : pickUp(w, j))

FairSpec == Spec /\ Fairness

-----------------------------------------------------------------------------
(* Properties.                                                             *)

\* Types of the state.
TypeOK ==
  LET ChunkType == [range : Ranges \cup {Summary}, part : Nat \ {0}, config : Configs,
                    run : 1..MaxRuns]
  IN
  /\ doc \in [there : BOOLEAN, status : Statuses, cancelRequested : BOOLEAN,
              attempt : JobIds, config : Configs,
              file : {[batches |-> c.batches, enriched |-> c.enriched,
                       summarised |-> c.summarised] : c \in Cases}]
  /\ jobs \in [JobIds -> [state : {"none", "waiting", "active", "done", "failed"},
                          stalled : 0..MaxStalled, thrown : 0..MaxThrown]]
  /\ \A t \in tasks :
       t \in [run : 1..MaxRuns, range : Ranges, config : Configs,
              status : {"pending", "running", "done", "failed", "reused"}]
  /\ \A c \in chunks \cup vectors : c \in ChunkType
  /\ \A c, d \in chunks : c.range = d.range /\ c.part = d.part => c = d
  /\ \A u \in usage :
       u \in [job : JobIds, range : Ranges, config : Configs, purpose : Purposes]
               \cup [job : JobIds, range : {Summary}]
  /\ \A w \in Workers :
       /\ workers[w].job \in JobIds /\ workers[w].config \in Configs
       /\ workers[w].reusable \subseteq Ranges /\ workers[w].range \in Ranges \cup {0}
       /\ workers[w].left \subseteq workers[w].doomed
  /\ requests \in [Requests ->
       [pc : {"idle", "enqueue", "reopen", "flag", "delete_vectors", "delete_chunks",
              "delete_row"},
        attempt : JobIds]]

Happened(bound) == used.times[bound] > 0
OneAtATime == used.slots = 1

\* The passages of a range under the digest its task names are all there, and
\* all of them can be found by their vector.
Indexed(t) ==
  \E run \in 1..MaxRuns :
    \A part \in 1..Batches[t.range] :
      LET c == [range |-> t.range, part |-> part, config |-> t.config, run |-> run]
      IN  c \in chunks /\ c \in vectors

\* While one execution at a time indexes it, nobody deletes it and no prune was
\* cut in half, a document that says it is ready has every range of its plan in
\* both stores, and no passage of another plan (ingestion.service.ts: "equal
\* digests mean equal output"; "safe to run twice").
ReadyIsIndexed ==
  doc.status = "ready" /\ OneAtATime /\ ~Happened("deletes") /\ ~torn =>
    /\ {t.range : t \in tasks} = Ranges
    /\ \A t \in tasks : t.status \in SettledTasks /\ Indexed(t)
    /\ \A c \in chunks : c.range # Summary =>
         \E t \in tasks : t.range = c.range /\ t.config = c.config

\* While one execution at a time indexes it and nobody deletes it, no vector
\* outlives its passage: "an orphaned vector is retrievable and would be cited
\* with text that no longer exists" (ingestion.service.ts, pruneReplacedChunks).
VectorsHavePassages == OneAtATime /\ ~Happened("deletes") => vectors \subseteq chunks

\* The two stores agree with the document's plan and with each other: what is
\* ready can be found, and what can be found is there (ingestion.service.ts).
StoresAgree == TypeOK /\ ReadyIsIndexed /\ VectorsHavePassages

\* The embedding of a range is paid for when the range can be found, and not
\* before: "a range the customer cannot retrieve from is not a range they should
\* pay to have indexed" (ingestion.service.ts, runTask).  Its keywords and
\* questions are paid for earlier: EnrichedIsIndexed.
ChargedIsIndexed ==
  OneAtATime /\ ~Happened("deletes") =>
    \A u \in usage' \ usage :
      u.range # Summary /\ u.purpose = "embed" =>
        Indexed([range |-> u.range, config |-> u.config])

\* What a settled task stands for is not thrown away by an execution that wants
\* it: a retried job, and an index under the same settings, go on where the last
\* one stopped (ingestion.service.ts, planTasks).
PassagesAreKept ==
  OneAtATime /\ ~Happened("deletes") =>
    \A c \in chunks \ chunks' :
      (\E t \in tasks : t.range = c.range /\ t.config = c.config /\ t.status \in SettledTasks)
        => \E w \in Workers : workers[w].pc = "unlist" /\ workers[w].config # c.config

\* No step pays for the embedding of a range before both stores hold the range,
\* or throws away one that is settled
\* (ingestion.service.ts, planTasks and runTask).
SettledIsKept == [][ChargedIsIndexed /\ PassagesAreKept]_vars

\* The queue dropped a job of the document: it lost its worker once too often, or
\* threw on its last attempt.  Nothing tells the document.
GivenUp == \E j \in JobIds : jobs[j].state = "failed"

\* A document that waits or is worked on is decided, whatever its workers meet,
\* unless it is deleted or a request died, when requests come one at a time: two
\* that read the same attempt ask for the same job.  Where the queue gives a job
\* up the document stays as it is: no sweep looks for it (ingestion.jobs.ts).
QueuedIsDecided ==
  doc.status \in {"pending", Working} /\ Cardinality(Requests) = 1 ~>
    doc.status \in Over \/ ~doc.there \/ Happened("vanished") \/ GivenUp

\* A document that is ready can be found by everything it is made of: no
\* exception for a prune cut in half, and summaries count
\* (ingestion.service.ts: "every stage replaces rather than appends").
ReadyIsSearchable ==
  doc.status = "ready" /\ OneAtATime /\ ~Happened("deletes") => chunks \subseteq vectors

\* Stopping keeps the passages that are there: "The passages already written
\* stay" (knowledge.service.ts, cancelDocument).
CancelKeepsPassages ==
  [][doc.cancelRequested /\ ~Happened("deletes") => chunks \subseteq chunks']_vars

\* Nothing is paid for a range before it can be found: what ChargedIsIndexed says
\* of the embedding, said of every charge (ingestion.service.ts, runTask).
EnrichedIsIndexed ==
  [][OneAtATime /\ ~Happened("deletes") =>
       \A u \in usage' \ usage :
         u.range # Summary => Indexed([range |-> u.range, config |-> u.config])]_vars

\* A range that was embedded and paid for is not paid for again under the same
\* settings, "whether the second run is a retry or a deliberate re-index that
\* did not change that range" (ingestion.service.ts, IngestOptions).
RangePaidOnce ==
  ~Happened("settings") =>
    \A u, v \in {x \in usage : x.range # Summary} :
      u.range = v.range /\ u.purpose = v.purpose => u = v
=============================================================================
