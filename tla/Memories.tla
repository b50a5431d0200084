--------------------------------- MODULE Memories ------------------------------
(***************************************************************************)
(* What one agent remembers, about the work or about a person: a row in    *)
(* Postgres and a point in the vector store, written one after the other   *)
(* by runs that overlap, recalled by a search of the points and a read of  *)
(* the rows, and evicted past a cap.  Memories are numbered in the order   *)
(* they are written.                                                       *)
(***************************************************************************)
EXTENDS Integers, FiniteSets

CONSTANTS Users, Facts,
          Embeddings,     \* embedding models
          Dimensions,     \* embedding model -> the width of its vectors
          Writers, Readers,
          MaxMemories,    \* bound: how many rows are ever written
          MaxPerScope,    \* MAX_MEMORIES_PER_SCOPE
          RecallLimit,    \* how many a recall returns
          Shared,         \* NULL in a row, "" in a payload: about the work
          None

VARIABLES account,        \* users that exist
          setting,        \* the workspace's embedding model
          memory,         \* rows, by number
          point,          \* points, by number
          recency,        \* pairs of rows, the one used longer ago first
          writer, reader,
          written,        \* how many rows were written
          wrote,          \* history: the rows as they were written
          cut             \* a writer died, or an account's memories became shared

memVars == <<account, setting, memory, point, recency, writer, reader, written, wrote, cut>>

Numbers == 1..MaxMemories
Scopes == Users \cup {Shared}
Idle == [at |-> "idle"]
AgentMemoryRow == [user : Scopes, fact : Facts, embedding : Embeddings]

MemInit ==
  /\ account = Users /\ setting \in Embeddings
  /\ memory = [n \in Numbers |-> None] /\ point = [n \in Numbers |-> None] /\ recency = {}
  /\ writer = [w \in Writers |-> Idle] /\ reader = [r \in Readers |-> Idle]
  /\ written = 0 /\ wrote = [n \in Numbers |-> None] /\ cut = FALSE

Held == {n \in Numbers : memory[n] # None}
(* The rows of one scope, as findIdentical, count and oldestUnused ask.    *)
InScope(scope) == {n \in Held : memory[n].user = scope}
(* touch: one update writes now() to all of them; a row that is gone stays *)
(* gone.                                                                   *)
Touched(ns) ==
  {p \in recency : p[1] \notin ns /\ p[2] \notin ns} \cup ((Held \ ns) \X (ns \cap Held))

--------------------------------------------------------------------------------
(* remember, up to the vector: what is remembered verbatim is touched and  *)
(* not written again.                                                      *)
Remember(w, scope, fact) ==
  /\ writer[w] = Idle /\ scope \in account \cup {Shared}
  /\ LET same == {n \in InScope(scope) : memory[n].fact = fact}
     IN  IF same # {}
           THEN \E n \in same : recency' = Touched({n}) /\ UNCHANGED writer
           ELSE /\ writer' = [writer EXCEPT ![w] = [at |-> "embedded", scope |-> scope,
                                fact |-> fact, embedding |-> setting]]
                /\ UNCHANGED recency
  /\ UNCHANGED <<account, setting, memory, point, reader, written, wrote, cut>>

(* The row; the person is a foreign key.                                   *)
InsertRow(w) ==
  LET n == written + 1
      entry == writer[w]
      row == [user |-> entry.scope, fact |-> entry.fact, embedding |-> entry.embedding]
  IN  /\ entry.at = "embedded"
      /\ IF entry.scope # Shared /\ entry.scope \notin account
           THEN /\ writer' = [writer EXCEPT ![w] = Idle]
                /\ UNCHANGED <<memory, recency, written, wrote>>
           ELSE /\ n \in Numbers /\ written' = n
                /\ memory' = [memory EXCEPT ![n] = row] /\ wrote' = [wrote EXCEPT ![n] = row]
                /\ recency' = recency \cup (Held \X {n})
                /\ writer' = [writer EXCEPT ![w] = [at |-> "inserted", scope |-> entry.scope,
                                embedding |-> entry.embedding, row |-> n]]
      /\ UNCHANGED <<account, setting, point, reader, cut>>

(* Then the point; where the store does not take it the call ends and the  *)
(* row stays, found again by the next identical fact and never recalled.   *)
UpsertPoint(w, stored) ==
  LET entry == writer[w]
  IN  /\ entry.at = "inserted"
      /\ IF stored
           THEN /\ point' = [point EXCEPT ![entry.row] = [user |-> entry.scope,
                               width |-> Dimensions[entry.embedding]]]
                /\ writer' = [writer EXCEPT ![w] = [at |-> "indexed", scope |-> entry.scope,
                                embedding |-> entry.embedding]]
                /\ UNCHANGED cut
           ELSE /\ writer' = [writer EXCEPT ![w] = Idle] /\ cut' = TRUE /\ UNCHANGED point
      /\ UNCHANGED <<account, setting, memory, recency, reader, written, wrote>>

(* enforceCap: the scope is counted, its least recently used are read,     *)
(* removed, and their points deleted where the store answers, in the       *)
(* collection of the width that was written.                               *)
CountScope(w) ==
  LET held == Cardinality(InScope(writer[w].scope))
  IN  /\ writer[w].at = "indexed"
      /\ writer' = [writer EXCEPT ![w] =
                      IF held <= MaxPerScope THEN Idle
                      ELSE [at |-> "counted", scope |-> @.scope, embedding |-> @.embedding,
                            excess |-> held - MaxPerScope]]
      /\ UNCHANGED <<account, setting, memory, point, recency, reader, written, wrote, cut>>

OldestUnused(scope, count) ==
  {rows \in SUBSET InScope(scope) :
     /\ Cardinality(rows) <= count
     /\ Cardinality(rows) = count \/ rows = InScope(scope)
     /\ \A n \in rows, m \in InScope(scope) : <<m, n>> \in recency => m \in rows}

ChooseEvicted(w) ==
  /\ writer[w].at = "counted"
  /\ \E rows \in OldestUnused(writer[w].scope, writer[w].excess) :
       writer' = [writer EXCEPT ![w] = [at |-> "evicting", embedding |-> @.embedding,
                    rows |-> rows]]
  /\ UNCHANGED <<account, setting, memory, point, recency, reader, written, wrote, cut>>

Evict(w, deleted) ==
  LET rows == writer[w].rows
  IN  /\ writer[w].at = "evicting"
      /\ memory' = [n \in Numbers |-> IF n \in rows THEN None ELSE memory[n]]
      /\ recency' = {p \in recency : p[1] \notin rows /\ p[2] \notin rows}
      /\ point' = [n \in Numbers |-> IF deleted /\ n \in rows /\ point[n] # None
                                      /\ point[n].width = Dimensions[writer[w].embedding]
                                   THEN None ELSE point[n]]
      /\ writer' = [writer EXCEPT ![w] = Idle]
      /\ UNCHANGED <<account, setting, reader, written, wrote, cut>>

CrashWriter(w) ==
  /\ writer[w] # Idle
  /\ writer' = [writer EXCEPT ![w] = Idle] /\ cut' = TRUE
  /\ UNCHANGED <<account, setting, memory, point, recency, reader, written, wrote>>

--------------------------------------------------------------------------------
(* Mutant: whose memory a point is, is asked of the row. *)
Theirs_Row(n, scopes) == memory[n] # None /\ memory[n].user \in scopes
(* searchMemories, the filter on a point's payload.                        *)
Theirs(n, scopes) == point[n].user \in scopes

(* recall: the points of a person's scopes in the collection of today's    *)
(* width, as many as asked, in whatever order their distance gives.        *)
Search(r, scope) ==
  LET found == {n \in Numbers : /\ point[n] # None
                                /\ point[n].width = Dimensions[setting]
                                /\ Theirs(n, {Shared, scope})}
  IN  /\ reader[r] = Idle /\ scope \in account \cup {Shared}
      /\ \E hits \in SUBSET found :
           /\ Cardinality(hits) <= RecallLimit /\ hits # {}
           /\ Cardinality(hits) = RecallLimit \/ hits = found
           /\ reader' = [reader EXCEPT ![r] = [at |-> "found", scope |-> scope, hits |-> hits,
                           embedding |-> setting]]
      /\ UNCHANGED <<account, setting, memory, point, recency, writer, written, wrote, cut>>

(* The rows: a hit whose row is gone, or of another width, is left out;    *)
(* what is recalled is touched.                                            *)
ReadRows(r) ==
  LET recalled == {n \in reader[r].hits : /\ memory[n] # None
                     /\ Dimensions[memory[n].embedding] = Dimensions[reader[r].embedding]}
  IN  /\ reader[r].at = "found"
      /\ recency' = Touched(recalled)
      /\ reader' = [reader EXCEPT ![r] = [at |-> "recalled", scope |-> @.scope,
                      embedding |-> @.embedding, rows |-> recalled]]
      /\ UNCHANGED <<account, setting, memory, point, writer, written, wrote, cut>>

EndRecall(r) ==
  /\ reader[r].at = "recalled" /\ reader' = [reader EXCEPT ![r] = Idle]
  /\ UNCHANGED <<account, setting, memory, point, recency, writer, written, wrote, cut>>

--------------------------------------------------------------------------------
(* An account is removed: its memories keep their rows, with no person on  *)
(* them; the payload of a point is not rewritten.                          *)
RemoveAccount(u) ==
  /\ u \in account /\ account' = account \ {u}
  /\ memory' = [n \in Numbers |-> IF n \in InScope(u) THEN [memory[n] EXCEPT !.user = Shared]
                                                      ELSE memory[n]]
  /\ cut' = (cut \/ InScope(u) # {})
  /\ UNCHANGED <<setting, point, recency, writer, reader, written, wrote>>

ChangeSetting(e) ==
  /\ e # setting /\ setting' = e
  /\ UNCHANGED <<account, memory, point, recency, writer, reader, written, wrote, cut>>

MemNext ==
  \/ \E w \in Writers, scope \in Scopes, fact \in Facts : Remember(w, scope, fact)
  \/ \E w \in Writers : InsertRow(w) \/ CountScope(w) \/ ChooseEvicted(w) \/ CrashWriter(w)
  \/ \E w \in Writers, done \in BOOLEAN : UpsertPoint(w, done) \/ Evict(w, done)
  \/ \E r \in Readers, scope \in Scopes : Search(r, scope)
  \/ \E r \in Readers : ReadRows(r) \/ EndRecall(r)
  \/ \E u \in Users : RemoveAccount(u)
  \/ \E e \in Embeddings : ChangeSetting(e)

MemSpec == MemInit /\ [][MemNext]_memVars

--------------------------------------------------------------------------------
MemTypeOK ==
  /\ account \subseteq Users /\ setting \in Embeddings /\ written \in 0..MaxMemories
  /\ Held \subseteq 1..written /\ recency \subseteq Held \X Held
  /\ \A n \in Held : memory[n].user \in Scopes /\ memory[n].fact \in Facts

(* Nothing a person told the agent about themselves is recalled for anyone *)
(* else: not while they are here, and not when their account is removed    *)
(* and their rows no longer name them.  What a recall gives is of the      *)
(* width it searched.  A row names whom it was written about, or nobody    *)
(* once they left; a point, however late, evicted or left behind, names    *)
(* them still, in the collection of its row's width.  Once every writer is *)
(* done the cap holds, unless one of them died after its row or an         *)
(* account's memories fell to the shared scope.                            *)
MemoriesStayInScope ==
  /\ MemTypeOK
  /\ \A n \in Held :
       \/ memory[n].user = wrote[n].user
       \/ memory[n].user = Shared /\ wrote[n].user \notin account
  /\ \A n \in Numbers : point[n] # None =>
       point[n] = [user |-> wrote[n].user, width |-> Dimensions[wrote[n].embedding]]
  /\ \A r \in Readers : reader[r].at = "recalled" =>
       \A n \in reader[r].rows :
         /\ wrote[n].user \in {Shared, reader[r].scope}
         /\ Dimensions[wrote[n].embedding] = Dimensions[reader[r].embedding]
  /\ (~cut /\ \A w \in Writers : writer[w] = Idle) =>
       \A scope \in Scopes : Cardinality(InScope(scope)) <= MaxPerScope

(* "A memory written under a different embedding model is skipped rather   *)
(* than compared" (memory.service.ts, recall).                             *)
OtherModelsAreSkipped ==
  \A r \in Readers : reader[r].at = "recalled" =>
    \A n \in reader[r].rows : wrote[n].embedding = reader[r].embedding
================================================================================
