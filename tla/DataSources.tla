-------------------------------- MODULE DataSources ------------------------------
(***************************************************************************)
(* A workspace's connections to its databases and the queries saved on     *)
(* them (datasource.service.ts).  A query a model proposed is invisible to *)
(* every agent until a person approves it; a run names a query and the     *)
(* SQL on the row is what reaches the database.                            *)
(***************************************************************************)
EXTENDS Integers, FiniteSets

CONSTANTS Sources, Queries,  \* ids
          Dsns, Statements,
          Savers, Runs,
          MaxEdits,          \* bound: saves and removals
          None

VARIABLES source,   \* the data_source rows
          query,    \* the data_query rows
          saving,   \* saves in progress, with what each read
          reading,  \* the schema being read: source and DSN, or None
          proposed, \* statements a model has proposed
          reviewed, \* history: <<statement, source>> a person wrote or approved
          run,      \* where each run is: the query row it read, and whether its
                    \* source was found switched on
          executed, \* history: the last statement an agent ran, and where
          edits,
          crossed   \* history: a save overlapped another write of its row

dtsVars == <<source, query, saving, reading, proposed, reviewed, run, executed, edits,
             crossed>>

DataSourceRow == [dsn : Dsns, enabled : BOOLEAN, schema : Dsns \cup {None}]
DataQueryRow == [source : Sources, sql : Statements, approved : BOOLEAN,
                 origin : {"manual", "generated"}]
SourceSave == [of : Sources, found : DataSourceRow, dsn : Dsns \cup {None},
               enabled : BOOLEAN]

DtsTypeOK ==
  /\ source \in [Sources -> DataSourceRow \cup {None}]
  /\ query \in [Queries -> DataQueryRow \cup {None}]
  /\ saving \in [Savers -> SourceSave \cup {None}]
  /\ reading \in (Sources \X Dsns) \cup {None}
  /\ proposed \subseteq Statements /\ reviewed \subseteq Statements \X Sources
  /\ run \in [Runs -> [query : DataQueryRow, on : BOOLEAN] \cup {None}]
  /\ executed \in (Statements \X Sources) \cup {None}
  /\ edits \in 0 .. MaxEdits /\ crossed \in BOOLEAN

DtsInit ==
  /\ source \in [Sources -> [dsn : Dsns, enabled : {TRUE}, schema : {None}]]
  /\ \A a, b \in Sources : source[a] = source[b]
  /\ query = [q \in Queries |-> None] /\ saving = [s \in Savers |-> None]
  /\ reading = None /\ proposed = {} /\ reviewed = {}
  /\ run = [r \in Runs |-> None] /\ executed = None /\ edits = 0 /\ crossed = FALSE

Edit == edits < MaxEdits /\ edits' = edits + 1

--------------------------------------------------------------------------------
(* saveSource: the row is read ...                                         *)
BeginSaveSource(s, d, dsn, enabled) ==
  /\ saving[s] = None /\ source[d] # None /\ Edit
  /\ saving' = [saving EXCEPT ![s] =
       [of |-> d, found |-> source[d], dsn |-> dsn, enabled |-> enabled]]
  /\ UNCHANGED <<source, query, reading, proposed, reviewed, run, executed, crossed>>

(* A save without a DSN writes back the one it read; one with a DSN drops  *)
(* the schema.                                                             *)
SavedSource(save, row) ==
  [dsn |-> IF save.dsn = None THEN save.found.dsn ELSE save.dsn,
   enabled |-> save.enabled,
   schema |-> IF save.dsn # None \/ row = None THEN None ELSE row.schema]

(* ... and the whole row is written: one removed meanwhile is back.        *)
FinishSaveSource(s) ==
  /\ saving[s] # None /\ saving' = [saving EXCEPT ![s] = None]
  /\ LET save == saving[s] IN
     /\ source' = [source EXCEPT ![save.of] = SavedSource(save, @)]
     /\ crossed' = (crossed \/ reading # None \/ source[save.of] = None
                    \/ source[save.of] # save.found)
  /\ UNCHANGED <<query, reading, proposed, reviewed, run, executed, edits>>

(* removeSource: its queries go with it.                                   *)
RemoveSource(d) ==
  /\ source[d] # None /\ Edit /\ source' = [source EXCEPT ![d] = None]
  /\ query' = [q \in Queries |-> IF query[q] # None /\ query[q].source = d THEN None
                                 ELSE query[q]]
  /\ UNCHANGED <<saving, reading, proposed, reviewed, run, executed, crossed>>

(* refreshSchema: the schema is read over the DSN found on the row ...     *)
BeginRefreshSchema(d) ==
  /\ reading = None /\ source[d] # None /\ reading' = <<d, source[d].dsn>>
  /\ UNCHANGED <<source, query, saving, proposed, reviewed, run, executed, edits,
                 crossed>>

(* ... and written by id, if the database answered.                        *)
FinishRefreshSchema(answered) ==
  /\ reading # None /\ reading' = None
  /\ source' = IF answered /\ source[reading[1]] # None
                 THEN [source EXCEPT ![reading[1]].schema = reading[2]] ELSE source
  /\ UNCHANGED <<query, saving, proposed, reviewed, run, executed, edits, crossed>>

--------------------------------------------------------------------------------
(* generateQuery: a proposal for a screen, written nowhere.                *)
GenerateQuery(d, sql) ==
  /\ source[d] # None /\ source[d].schema # None /\ sql \notin proposed
  /\ proposed' = proposed \cup {sql}
  /\ UNCHANGED <<source, query, saving, reading, reviewed, run, executed, edits,
                 crossed>>

\* Mutant: an edited query keeps its approval.
Approving_Kept(q, origin, approve) ==
  origin = "manual" \/ approve \/ (query[q] # None /\ query[q].approved)

(* Writing a query by hand approves it; a proposal needs the word.         *)
Approving(q, origin, approve) == origin = "manual" \/ approve

SaveQuery(q, d, sql, origin, approve) ==
  /\ source[d] # None /\ Edit /\ (origin = "generated" => sql \in proposed)
  /\ LET approved == Approving(q, origin, approve) IN
     /\ query' = [query EXCEPT ![q] =
          [source |-> d, sql |-> sql, approved |-> approved, origin |-> origin]]
     /\ reviewed' = IF origin = "manual" \/ approve
                      THEN reviewed \cup {<<sql, d>>} ELSE reviewed
  /\ UNCHANGED <<source, saving, reading, proposed, run, executed, crossed>>

RemoveQuery(q) ==
  /\ query[q] # None /\ Edit /\ query' = [query EXCEPT ![q] = None]
  /\ UNCHANGED <<source, saving, reading, proposed, reviewed, run, executed, crossed>>

--------------------------------------------------------------------------------
(* findApprovedQueryByName, for the one name: any approved row that bears  *)
(* it, on any of the workspace's sources.                                  *)
Callable ==
  {query[q] : q \in {q \in Queries : IF query[q] = None THEN FALSE
                                     ELSE query[q].approved}}

(* runNamed reads the query, with its SQL ...                              *)
ReadQuery(r, row) ==
  /\ run[r] = None /\ row \in Callable
  /\ run' = [run EXCEPT ![r] = [query |-> row, on |-> FALSE]]
  /\ UNCHANGED <<source, query, saving, reading, proposed, reviewed, executed, edits,
                 crossed>>

(* ... then its source, which has to be there and on ...                   *)
RunNamed(r) ==
  /\ run[r] # None /\ ~run[r].on
  /\ LET found == source[run[r].query.source] IN
     run' = IF found = None THEN [run EXCEPT ![r] = None]
            ELSE IF found.enabled THEN [run EXCEPT ![r].on = TRUE]
            ELSE [run EXCEPT ![r] = None]
  /\ UNCHANGED <<source, query, saving, reading, proposed, reviewed, executed, edits,
                 crossed>>

(* ... and dryRun reads the source once more, on or off by now, and runs   *)
(* the statement over the DSN it finds.                                    *)
DryRun(r) ==
  /\ run[r] # None /\ run[r].on /\ run' = [run EXCEPT ![r] = None]
  /\ executed' = IF source[run[r].query.source] = None THEN executed
                 ELSE <<run[r].query.sql, run[r].query.source>>
  /\ UNCHANGED <<source, query, saving, reading, proposed, reviewed, edits, crossed>>

DtsNext ==
  \/ \E s \in Savers : FinishSaveSource(s)
  \/ \E s \in Savers, d \in Sources, dsn \in Dsns \cup {None}, enabled \in BOOLEAN :
       BeginSaveSource(s, d, dsn, enabled)
  \/ \E d \in Sources :
       RemoveSource(d) \/ BeginRefreshSchema(d) \/ \E sql \in Statements : GenerateQuery(d, sql)
  \/ \E answered \in BOOLEAN : FinishRefreshSchema(answered)
  \/ \E q \in Queries : RemoveQuery(q)
  \/ \E q \in Queries, d \in Sources, sql \in Statements, origin \in {"manual", "generated"},
        approve \in BOOLEAN :
       SaveQuery(q, d, sql, origin, approve)
  \/ \E r \in Runs : RunNamed(r) \/ DryRun(r) \/ \E row \in Callable : ReadQuery(r, row)

--------------------------------------------------------------------------------
(* A statement an agent ran was written or approved by a person, for the   *)
(* source it ran on; and a stored schema is the one of the row's DSN,      *)
(* unless a save overlapped another write of the row.                      *)
OnlyReviewedRuns ==
  /\ DtsTypeOK
  /\ executed # None => executed \in reviewed
  /\ \A d \in Sources :
       source[d] # None /\ ~crossed => source[d].schema \in {source[d].dsn, None}
================================================================================
