---------------------------- MODULE MCIngestion ----------------------------
(* Instances of Ingestion for TLC. *)
EXTENDS Ingestion

CONSTANTS c1, c2, r1

Quiet == [b \in Bounds |-> 0]

File(batches, enriched, summarised, slots, limit) ==
  [batches |-> batches, enriched |-> enriched, summarised |-> summarised, slots |-> slots,
   limit |-> limit]

\* One range of two batches with keywords, and its summaries: workers die, the
\* settings change, the document is indexed again and stopped.
CrashCase ==
  File(<<2>>, TRUE, TRUE, 1,
       [Quiet EXCEPT !["crashes"] = 2, !["settings"] = 1, !["reindexes"] = 1, !["cancels"] = 1])

\* Two ranges: an error, and the settings change and change back.
RevertCase ==
  File(<<1, 1>>, FALSE, FALSE, 1,
       [Quiet EXCEPT !["failures"] = 1, !["settings"] = 2, !["reindexes"] = 1])

\* A range without text, deleted while it is indexed.
DeletedCase ==
  File(<<0, 1>>, FALSE, FALSE, 1,
       [Quiet EXCEPT !["failures"] = 1, !["reindexes"] = 1, !["deletes"] = 1, !["vanished"] = 1])

\* A file without text.
EmptyCase == File(<<0>>, FALSE, TRUE, 1, [Quiet EXCEPT !["reindexes"] = 1])

\* Two executions at once: a stalled worker, or indexed again while it runs.
TwiceCase ==
  File(<<1>>, FALSE, FALSE, 2,
       [Quiet EXCEPT !["stalls"] = 1, !["reindexes"] = 1])

\* One range with keywords, and more deaths and errors than the queue gives the
\* job attempts for: it gives up.
GivenUpCase ==
  File(<<1>>, TRUE, FALSE, 1,
       [Quiet EXCEPT !["failures"] = 3, !["crashes"] = 2, !["cancels"] = 1])

AllCases == {CrashCase, RevertCase, DeletedCase, EmptyCase, TwiceCase, GivenUpCase}

CrashCases == {CrashCase}
RevertCases == {RevertCase}
DeletedCases == {DeletedCase}
TwiceCases == {TwiceCase}
GivenUpCases == {GivenUpCase}
=============================================================================
