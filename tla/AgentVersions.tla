----------------------------- MODULE AgentVersions -----------------------------
(***************************************************************************)
(* One agent, its numbered versions and the runs that name them, under     *)
(* concurrent publishing, restoring, comparing and deleting                *)
(* (agent.service.ts).  A configuration is a member of Configs, some of    *)
(* which validation refuses.                                               *)
(***************************************************************************)
EXTENDS Integers, FiniteSets, Sequences

CONSTANTS Configs, Invalid, \* configurations, and those versionValues refuses
          Writers,          \* publish and restore requests
          Askers,           \* queueRun and compareVersions requests
          MaxVersions,      \* bound: versions of the agent
          None

VARIABLES agent,    \* the agent row, None when there is none
          version,  \* agent_version rows by number, the agent's own only
          writing,  \* what each writer has read and prepared
          asking,   \* what each asker has read
          runs,     \* agent_run rows: the version and what was read of it
          deleted   \* history: the agent was deleted

verVars == <<agent, version, writing, asking, runs, deleted>>

AgentStatus == {"draft", "active"}   \* and "archived", which is as "draft" here
AgentRow == [status : AgentStatus, currentVersion : 1 .. MaxVersions]
AgentVersionRow == Configs
AgentRunRow ==
  [agentVersion : 1 .. MaxVersions, config : Configs,
   trigger : {"manual", "comparison"}, queued : BOOLEAN, by : Askers]
Writing ==
  [stage : {"numbered", "inserted"}, config : Configs, next : 1 .. MaxVersions]

VerTypeOK ==
  /\ agent \in AgentRow \cup {None} /\ deleted \in BOOLEAN
  /\ version \in Seq(AgentVersionRow) /\ Len(version) <= MaxVersions
  /\ writing \in [Writers -> Writing \cup {None}]
  /\ \A a \in Askers : asking[a] = None \/ asking[a] \subseteq 1 .. MaxVersions
  /\ runs \subseteq AgentRunRow

VerInit ==
  /\ agent = None /\ version = <<>> /\ writing = [w \in Writers |-> None]
  /\ asking = [a \in Askers |-> None] /\ runs = {} /\ deleted = FALSE

--------------------------------------------------------------------------------
(* versionValues: the checks a configuration passes before it is a version.*)
VersionValues(config) == config \notin Invalid

(* create: the agent and its version 1 in one transaction.                 *)
CreateAgent(config) ==
  /\ agent = None /\ ~deleted /\ VersionValues(config)
  /\ agent' = [status |-> "draft", currentVersion |-> 1] /\ version' = <<config>>
  /\ UNCHANGED <<writing, asking, runs, deleted>>

UpdateAgent(status) ==
  /\ agent # None /\ agent' = [agent EXCEPT !.status = status]
  /\ UNCHANGED <<version, writing, asking, runs, deleted>>

(* remove: versions and runs go with the agent, once no open transaction   *)
(* holds a version of it.                                                  *)
RemoveAgent ==
  /\ ~\E w \in Writers : writing[w] # None /\ writing[w].stage = "inserted"
  /\ agent # None /\ agent' = None /\ version' = <<>> /\ runs' = {}
  /\ deleted' = TRUE /\ UNCHANGED <<writing, asking>>

--------------------------------------------------------------------------------
(* nextVersion, and versionValues inside the transaction, of an agent that *)
(* was found before; it may be gone when the number is inserted.           *)
NextVersion(w, config) ==
  /\ writing[w] = None /\ agent # None /\ Len(version) < MaxVersions
  /\ VersionValues(config)
  /\ writing' = [writing EXCEPT ![w] =
       [stage |-> "numbered", config |-> config, next |-> Len(version) + 1]]
  /\ UNCHANGED <<agent, version, asking, runs, deleted>>

PublishVersion(w, config) == NextVersion(w, config)

(* restoreVersion: an older version's configuration is published again.    *)
RestoreVersion(w, n) ==
  /\ agent # None /\ n \in DOMAIN version /\ n # agent.currentVersion
  /\ NextVersion(w, version[n])

(* A number another open transaction has inserted makes the insert wait.   *)
Waits(w) ==
  \E o \in Writers \ {w} :
    writing[o] # None /\ writing[o].stage = "inserted"
    /\ writing[o].next = writing[w].next

\* Mutant: without the unique index on (agent_id, version).
Unique_NoIndex(w) == TRUE

(* agentVersion_agentId_version_uidx.                                      *)
Unique(w) == writing[w].next \notin DOMAIN version

(* insertVersion: refused when the number is taken or the agent is gone.   *)
InsertVersion(w) ==
  /\ writing[w] # None /\ writing[w].stage = "numbered" /\ ~Waits(w)
  /\ writing' = IF agent # None /\ Unique(w)
                  THEN [writing EXCEPT ![w].stage = "inserted"]
                  ELSE [writing EXCEPT ![w] = None]
  /\ UNCHANGED <<agent, version, asking, runs, deleted>>

(* currentVersion follows, and the transaction commits.  The inserted row  *)
(* holds the agent's key, so the agent is not deleted in between.          *)
CommitVersion(w) ==
  /\ writing[w] # None /\ writing[w].stage = "inserted" /\ agent # None
  /\ version' = [i \in DOMAIN version \cup {writing[w].next} |->
                   IF i = writing[w].next THEN writing[w].config ELSE version[i]]
  /\ agent' = [agent EXCEPT !.currentVersion = writing[w].next]
  /\ writing' = [writing EXCEPT ![w] = None]
  /\ UNCHANGED <<asking, runs, deleted>>

RollBackVersion(w) ==
  /\ writing[w] # None /\ writing' = [writing EXCEPT ![w] = None]
  /\ UNCHANGED <<agent, version, asking, runs, deleted>>

--------------------------------------------------------------------------------
(* queueRun: an active agent's current version is read ...                 *)
QueueRun(a) ==
  /\ asking[a] = None /\ agent # None /\ agent.status = "active"
  /\ \A r \in runs : r.by # a
  /\ asking' = [asking EXCEPT ![a] = {agent.currentVersion}]
  /\ UNCHANGED <<agent, version, writing, runs, deleted>>

(* compareVersions: two versions or more, all of which exist.              *)
CompareVersions(a, ns) ==
  /\ asking[a] = None /\ agent # None /\ \A r \in runs : r.by # a
  /\ Cardinality(ns) > 1 /\ ns \subseteq DOMAIN version
  /\ asking' = [asking EXCEPT ![a] = ns]
  /\ UNCHANGED <<agent, version, writing, runs, deleted>>

Kind(a) == IF \E r \in runs : r.by = a /\ r.trigger = "comparison"
             THEN "comparison"
           ELSE IF Cardinality(asking[a]) > 1 THEN "comparison" ELSE "manual"

(* ... and a run that names the version is inserted, one after another.    *)
InsertRun(a, n) ==
  /\ asking[a] # None /\ n \in asking[a] /\ agent # None
  /\ \A r \in runs : r.by = a => r.queued
  /\ runs' = runs \cup {[agentVersion |-> n, config |-> version[n], queued |-> FALSE,
                         trigger |-> Kind(a), by |-> a]}
  /\ UNCHANGED <<agent, version, writing, asking, deleted>>

EnqueueRun(a, n) ==
  /\ asking[a] # None /\ n \in asking[a]
  /\ \E r \in runs :
       /\ r.by = a /\ r.agentVersion = n /\ ~r.queued
       /\ runs' = (runs \ {r}) \cup {[r EXCEPT !.queued = TRUE]}
  /\ asking' = [asking EXCEPT ![a] = IF @ = {n} THEN None ELSE @ \ {n}]
  /\ UNCHANGED <<agent, version, writing, deleted>>

(* The agent is gone, Redis refuses or the process dies: a comparison may  *)
(* be left with some of its runs, and a run without its job.               *)
AskerFails(a) ==
  /\ asking[a] # None /\ asking' = [asking EXCEPT ![a] = None]
  /\ UNCHANGED <<agent, version, writing, runs, deleted>>

VerNext ==
  \/ \E c \in Configs : CreateAgent(c)
  \/ \E s \in AgentStatus : UpdateAgent(s)
  \/ RemoveAgent
  \/ \E w \in Writers :
       \/ \E c \in Configs : PublishVersion(w, c)
       \/ \E n \in 1 .. MaxVersions : RestoreVersion(w, n)
       \/ InsertVersion(w) \/ CommitVersion(w) \/ RollBackVersion(w)
  \/ \E a \in Askers :
       \/ QueueRun(a) \/ AskerFails(a)
       \/ \E ns \in SUBSET (1 .. MaxVersions) : CompareVersions(a, ns)
       \/ \E n \in 1 .. MaxVersions : InsertRun(a, n) \/ EnqueueRun(a, n)

--------------------------------------------------------------------------------
(* However publishing, restoring and deleting overlap: the current version *)
(* is the newest, versions are numbered without gaps, only configurations  *)
(* that passed validation are versions, and a version a run names still    *)
(* holds what the run was queued with.                                     *)
VersionsHold ==
  /\ VerTypeOK
  /\ agent # None => agent.currentVersion = Len(version)
  /\ \A n \in DOMAIN version : version[n] \notin Invalid
  /\ \A r \in runs :
       r.agentVersion \in DOMAIN version /\ version[r.agentVersion] = r.config
================================================================================
