-------------------------------- MODULE McpServers -------------------------------
(***************************************************************************)
(* The MCP servers one workspace reaches under one slug: its own and the   *)
(* deployment's, the tool lists cached on their rows, and the runs that    *)
(* are offered tools and call them (mcp.service.ts, tools/index.ts).  A    *)
(* save, a discovery and a run each read a row and write or call later.    *)
(***************************************************************************)
EXTENDS Integers, FiniteSets

CONSTANTS Urls, Tools,
          Allowlists,  \* those an administrator picks from
          Advertises,  \* the tools a server at each URL names
          Savers, Checks, Runs,
          MaxSaves,    \* bound: saves that begin
          MaxAges,     \* bound: caches that pass CACHE_TTL_MS
          None

VARIABLES server,   \* the mcp_server rows, by who owns them
          inserted, \* rows inserted: the next id
          saving,   \* saves in progress, with the row each found
          checking, \* discoveries in progress, with the row each read
          offered,  \* tools each run was given, None before it asked
          posted,   \* history: the last call that reached a server, with its row
          saves, ages,
          stale     \* history: a discovery was overtaken by a save

mcpVars == <<server, inserted, saving, checking, offered, posted, saves, ages, stale>>

Owners == {"own", "platform"}

McpServerRow ==
  [id : Nat, url : Urls, enabled : BOOLEAN, allowed : SUBSET Tools,
   cache : SUBSET Tools, fresh : BOOLEAN]

Save == [owner : Owners, id : Nat, same : BOOLEAN, url : Urls, enabled : BOOLEAN,
         allowed : SUBSET Tools]
Discovery == [row : McpServerRow, for : Runs \cup {None}]

Posted == [to : Owners, owned : BOOLEAN, tool : Tools, enabled : BOOLEAN,
           allowed : SUBSET Tools]

McpTypeOK ==
  /\ server \in [Owners -> McpServerRow \cup {None}] /\ inserted \in Nat
  /\ saving \in [Savers -> Save \cup {None}]
  /\ checking \in [Checks -> Discovery \cup {None}]
  /\ offered \in [Runs -> (SUBSET Tools) \cup {None}]
  /\ posted \in Posted \cup {None}
  /\ saves \in 0 .. MaxSaves /\ ages \in 0 .. MaxAges /\ stale \in BOOLEAN

McpInit ==
  /\ server = [o \in Owners |-> None] /\ inserted = 0
  /\ saving = [s \in Savers |-> None] /\ checking = [k \in Checks |-> None]
  /\ offered = [r \in Runs |-> None] /\ posted = None
  /\ saves = 0 /\ ages = 0 /\ stale = FALSE

--------------------------------------------------------------------------------
(* save: the owner's row of this slug is looked up ...                     *)
BeginSave(s, o, url, enabled, allowed) ==
  /\ saving[s] = None /\ saves < MaxSaves /\ saves' = saves + 1
  /\ LET found == server[o] IN
     /\ saving' = [saving EXCEPT ![s] =
          [owner |-> o, id |-> IF found = None THEN inserted + 1 ELSE found.id,
           same |-> found # None /\ found.url = url, url |-> url,
           enabled |-> enabled, allowed |-> allowed]]
     /\ inserted' = IF found = None THEN inserted + 1 ELSE inserted
  /\ UNCHANGED <<server, checking, offered, posted, ages, stale>>

\* Mutant: a changed URL keeps the list of the old one.
Cached_Kept(row, save) == [cache |-> row.cache, fresh |-> row.fresh]

(* A changed URL empties what the old one advertised.                      *)
Cached(row, save) ==
  IF save.same THEN [cache |-> row.cache, fresh |-> row.fresh]
  ELSE [cache |-> {}, fresh |-> FALSE]

Fresh == [cache |-> {}, fresh |-> FALSE]

(* ... and written by id: an update if the row is there, else an insert,   *)
(* which the unique index refuses while the owner has another row.         *)
FinishSave(s) ==
  /\ saving[s] # None /\ saving' = [saving EXCEPT ![s] = None]
  /\ LET save == saving[s]
         row == server[save.owner]
         kept == IF row = None THEN Fresh ELSE Cached(row, save)
     IN
     /\ IF row # None /\ row.id # save.id THEN UNCHANGED server
        ELSE server' = [server EXCEPT ![save.owner] =
               [id |-> save.id, url |-> save.url, enabled |-> save.enabled,
                allowed |-> save.allowed, cache |-> kept.cache, fresh |-> kept.fresh]]
     /\ stale' = (stale \/ (\E k \in Checks : checking[k] # None)
                        \/ (row # None /\ save.same # (row.url = save.url)))
  /\ UNCHANGED <<inserted, checking, offered, posted, saves, ages>>

(* removeScoped for a workspace's own row, removePlatform for the other.   *)
RemoveServer(o) ==
  /\ server[o] # None /\ server' = [server EXCEPT ![o] = None]
  /\ UNCHANGED <<inserted, saving, checking, offered, posted, saves, ages, stale>>

--------------------------------------------------------------------------------
(* discover, asked for by a screen.                                        *)
BeginDiscover(k, o) ==
  /\ checking[k] = None /\ server[o] # None
  /\ checking' = [checking EXCEPT ![k] = [row |-> server[o], for |-> None]]
  /\ UNCHANGED <<server, inserted, saving, offered, posted, saves, ages, stale>>

(* The answer is written on the row with the id that was read, whatever    *)
(* its URL is by now; a run that asked works from it.                      *)
CacheTools(k) ==
  /\ checking[k] # None /\ checking' = [checking EXCEPT ![k] = None]
  /\ LET asked == checking[k]  tools == Advertises[asked.row.url] IN
     /\ server' = [o \in Owners |->
          IF server[o] # None /\ server[o].id = asked.row.id
            THEN [server[o] EXCEPT !.cache = tools, !.fresh = TRUE] ELSE server[o]]
     /\ offered' = IF asked.for = None THEN offered
                   ELSE [offered EXCEPT ![asked.for] = tools]
  /\ UNCHANGED <<inserted, saving, posted, saves, ages, stale>>

(* The server does not answer: a run keeps the list it read.               *)
DiscoverFails(k) ==
  /\ checking[k] # None /\ checking' = [checking EXCEPT ![k] = None]
  /\ offered' = IF checking[k].for = None THEN offered
                ELSE [offered EXCEPT ![checking[k].for] = checking[k].row.cache]
  /\ UNCHANGED <<server, inserted, saving, posted, saves, ages, stale>>

CacheAges(o) ==
  /\ server[o] # None /\ server[o].fresh /\ ages < MaxAges /\ ages' = ages + 1
  /\ server' = [server EXCEPT ![o].fresh = FALSE]
  /\ UNCHANGED <<inserted, saving, checking, offered, posted, saves, stale>>

--------------------------------------------------------------------------------
(* findBySlugForWorkspace: the workspace's own row wins.                   *)
Resolved == IF server["own"] # None THEN "own" ELSE "platform"

(* mcpToolsFor: nothing from a server that is missing or off, the cached   *)
(* list while it is fresh, and else what the server answers.               *)
ListTools(r, k) ==
  /\ offered[r] = None
  /\ ~ \E d \in Checks : checking[d] # None /\ checking[d].for = r
  /\ LET row == server[Resolved] IN
     \/ /\ IF row = None THEN TRUE ELSE ~row.enabled
        /\ offered' = [offered EXCEPT ![r] = {}] /\ UNCHANGED checking
     \/ /\ row # None /\ row.enabled /\ row.fresh
        /\ offered' = [offered EXCEPT ![r] = row.cache] /\ UNCHANGED checking
     \/ /\ row # None /\ row.enabled /\ ~row.fresh /\ checking[k] = None
        /\ checking' = [checking EXCEPT ![k] = [row |-> row, for |-> r]]
        /\ UNCHANGED offered
  /\ UNCHANGED <<server, inserted, saving, posted, saves, ages, stale>>

(* allows: an empty allowlist means every tool.                            *)
Allows(row, tool) == row.allowed = {} \/ tool \in row.allowed

(* call reads the row again: it has to be on and to allow the tool.        *)
MayCall(row, tool) == row # None /\ row.enabled /\ Allows(row, tool)

CallTool(r, tool) ==
  /\ offered[r] # None /\ tool \in offered[r] /\ MayCall(server[Resolved], tool)
  /\ posted' = [to |-> Resolved, owned |-> server["own"] # None, tool |-> tool,
                enabled |-> server[Resolved].enabled,
                allowed |-> server[Resolved].allowed]
  /\ UNCHANGED <<server, inserted, saving, checking, offered, saves, ages, stale>>

McpNext ==
  \/ \E s \in Savers, o \in Owners, url \in Urls, enabled \in BOOLEAN,
        allowed \in Allowlists :
       BeginSave(s, o, url, enabled, allowed)
  \/ \E s \in Savers : FinishSave(s)
  \/ \E o \in Owners : RemoveServer(o) \/ CacheAges(o)
  \/ \E k \in Checks :
       \/ CacheTools(k) \/ DiscoverFails(k)
       \/ (\E o \in Owners : BeginDiscover(k, o)) \/ (\E r \in Runs : ListTools(r, k))
  \/ \E r \in Runs, tool \in Tools : CallTool(r, tool)

--------------------------------------------------------------------------------
(* A cached list is one the row's own URL advertised, unless a discovery   *)
(* and a save overlapped.  A call that reached a server found it switched  *)
(* on, with the tool on its allowlist, and went to the workspace's own row *)
(* whenever it had one.                                                    *)
CallsTheRightServer ==
  /\ McpTypeOK
  /\ \A o \in Owners :
       server[o] # None /\ ~stale => server[o].cache \subseteq Advertises[server[o].url]
  /\ posted # None =>
       /\ posted.enabled /\ (posted.allowed = {} \/ posted.tool \in posted.allowed)
       /\ posted.owned => posted.to = "own"
================================================================================
