# TLA+ models of ragenta-backend

This directory is the formal model of the backend in `src/`: TLA+ modules that
translate its state-changing code, TLC configurations that check them on small
instances, and TLAPS proofs of what holds for every instance. Paths below are
relative to the repository root; `modules/` abbreviates `src/modules/`.

Run `tlc -config <run>.cfg <module>` for a run of the table below and
`tlapm <module>.tla` for the proofs of `CreditLedgerProofs`, `AutoReloadProofs`,
`AgentRunProofs`, `IngestionProofs`, `AccessProofs`, `BusinessProofs` and
`ConnectionsProofs`.

## 1. The system

Two processes share one Postgres database, one Redis (BullMQ queues, permission
cache, rate-limit counters) and one Qdrant: the **API** (`src/main.api.ts`, a
Hono server) and the **worker** (`src/main.worker.ts`). The API answers
requests and enqueues jobs; the worker consumes four queues and runs four
schedules.

| queue | concurrency | attempts | what its jobs do |
|---|---|---|---|
| billing | 5 | 5 | refill scan and refills, auto-reload scan, nightly prune |
| ingestion | 2 | 3 | ingest one document |
| agent | 2 | 3 | execute one agent run; the scan of due triggers, every minute |
| webhook | 10 | 5 | deliver one event to one endpoint |

A job id is kept after completion for seven days (or a thousand jobs) and after
failure for thirty, and an `add` with a known id does nothing: ids are how the
code deduplicates. Nothing else orders the two processes. Postgres
transactions and row locks are the only mutual exclusion; everything that reads
in one statement and writes in another can interleave with everyone else.

### Inventory

| component (code) | state it keeps | operations | interacts with | hard part | what makes it correct |
|---|---|---|---|---|---|
| Credit ledger (`modules/billing/billing.service.ts`, `billing.repository.ts`) | `credit_balance`, `credit_transaction`, `subscription` | spend, grant, refill, provision, change plan | usage, Stripe, promo, admin, refill job | retries under one reference, overlapping refills, four-commit provisioning | never overdrawn, every rise has a row, one signup grant per person, no month skipped |
| Usage (`modules/usage`) | `usage_ledger` | record and charge | ledger | a refused charge after the provider was called | both ledgers or neither |
| Plans (`modules/billing/plans.ts`) | none (constants) | allowance, price, upgrade, top-up rules | every limit check | rounding, nulls meaning two things | plans grow along the catalogue; a custom top-up never beats a pack |
| Auto-reload (`modules/billing/autoreload.service.ts`) | lease, failure code, settings on `credit_balance` | scan, charge, settle | Stripe, webhooks, ledger | snapshot list, lease expiry, late and repeated webhooks | at most one charge per shortfall, settings respected, failure disables |
| Stripe (`modules/billing/stripe.service.ts`, `payments/`) | payment records, customer id | checkout, portal, webhook | ledger, auto-reload, subscription | repeated and out-of-order events | an event applied twice has the effect of once; the mirror converges |
| Promo codes (`modules/promo`) | `promo_code`, `promo_redemption` | create, activate, remove, redeem | ledger | concurrent redemptions at the limit | limit never exceeded, one redemption per workspace, credit iff redemption |
| Agent runs (`modules/agent/runner.ts`, `loop.ts`, `checkpoint.ts`, `agent.service.ts`, `graph/`) | `agent_run`, `agent_run_step`, checkpoint | start, execute, stop, resume, retry, answer a question | queue, ledger, tools, triggers | at-least-once jobs, crash between a charge and its checkpoint, stop racing the end | a finished run stays finished, no step charged twice, no run stuck |
| Ingestion (`modules/knowledge/ingestion.service.ts`) | document status, tasks, chunks, vectors | ingest, stop, re-ingest, delete | queue, Qdrant, ledger | two stores without a common transaction, stop racing completion | ready means every task's chunks are present; reuse never serves stale chunks |
| Triggers (`modules/trigger`) | `agent_trigger` | scan, fire, disable on failure | agent runs | claim by compare-and-set, crash after the claim | one run per occurrence, a failing trigger is disabled |
| Webhooks out (`modules/webhook`) | endpoints, deliveries | emit, deliver, retry, disable | queue | concurrent deliveries updating one counter | every delivery ends, failing endpoint disabled, a success resets it |
| Roles and permissions (`src/auth/permissions`, `modules/rbac`) | `member_role`, `user_platform_role`, `role_permission`, Redis permission cache | assign, revoke, compose a role, heal, ask | every request, Better Auth's hooks | a stale cache entry written after an invalidation; a built-in role written from a string read earlier | a revoked permission stops working; nobody gives what they never held; a superadmin remains |
| Workspaces and members (`modules/workspace`, `modules/project`, `src/auth`) | organization, members, invitations, projects | create, invite, accept, change, remove, leave | billing, RBAC | seats, limits and owners are counted and then used | an owner remains and limits hold, but for requests that overlap at the boundary |
| HTTP API (`src/api`, the modules' routers) | none | route, authenticate, authorise | all | two hand-written lists, 193 routes and a document of 188 operations | what the document says is what the guard asks |
| API keys (`modules/apikey`) | `api_key` | issue, use, revoke | RBAC, public API | the creator's permissions change | a key gives at most what its creator holds now |
| OAuth (`modules/oauth`) | `oauth_connection`, states and locks in Redis | authorise, refresh, disconnect | integrations, tools | concurrent refreshes of a rotating token, an answer that is lost | a connection is shown as what it is at the provider |
| Integrations, MCP (`modules/integration`, `modules/mcp`) | connections, servers, cached tool lists | save, remove, check, discover, call | tools | saves overtaking discoveries, names chosen by a model | a workspace's call reaches that workspace's service with its own key |
| Data sources (`modules/datasource`, `src/datasource`) | connections, schema snapshots, saved queries | connect, read the schema, propose, approve, run | agents | a query edited between offer and execution | an agent runs only SQL a person wrote or approved |
| Models and providers (`modules/provider`, `modules/model`, `src/ai`) | credentials, model rows, snapshots per process, plan access, defaults | connect, import, edit, check, choose | chat, agents, ingestion | two processes with snapshots of thirty seconds | a process lags by one TTL at most; a verdict is about the stored key |
| Tool loop (`modules/agent/runner.ts`, `tools/`) | conversation of one attempt | ask, call, wait, resume, bound | ledger, connections | a round paused in its middle | each round charged, each call executed once, each write approved |
| Chat (`modules/chat`) | conversations, messages, stop keys | ask, bind files, stream, stop, charge, store | retrieval, attachments, ledger | a stream dropped half way, charge after the answer | an answer stored is an answer charged, once |
| Retrieval and bases (`modules/knowledge`) | bases, passages, vectors, a conversation's set | search, fuse, rerank, edit the set, delete | chat, agents | four stores read one after another | scores of two embedding models never meet in one ranking |
| Attachments and speech (`modules/attachment`, `speech`) | rows, objects in the bucket | upload, remove, transcribe | chat, ledger | removal racing the send that claims the file | a file is in one message at most, and is seen only there |
| Memory (`modules/memory`) | rows and points | remember, evict, recall | agents | two stores, overlapping runs, an account removed | what a person told is recalled for that person only |
| Widget (`modules/widget`) | widget rows, counters in Redis | save, guard, ask | chat | the day's spending is read before the turn | spending passes the ceiling by the turns in flight at most |
| Audit, error log, admin, account, mail | append-only logs, users | record, prune, adjust, delete | all | best-effort writes | retention only removes what is old |
| Infrastructure (`src/api`, `src/db`, `src/queue`, `src/jobs`, `src/workers`, `src/redis`, `src/vector`, `src/storage`, `src/ai`, `src/config`) | queues, connections | route, enqueue, consume | all | at-least-once delivery | modelled as the environment of the components above |

## 2. Modules

```
Plans ----> PlanRules                                 the catalogue, walked by a customer
  +-------> CreditLedger -> MCCreditLedger            balance, ledger, usage, subscription, refill
  |              +--------> CreditLedgerProofs
  +-------> TopUps <------- AutoReload                buying credit from Stripe
          (abstract)             +------> AutoReloadProofs
            RunBill <------ AgentRun ---> MCAgentRun     one agent run, its queue and its bill
          (abstract)           +--------> AgentRunProofs
            Ingestion ----> MCIngestion                  one document, in Postgres and Qdrant
                  +-------> IngestionProofs

MCAccess        <- Workspaces, Permissions, PlatformRoles,          who may do what
 (-> AccessProofs) ApiRequests (-> PermissionCatalogue)
MCBusiness      <- PromoCodes, StripeSync, RefillSchedule,          what happens around
 (-> BusinessProofs) Triggers, Webhooks, AgentVersions,             runs and money
                   PlanRules
MCConnections   <- FlowEngine, ToolLoop,                            what a run executes
 (-> ConnectionsProofs)  OAuthConnections, McpServers, Integrations, and reaches
                   DataSources, ModelCatalogue
MCConversations <- ChatTurns (<- Attachments), Attachments,         what people say and
 (-> ConversationsProofs)  Retrieval, Memories, Widgets             what comes back
```

`TopUps` and `RunBill` are the abstract specifications: what buying credit and
what the numbering of a run's steps promise, without scans, leases, webhooks,
checkpoints or queues. `AutoReload` and `AgentRun` are shown to implement them
by a refinement mapping (`CreditedExactlyOnce`, `PaidArrives` and
`BilledInOrder` are the abstract specifications, as PROPERTY).

Components that write the same rows are one module or one extends the other:
`ChatTurns` extends `Attachments`, because a turn claims the rows an upload
made and a removal deletes; `ApiRequests` extends the catalogue of
permissions; `AutoReload` and `TopUps` share `Plans`. The four
modules `MCAccess` to `MCConversations` gather components that share no row two
of them write. A variable `part` is chosen at the start of a behaviour and says
which component moves in it: the product of independent components would
multiply the states and add no order of events that a property could tell
apart. A property of such a module says for each part what holds in it.

### Correspondence with the code

**Plans, PlanRules** (`modules/billing/plans.ts`). Constants and functions of
the file under their names; money is in whole dollars and credits, `null` is
`Null` (-1). PlanRules, a part of MCBusiness, walks every amount `billing.dto.ts` accepts for a custom
top-up and every number of seats up to thirty.

**CreditLedger** (`billing.service.ts`, `usage.service.ts`). `balance`,
`ledger`, `subscription`, `usage` are the tables of those names. A row's
reference is the record `[of, part]` instead of a string with a suffix,
because what matters about a reference is which two are equal. `spendWithin`
and `grantWithin` hold `SELECT ... FOR UPDATE` on the balance from their first
read to their commit: each is one action. A refusal rolls the transaction back
and is a disabled action. `refillPlanCredits` reads plan and seats before its
transaction, so it is four actions (`RefillReadsPlan`, `RefillReadsSeats`,
`RefillMovesClock`, `RefillPosts`), as many of it in flight as `Runners`;
`provisionWorkspace` commits four times and is four actions and `ProvisionAgain`.
`posted` is a history variable: the sum of the rows of each bucket, which
`PostedIsLedgerSum` checks against the rows.

**AutoReload** (`autoreload.service.ts`, `stripe.service.ts`). One statement,
transaction or Stripe call per action. `locked` is "the lease is in the
future", `LeaseExpires` the five minutes; a purchase is a Stripe object and
stays after the call that made it threw (`ChargeThrows`). A checkout may be
completed before its money is there (`CheckoutCompleted` "pending", then
`PaymentSettles`): the handler of its event does not read `payment_status`, so
that `Granting` is every completed checkout. The balance is one
number: the ledger's two buckets do not matter here.

**AgentRun** (`agent.service.ts`, `runner.ts`, `checkpoint.ts`,
`stop-signal.ts`, `agent.jobs.ts`). `row` is the `agent_run` row, `jobs` the
queue, `stopFlag` the Redis key, `attempts` the executions of `stream`,
`requests` those of `queueRun`, `retryRun` and `stopRun`, which await between
their statements. The version is chosen by Init and is a line of steps: the
number of provider calls a step makes is a choice from a set. Three merges are
deliberate: a charge and the step row it inserts are one action (nothing else
reads the step row), a round's tool charges are counted with the step behind
the round, and the text of an answer is left out, so that a finished flow may
have succeeded or, having said nothing, failed. A client that disconnects
aborts the provider call, which is `stepFails`. A Redis failure of the stop
check is not modelled. The queue is BullMQ's: a job whose processor throws is
retried (`attempts: 3`), one whose worker is lost is put back once
(`maxStalledCount` 1) and then dropped, a stalled worker goes on without its
lock (`Stall`), and a job id that is known is not added again. A job past either
limit is "failed" and nobody executes it again (`GiveUp`).

**FlowEngine** (`graph/engine.ts`, `checkpoint.ts`, loops in `graph/nodes.ts`).
One attempt runs at a time; `live` is its in-memory state, `saved` the
checkpoint. A node is its choice of targets, its success or its failure;
`Graphs` is the set of flows. The code's `reached` is a JavaScript Set, which
keeps the order of insertion: here it is a set and `before`, the order in which
its nodes were reached, by which the engine picks the first runnable node.
`validateGraph` refuses no cycles, so flows may have them. A node, and a loop's
body at an item, that throws is tried again as often as its policy says
(`retryNode`, `retryBody`: `execute`): that costs no budget, except that a loop
starts over and its items are counted again.

**Ingestion** (`ingestion.service.ts`, `knowledge.service.ts`,
`ingestion.jobs.ts`). `doc`, `chunks`, `tasks`, `usage` are the tables, `vectors`
Qdrant's points, `jobs` the queue by the attempt its ids name, `workers` the
executions of `ingestDocument`, `requests` those of upload, re-index, stop and
delete. Statements, requests to Qdrant and calls of the queue are one action
each. A digest is a range under a configuration; a passage of the model is a
batch of the code's, which inserts and deletes five hundred at a time, so that
a failure can fall between two. Four merges are deliberate: `progress` and
listings that only count are part of the statement next to them, the summary
tree is one summary, the statuses between "pending" and the end are one
("working"), and an event to a webhook cannot fail (`emit` catches). `usage`
holds what was charged and for what: keywords and questions (`enrich`), vectors
(`chargeEmbedding`), summaries. The queue is as for runs. `torn` is a history
variable: a prune stopped between Qdrant and Postgres.

**PermissionCatalogue, Permissions** (`auth/permissions/catalogue.ts`,
`rbac.service.ts`, `rbac.repository.ts`, `permission.service.ts`,
`apikey.service.ts`, the organization hooks of `auth.ts`). The catalogue is the
code's, key by key. `req` is what a request has read and not yet written; one
step is one statement, one transaction, one call of Redis (which may fail; the
code logs it) or one write of Better Auth. `granted`, `author` and `raced` are
history variables.

**PlatformRoles** (`rbac.service.ts`, `permission.service.ts`,
`break-glass.ts`): the same for the console's accounts, with the roles an
administrator composes and the accounts that need no row.

**Workspaces** (`workspace.service.ts`, `project.service.ts`, the guards of
`billing.service.ts`). `call` is what a request has counted and is about to do.
Agents stand for what is counted against a plan's limit; knowledge bases are
counted and created in the same way.

**ApiRequests** (the routers, `openapi.ts`, `api/middleware`).
Every route behind a session, a workspace, a key or the console with its guard,
and every operation of the API document with the access it states. A request is
a route and a caller; each guard is a step in the order `app.ts` mounts them.
Who may call is the constant `Callers`; that the two tables of routes agree row
by row is `TablesAgree`, an assumption without parameters that TLC evaluates in
full.

**PromoCodes** (`promo.service.ts`, `promo.repository.ts`). The row lock of a
redemption is `lock`; the row read under it is `redeeming`.

**StripeSync** (`stripe.service.ts`, `payment.repository.ts`): the objects at
Stripe, the events they made (any order, any number of times) and the mirror.
Customers are numbered as they are made; `payer` is the one Stripe bills and
`customerId` the one on the row, by which an invoice finds its workspace: without
it the event is answered and nothing recorded (`DropInvoice`). `latest`,
`reordered`, `dropped` and `crossed` are history variables.

**RefillSchedule** (`billing.jobs.ts`, `billing.processor.ts`, `queues.ts`):
the scan, the jobs by the month their id names, and the queue's clean-up.

**Triggers** (`trigger.service.ts`, `schedule.ts`): one schedule, the clock in
instants of its cron; a scan reads, claims by compare-and-set, inserts the run,
adds the job. **Webhooks** (`webhook.service.ts`, `webhook.jobs.ts`): one
endpoint; an attempt reads the row, posts, and writes the count it computed
from the row; a job whose worker dies once more than BullMQ allows has failed,
whatever attempts it had left. **AgentVersions** (`agent.service.ts`): a writer computes the next
number, inserts under the unique index, commits with the agent's row.

**OAuthConnections** (`oauth.service.ts`, `pkce.ts`): `provider` is the other
side (the tokens it honours, whether it rotates them); a caller reads the row,
takes the lock, reads again, exchanges, writes. The provider renews, says that
the token is none of its own, turns the refresh away for a reason of its own
(`TurnedAway`), or does not answer; the code takes all but the first for a
revocation. **McpServers**
(`mcp.service.ts`, `tools/index.ts`), **Integrations**
(`integration.service.ts`, `connection-scope.ts`) and **DataSources**
(`datasource.service.ts`): saves, removals, checks and runs each read a row and
write or call later; rows are kept by owner, so that a name chosen by a model
may be spelt like somebody else's id. **ModelCatalogue**
(`ai/catalogue.ts`, `provider.service.ts`, `model.service.ts`): `snapshot` and
`cached` are what each process holds for thirty seconds, of the models and of
the providers' keys, which no property relates.

**ToolLoop** (`runner.ts`, `loop.ts`, `tools/`): the conversation of one
attempt as a sequence of turns, calls and results; a call costs, waits for a
person or fails. The model's answer and its charge are two steps, so are a
call and its charge, and a charge may be refused or fail (`ChargeFails`), which
ends the loop with that one answer billed or not. `executed`, `costly`,
`approved` and `dropped` are history variables.

**Attachments, ChatTurns** (`attachment.service.ts`, `speech.service.ts`,
`chat.service.ts`): `file` are the rows, `object` the bucket; a turn goes from
"asked" over "built", "bound", "streaming" to "ended", and everything it awaits
is a step. Content is a kind and whether a transcript has words. A message is
known by its role and its turn, so that what a turn remembers of its
conversation is a set.
**Retrieval** (`retrieval.service.ts`, `knowledge.service.ts`,
`chat.service.ts`): scores are constants of a passage, so that every
normalisation, weight, cut and threshold is computed as the code does; passages
of equal score come in any order, as the sort may leave them.
A reranker answers with any places among the passages, repeated or left out.
**Memories** (`memory.service.ts`): `memory` the rows, `point` the vectors,
`recency` the pairs of rows of which one was used longer ago: rows touched by one
statement have the same instant. `wrote` is a history variable, the rows as they
were written. **Widgets** (`widget.service.ts`,
`widget-guard.ts`): `spent` is what the day's runs charged to their steps, by
widget, which is what the ceiling is compared with, `spoken` what they charged as
speech, which is not, and `rate` the Redis counter of one visitor.

## 3. Runs

| run | what it asks | what it shows |
|---|---|---|
| ledger | does the balance survive retries, overlapping refills, plan changes and months? | never overdrawn, covered by rows, both ledgers agree, no month lost or given twice |
| autoreload | is what was bought credited, exactly once? | yes, as a refinement of TopUps, a checkout whose payment is still to come included; a failed charge leaves auto-reload off |
| autoreload_live | does it arrive, and is a low workspace attended to? | yes, if scans run and Stripe repeats its events |
| run_bill | are references billed in order and once? | yes, as a refinement of RunBill, with a crash, a stalled worker, a stop and a retry |
| run_life | what may never happen to a run, and does it end? | ceiling, credits, questions, approvals and outcomes hold; a queued run ends, until somebody retries it, unless the queue gives its job up |
| ingestion | is a document that says it is ready indexed, in both stores? | yes, its passages, through deaths, errors, changed settings and re-indexing, while one execution at a time works on it; nothing settled is repeated, no embedding is paid for too soon, and a queued document is decided unless the queue gives its job up |
| access | who may be in a workspace, what may each do, and what does every route ask? | limits and the last owner hold but for overlapping requests; roles and keys give what their author held; every route asks what the document says; caches agree with the tables in the end |
| business | do codes, events, schedules, webhooks, versions and prices keep their promises? | a code's limit and its credit agree, a mirrored paid plan has its credits, an instant fires once, an endpoint is switched off for cause, versions are numbered without gaps, no custom amount beats a pack, and what is due is settled |
| connections | does a run do what its flow says, and reach what its workspace means? | flows without a cycle and tool loops finish what they began, within one budget, and each round and call is charged once unless a charge fails; connections, servers, keys and queries are those meant, and a process lags the catalogue by one TTL |
| conversations | is an answer charged once, from files, passages and memories it may use? | yes, through refusals, stops, broken streams and crashes; the steps of visitors' turns pass a widget's ceiling by the turns in flight at most |
| double_bill | autoreload.service.ts:102 | violated: two ticks charge one shortfall twice |
| unheard_recording | chat.service.ts:519 | violated: the model answers about a recording whose transcript it was not given |

The runs of MCAccess, MCBusiness, MCConnections and MCConversations say
CHECK_DEADLOCK FALSE, as do those of MCAgentRun and MCIngestion: each of their
stories may come to its end (a bound is reached, a document is deleted, a code
is gone), and nothing is left to do. Deadlock is checked in the ledger and in
auto-reload, where a charge can always be retried and a scan always started.

### Bounds, and why they are enough

* **ledger**: one workspace (no statement touches two), one reference at
  prices 15,000 and 505,000 (less than a bucket, and more than the trial and a
  top-up together, so that all splits between buckets occur; a price that rounds
  to nothing is covered by the theorem `LedgersAgree`), up to two seats, two
  refills in flight (the code has three callers; what two can do to each other a
  third only repeats), two months (one turn; a third adds turns of the same kind).
* **autoreload, autoreload_live**: two scans (one in the live run), two handlers, two purchases, two changes of settings, one
  crash, one redelivery, one delayed payment; a spend takes the opening balance
  below the threshold.
* **run_bill, run_life**: one run (runs share nothing but the ledger), two
  attempts, three steps of one or two calls, and a limit for every kind of
  event, by case. Each case is a story; a limit of one or two lets every pair
  of events meet in both orders. The unattended case has two deaths and three
  failures, one more of each than the queue repeats a job for.
* **ingestion**: one document (documents share nothing but the ledger), six
  cases with a limit for every kind of event: one range of two batches (an
  insert can be half done), two ranges (one is reused while the other is
  not), two settings and back, a file with no text, two executions, and two deaths
  with three errors, one more of each than the queue repeats a job for. Four
  executions and two attempts of the document are never exceeded in them.
  Requests come one at a time.
* **access**: two members (one who loses a role while the other composes one),
  one custom role, one key, two requests in flight, two permissions, two
  administrative changes; four people and limits of one and two seats, so that a
  limit is met with a member and with an invitation; three console accounts, one
  built-in superadmin among them and one who needs no row; all 193 routes and
  every kind of caller (`MCCallers`).
* **business**: a code with a limit of one, of two or none, three redemptions by
  two workspaces; two events at Stripe and two handlers; two workspaces over two
  months, two failed attempts; two overlapping scans of one schedule and one lost
  worker; two deliveries with two attempts each and two deaths, one more than the queue
  gives a job back for; two writers over three
  versions; all 1,991 amounts of a custom top-up and thirty seats.
* **connections**: every acyclic flow of four nodes (the fewest with a diamond,
  two branches and a join), a loop, and two nodes that wait for each other; a
  budget of five executions (the code's is 50) so that it is met; two failed attempts,
  and a policy that tries again once; a tool loop of two rounds of two calls, resumed once;
  two callers and two tokens that rotate; two owners, sources and processes, and
  two saves, edits or writes: one to be overtaken and one to overtake it.
* **conversations**: one conversation, two questions (one is the other's
  history), two files of which the first is an image, a history of one turn and
  room for one image; two bases with one passage each, the one nearer in
  meaning, the other in words, two embedding models, and an answer of up to two
  passages, so that a reranker can name one twice; two people, of whom one stays,
  one fact, two memories and a cap of one; visitors of one widget with a ceiling
  of one turn's cost, two requests, and up to two credits of speech a day; and,
  nobody visiting, two widgets with two names through three saves. Symmetry
  exchanges writers, visitors and people, whose names nothing compares.

### Fairness

`autoreload_live`: the scheduler repeats the scan every five minutes and a
worker that started a scan goes on (WF on the steps of each scan); leases do
expire (time passes); Stripe repeats an event until it is answered (WF on the
delivery, and handlers go on). Crashes, card declines and customers are not
fair. `run_life`: a request that started and an attempt that runs go on; BullMQ
hands a waiting job to a free worker (WF on `pickUp`). `ingestion`: the same, for requests, executions and
waiting jobs. `access`: a request that has begun goes on, and Redis drops a key
when its time is up. `business`: the hourly scan runs and enqueues, its jobs are
worked on, the queue removes old jobs (`removeOnComplete`, `removeOnFail`); the
scan of triggers runs; the workers of the webhook queue take waiting jobs.
Nobody has to send a request, change a row, or use a connection: people,
failures and crashes are not fair anywhere. All of it is weak fairness: no
action of these processes is switched on and off for ever by others.

## 4. Proofs

Eight modules hold proofs, each for all values of the constants. TLC checked every
inductive invariant below on the instance of its component's run before it was
proved.

| theorem | says |
|---|---|
| **CreditLedgerProofs** | for all workspaces, users, references, prices, grants, refills in flight and months |
| TypeCorrect | `TypeOK` |
| BalanceBacked | no bucket is negative or above the sum of its rows |
| PostedIsTheLedger | what `posted` records is the sum of the ledger's rows |
| ClockNeverAhead | the refill clock is at most the start of the next month |
| OneTrialPerUser | at most one signup grant per user |
| LedgersAgree | priced usage rows and deductions exist together |
| TopupSpentLast | a step that takes top-up credit leaves the plan bucket empty |
| CreditOnlyByPosting | a bucket rises only with a new row that credits as much |
| RefillIsNotRepeated | a refill that finds the month's row leaves every bucket as it is |
| **AutoReloadProofs** | for all workspaces, overlapping scans, webhook handlers, purchases, packs, thresholds and bounds |
| AutoReloadTyped | `TypeOK` |
| CreditedBeforeRecorded | what is recorded or answered is credited, and what is credited is a charge that succeeded or a checkout reported complete |
| FailedStaysOff | a workspace whose last charge failed stays off until it is switched on again |
| ImplementsTopUps | every behaviour is one of `TopUps`: bought once, credited once, in full, to the buyer |
| **AgentRunProofs** | for all agent versions, attempts, requests, and limits of failures, deaths, stalled jobs, stops, retries and answers |
| RunTyped | `TypeOK` |
| WritesNeedApproval | nothing behind a question is billed before an answer, and each answer executes one write at most |
| BudgetsAreKept | credits kept were billed; one attempt at a time: all that was billed is kept unless an attempt died, and the bill passes the ceiling by one step of each attempt at most |
| SuccessIsComplete | one attempt at a time: a flow that succeeded got to its end |
| EndedRunStays | one attempt at a time, no stop, one retry at most: what ended changes only by that retry |
| RunsAreBilledInOrder | every behaviour is one of `RunBill`, for every flow whose steps make known numbers of calls that do not fail: the calls of the flow are billed in order, each once |
| **IngestionProofs** | for all workers, jobs, requests, ranges, batches, configurations and limits of failures, deaths and re-indexings |
| IngestionTyped | the rows, the queue, the executions and the requests are what the code takes them for |
| IngestionStoresAgree | one execution at a time, nobody deletes: a ready document has its plan's passages in Postgres and in Qdrant, and no vector outlives its passage |
| IngestionSettledIsKept | no step charges for the embedding of a range that cannot be found, or throws away a settled range that the execution wants |
| **AccessProofs** | for all people, members, accounts, roles, keys, requests, callers, plans and limits |
| AccessMembershipHolds | an owner and a superadmin remain, and a plan is passed by the overlapping requests at most |
| AccessOneBuiltInRole | a membership holds the built-in role its string names, but for overlapping writers |
| AccessGiveOnlyWhatWasHeld | no role and no API key gives what its author never held |
| AccessRoutesAreGuarded | a route lets through who holds what the API document says, and nobody else |
| **ConnectionsProofs** | for all flows, tool loops, processes, people, authorizations, owners, saves, checks, runs, URLs, tools, allowlists, queries and bounds |
| ConnectionsTellTheTruth | while no two refreshes crossed and no answer was lost, an active connection can still be renewed unless its grant was withdrawn, and a revoked one is dead at its provider unless a refresh was turned away for another reason |
| ConnectionsReachTheRightService | a run calls the MCP server, and uses the key, that its workspace means |
| ConnectionsOnlyReviewedRuns | an agent executes what a person wrote or approved, where they approved it |
| ConnectionsCatalogueKeepsUp | a process lags the catalogue by one expiry at most, and a verdict is about the stored key |
| FlowsAreCarriedOut | a flow without a cycle that finishes has run all it reached; its attempts share one budget, but for what deaths hide and the retries of `onError`, three to an execution; a tool loop charges each round and each priced call once, but for one at most when its charge fails, executes each call at most once, a write on its own yes, and answers it behind the turn that made it |
| SettledNodesStaySettled | no attempt and no retry runs a node again that the checkpoint has settled |
| **BusinessProofs** | for all workspaces, requests, handlers, scans, deliveries, writers, configurations, months, seats and bounds |
| CodesHonoured | limit, count, redemptions and credit of a code agree |
| MoneyMatched | once Stripe's events were answered, in order, the rows say what Stripe says and the month is granted; one customer and no invoice lost but for overlapping checkouts; who was refilled is not due again |
| FiresOnceStopsForCause | an instant is claimed once but for a late refusal, and no claim is forgotten; a delivery that failed used its attempts or lost its worker once too often; an endpoint is switched off for as many failures as the limit, but for overlapping attempts |
| VersionsAreHeld | versions are numbered without gaps, and a run's version holds what the run was queued with |
| PricesStaySafe | no credit unpaid for, no custom amount below a pack, the cheapest upgrade named, nothing lost by upgrading, at any number of seats |
| **ConversationsProofs** | for all conversations, turns, files, writers, memories, readers, widgets, visitors, bases, passages, scores and bounds |
| WidgetsStayBounded | the steps of a day's turns pass its ceiling by the turns in flight at most, an hour its limit not at all, and a widget keeps a key no other has |
| MemoriesStay | a memory is recalled for whom it was written about and at the width searched, also after that person left; and a scope comes back to its cap unless a writer died or an account left |
| TurnsAccountedFor | an answer is stored once, after all that its making spent was charged |
| FilesGoWhereSent | a question keeps its files, and the model sees at most the cap of images, of this conversation |
| RetrievalStaysSound | fused scores stay on their scale, two embedding models never meet in a ranking, and an answer rests on passages that exist |

They assume only the named ASSUMEs of the modules (prices are naturals, grants
are well formed, plans and statuses are those of the code, limits are positive
or none), which TLC evaluates. One theorem has a hypothesis of its own:
`RunsAreBilledInOrder` is about the constants for which `RunBill` has a bill to
compare with (`FlowIsFixed`), as those of the run run_bill are.

*CreditLedger.* `TypeOK` is inductive, by one lemma on each of `GrantWithin` and
`SpendWithin` and a case per action. `BackedByLedger` is inductive next to it:
a spend takes from a bucket no more than its row posts, even when one of its
two inserts conflicts, and a grant raises bucket and sum together.
`NeverSkipsAMonth` is not inductive: a refill moves the clock to the month
after the one it was *called* in, so the strengthening `CalledInThePast` says
that no refill in flight was called in the future. `SignupGrantOncePerUser`
needs that references are unique (`UniqueReferences`) and that a signup row's
reference is its creator's (`SignupReferences`). `LedgersAgree` rests on
`SpendDeducts`: a spend that is not refused leaves a deduction under its
reference. `PostedIsLedgerSum`, that `posted` is the sum of the rows, is inductive next to
`BackedByLedger` and a finite ledger: each grant inserts one row that the unique
index says is new, each spend at most one per bucket. What is summed is the
library's fold over a set, a recursive function: that it exists for every
finite set is an induction over the number of rows, done with a set of numbers
in place of the predicate (`Counted`, from the well-foundedness of <); that the
sum does not depend on the order in which rows are taken is `SumWithout`.
`RepeatedRefillKeepsBalance` is about a step: a refill that finds its reference
in the ledger posts nothing, and the reference of its month is the one it looks
for (`RepeatMoves`). `OneTrialPerUser`, `TopupSpentLast` and
`CreditOnlyByPosting` are proved and not run.

*AutoReload.* `PaidIsCredited` speaks of rows and answers; a handler between its
commits has neither. The inductive invariant adds to it what a handler in
progress knows: its purchase was made (`KnownToStripe`), is one its event
grants, and past its first commit it is credited (`Committed`); a payment that
settles late changes neither (`Kept`). `FailedMeansOff`
is inductive next to types: a decline writes its code and switches off in one
update, and switching on clears the code in one update. For the refinement each action maps to
a purchase being made, being credited, or a stutter; the case that matters is
the grant, which credits only a purchase that has no row under its reference.

*AgentRun.* `TypeOK` needs that an execution in a step has one, and that one that
closes knows how it ended (`Executions`). `WritesAreApproved` counts writes; what
is inductive is that the writes and the answers still held (`Tickets`) are
together no more than the answers given, and that the checkpoint of a tool loop
holds none, which is why no retry or second worker executes a write on an old
answer. `AskedFirst` rests on `Passed` and `Saved`: an execution or a checkpoint
behind the question is there because somebody answered. `SucceededIsComplete`
and `EndedUntilRetried` rest on one invariant, `Lone`: with one attempt at a
time, a run that succeeded, or that ended and nobody stopped, has no attempt
that can still write to it, and the one retry under way still sees the status
it read. `BudgetsHold` needs a meter for the attempt that runs (`Books`,
`Metered`): an attempt starts with the credits its checkpoint keeps, which lag
behind the bill by one step (`LargestStep`) of each earlier attempt at most
(`Past`); a step starts only while credits are below the ceiling, or before the
attempt was charged for anything. That a finite set of numbers has a largest, on
which `LargestStep` rests, is proved from the well-foundedness of < (`Largest`).
For the refinement of `RunBill` a reference's number is tied to the flow: the
number of a call is how many calls come before it (`Number`), and an attempt, or
the checkpoint, that has made k calls of its step goes by the number of calls up
to there (`Rank`). The inductive invariant (`InOrder`) says that the references
billed are the first numbers, each for the call that has it, and that no attempt
and no checkpoint is ahead of the bill (`OnCourse`). So a charge is either under
a number that was billed, for the same call, and changes nothing, or under the
next one, which is what `RunBill` pays. A step that fails is outside it: its calls
were billed and its repeat takes other numbers (`ReplayedWorkIsFree`, section 7).

*Ingestion.* What the stores hold is known of an execution that is alone and
whose document stays: `Inv` says so (`Alone`, `NotDeleted`) and asks `Orderly` of
that execution, one conjunct for each thing it relies on later. `Found` is a
range with every passage in both stores. What the plan reuses is found and the
prune leaves it (`ReusesFound`, `ReusesSettled`); what is doomed is exactly what
is unwanted, and its vectors go before its passages (`PrunesUnwanted`); after the
prune the passages are of one configuration (`OneConfig`), the ranges behind the
execution are settled (`TasksCarried`) and found (`SettledFound`), and the range it
is in has been stored so far (`PassagesStored`). A settled range of an *earlier*
execution may have lost its passages, but then it has none listed, which is what
`planTasks` looks at: the second half of `SettledFound`, without which a crash in
the prune is not covered. The action property follows from the same invariant.

*Access.* `AccessInv` has a part per component. In *Workspaces* the limits are not
inductive: a request that has counted and not yet written must be counted too
(`SeatsCounted`, `AgentsCounted`), against the highest limit so far and the number
of requests there are; and while no two guards overlapped only one request is
about to demote or remove an owner, and another owner remains (`Governed`,
`Inhabited`). In *Permissions* whatever is listed, cached or carried by a request
was granted to the membership once (`Given`, `Cached`, `Asked`), so that a cached
answer, however old, is never more than that; and whoever is about to write a
built-in role read the string that still stands unless writers raced, with a
sync on its way the one case in which the rows lag (`Orderly`). *PlatformRoles*
has the same three, and `SuperadminKept`: while no two replacements overlapped,
the one on its way leaves somebody superadmin. For the routes (`ReqInv`) where a
request stands says which guards it has passed, and its answer which one refused
it (`OnItsWay`); that the guard of a route asks what the document says of it is
`TablesAssumption`, which compares the two tables and has no parameter. The other
assumptions
are that people, requests and accounts are finitely many, that the free plan has
a seat, that superadmin is a built-in role, and that the names of members, roles
and built-in roles do not meet (`LimitAssumption`, `RoomAssumption`,
`RolesAssumption`, `ConsoleAssumption`).

*Connections.* The parts of MCConnections share no variable: each has an
inductive invariant, and steps of the others leave it alone. For OAuth
(`OauInv`) the row alone is not enough: a call that refreshes may be the only one
that knows the next token, so the invariant follows each token from its issue
(`TokensAreIssued`) to the row; until it is stored it is known in one place only
and nobody refreshes with it (`NewTokensAreUnused`), a call rests on the row it
read unless a write crossed it (`RowsAreCurrent`), and a refusal is about a token
the provider had dropped, or `misread` says that it is not (`AnswersHold`). For MCP servers (`McpInv`) a discovery
finds the row it writes by its id: that no id ever has two owners, in a row or in
a save under way (`IdsAreOwned`), makes it the row whose URL was asked
(`DiscoveriesFit`). For integrations (`IntInv`) an id is put together from its owner
and a name, so that ids of different owners differ (`IdsDiffer`), a row belongs to
the owner in its id, and keys come and go with rows (`RowsAreOwned`, `KeysAreKept`).
For data sources (`DtsInv`) the runs on their way are reviewed, not only the last
one (`Reviewed`). For the catalogue (`CatInv`) a process that has seen an expiry
since the last write answers from what the database holds (`FreshOnesAgree`), and
one that loads answers from nothing (`LoadsWhenStale`). The verdict on a key is
inductive as it stands. For the flow engine (`FloInv`) a node in flight stays
within its plan (`FlightIsPlanned`), the checkpoint is what the attempt has settled
until it dies, short of the node in flight and the items of all its tries
(`CheckpointIsCurrent`), what was executed is counted or hidden by a death
(`ExecutionsAreCounted`), and every execution brings three tries more, used up or
still to come (`AttemptsAreCounted`). That a flow
without a cycle has something runnable while anything is left is the definition
of `Acyclic` at the set of nodes left: one of them waits for none of the others;
that of the runnable nodes one was reached first, so that the engine picks one,
is the well-foundedness of <. For tool loops (`LopInv`) a call waits for its result in one
place and has no result yet (`PendingIsNew`), every call is answered, waits
or was dropped (`CallsAreKept`), a result stands once, behind its turn
(`ResultsStandOnce`), what was executed has a result or gets it next
(`ExecutionsFit`), and until the loop fails what was charged is what was asked or
cost something without what is due now (`ChargesFit`). The
assumptions are that None is not among the rows and
the names, that allowlists and the answers of servers are sets of tools, and that
bounds are numbers (`NoneAssumption`, `ToolsAssumption`, `BoundsAssumption`).

*Business.* The parts of MCBusiness share no variable (`PartsMove`), and each has
its own inductive invariant. For Stripe (`StrInv`) what the rows say is tied to
what Stripe says through the events: the object at Stripe is what its newest
event says (`StripeIsNewest`); an event that was answered was written, or a newer
one was, or it is an invoice that was dropped (`AnsweredAreWritten`); until two
checkouts overlap there is one customer, and it is the row's (`OneCustomer`); a handler about to refill wrote its event
(`HandlersWrote`); while nothing came out of order the rows say what the newest
event written says, and a paid plan whose event is answered is refilled
(`RowsAreNewest`). `RefilledIsNotDue` is inductive as it stands. For triggers
(`TrgInv`) a scan reads the past; an instant was claimed exactly if its run is
queued, refused, lost or held by a scan (`Account`), and unless a refusal came late
the row's next run lies after everything claimed (`Once`), so that no second
compare-and-set finds the old instant. For webhooks (`WhkInv`) delivery, attempts,
deaths and answers agree (`Job`); while attempts do not overlap the one under way read the
row as it still is (`ReadsIt`), and the row counts no more failures than there were
(`Counts`). For versions (`VerInv`) a writer's number is at most the next one, and
the one that is inserted is the next one and alone with it, by the unique index
(`Numbers`, `OneInserts`); what a request asks for exists (`Asks`). The prices need
no state: `LimitsAre`, `FirstPlanIs`, `RaisingIs` and `PricesAre` compute the
catalogue, and the conversion is division. The assumptions are that None is no row
and no number (`NoneAssumption`), that bounds are numbers (`BoundsAssumption`),
that Stripe has no price for the free plan and that first plans are those of the
workspaces (`PlansAssumption`), and what `ProAssumption` says of codes.

For promo codes (`ProInv`), while a request holds the row lock the code it read is the code
there is (`Holds`), so what it checked is still true when it commits; between
commits the count is the number of the redemptions, by the cardinality lemmas of
the library.

*Conversations.* The parts share no variable but those of files and turns. For
widgets, what has been spent is bounded only together with what the turns let in
may still spend: each of them holds tokens, one for a credit (`Tokens`), charging
takes one, and the sum is at most the ceiling less one and all tokens there are
(`Bounded`); a visitor's message that found a new counter is alone with it until
the counter has its hour (`Paced`). A save holds the key its page was given, or a
number that nobody was given (`Saves`, `OneCreates`, `KeysFit`). For memories a row
and its point say what was written, or the row nobody (`Kept`), the writer
between the two has what it wrote (`Wrote`), and so what a recall has found is
the finder's own and of its width (`Theirs`); a scope above its cap has a writer that will relieve it (`Capped`,
`Relieves`), and who counted last evicts enough. For files (`FileInv`) a removal
deletes a row it found unbound, and the object goes when the row is gone. For
turns (`TurnInv`) the stage tells what may have been spent and charged (`InStage`)
and a stored answer is of a turn that has ended with everything charged
(`Accounted`), once in its conversation (`ToldOnce`). Where files go (`BindInv`)
rests on both: a row bound to a turn stays with it until its conversation goes
(`Follows`), so past its binding a turn holds all its files (`Holds`), and what it
gathers is bound to messages of its own conversation (`Shown`). That no more than
the cap of images is sent is a count by ranks: the images kept have different
numbers of newer ones, each below the cap (`NewestAreFew`, `ImagesAreFew`). For
retrieval (`RtvInv`) a search has embedded its question for one model, and its
ranking is of the bases and documents asked. The scale of a fused score is
arithmetic once the term scores are shares of the best one (`TermScoreIsAShare`);
that there is a best one among finitely many passages comes from the
well-foundedness of < (`LeastNumber`, `SomeIsBest`). The assumptions are that
visitors and passages are finitely many, that a ceiling and a limit let something
through, that bounds are numbers, that before its answer a turn pays for nothing
but the reranking and the rewrite, that a passage is of one base with a
similarity between -1 and 1 and a word score that is not negative, that edits
name bases, and that None is no number and no row (`WidgetsAssumption`,
`BoundsAssumption`, `SpendsAssumption`, `RetrievalAssumption`, `NoneAssumption`).

Every invariant and every action property of the passing runs, and both
refinements but for the fairness of `TopUps`, is stated by a theorem. Model-checked
only is what needs fairness, which is out of the prover's reach: `PaidArrives`,
`LowIsReloaded`, `QueuedRunEnds`, `QueuedIsDecided`, `AnswersConverge` and
`Settles`.

## 5. Properties that were hard to state

`SucceededIsComplete`, `EndedUntilRetried`, `CeilingHolds` and the exact half of
`CreditsCoverTheBill` hold only while one attempt at a time executes the run;
with two they do not, and two are possible (`OneExecution`, section 7). They say so in
their text, and the case that allows two attempts is checked for the rest.
`CeilingHolds` once claimed more: its proof failed, and TLC showed why on a
longer flow. Each attempt compares the ceiling with what itself was charged, so
that two of them each come up to it (section 7). Nor is a flow without
provider calls worth less than one call a step (`MostCalls`).
`EndedUntilRetried` excepts stops and a second retry: `stopRun` and `retryRun`
act on a status they read before. `SucceededIsComplete` is about flows: what a
tool loop leaves behind when it ends has no position.
`FinishedIsComplete` once said "a flow that finishes has run every node it
reached", and held because only flows without a cycle were checked. The proof asks
where that is used, and nothing in the code provides it: `validateGraph` lets
cycles through. The property now names `Acyclic`, and a flow with a cycle is in
the run, for everything else that is claimed of flows.
The safety properties of Ingestion hold while one execution at a time indexes
the document and nobody deletes it under the execution; `ReadyIsIndexed`
excepts a prune cut in half, which leaves passages without vectors that settings
changed back make the next run reuse (`ReadyIsSearchable`, section 7).

Several properties are about what remains true *although* two requests overlap,
and a history variable says when they did: `OneBuiltInRole` (`raced`),
`OwnerRemains` and `SuperadminRemains` (`overlapped`, `overtaken`),
`SyncedIsGranted` (`reordered`, `dropped`, `crossed`), `SwitchedOffForCause`
(`overlapped`), `ConnectionTellsTheTruth` (`crossed`, `unanswered`, `misread`),
`CallsTheRightServer` (`stale`), `VerdictIsAboutTheKey` (`overtaken`). Each
history variable is set by the overlap itself and not by its consequence, so
that a wrong result without an overlap is still caught. The limits that are
counted first and used later are stated with the overshoot they can have:
`PlanLimitsHold` by the requests in flight at the highest limit so far,
`WidgetsAreBounded` by the turns let in below the ceiling, `BehindByOneTtl` by
the age of a snapshot.

`AuthorsGiveWhatTheyHeld` cannot say "hold": a role may be taken from its author
between the question and the write, and the code promises nothing about that.
It says that a permission never comes from nowhere, through any number of
requests, cached answers and roles composed of one another.

## 6. Not modelled, and why

`PROJECT.json` lists every part with its reason. In short: reporting and
listing keep no state; parsers, tools, vision and provider clients are I/O
whose effect on the rest is a success, a failure and a price; sign-in is a
library's, which the code configures; audit and error logs are appended on a
best-effort basis. Inside the modelled parts:

* the checkout and portal pages are Stripe's; revenue is reporting queries;
* attachments and history of a run, templates and parameters of a flow, the
  contents of prompts, and how an answer's citations are numbered;
* neighbouring passages of a hit, the pre-retrieval rewriting of a question (its
  price is a step of a turn), and the shape of a document's summary tree;
* `memoryService.forget`, `forgetAll` and `forgetAgent` have no caller in the
  repository (deleting an agent removes its rows by foreign key and leaves its
  points);
* a webhook trigger: it checks a secret and queues a run as a person does;
* the seeder of the built-in roles, and the roles the console writes for a
  workspace, which are the workspace's own without the question what the author
  holds;
* the rate limiter of the API, which is a counter with an expiry, as the
  widget's is.

## 7. Where the code and its words part

Two findings have runs (section 3). The following claims of comments, schemas
and tests fail as well. Their properties are defined in the modules; put the
property into the configuration named, in place of its INVARIANTS, PROPERTIES
and SYMMETRY, to see TLC's counterexample.

| property (configuration) | claim | what the code does |
|---|---|---|
| SameReferenceNeverChargesTwice (ledger) | billing.service.ts:55-56 "The same reference never charges twice" | a retry that splits otherwise between the buckets misses the row of the first (:240) |
| TopupBucketIsLedgerSum (ledger) | billing.schema.ts:20, no balance changes without its row | one of two inserts conflicts, the bucket is debited all the same (:262) |
| PlanBucketIsLedgerSum (ledger) | billing.schema.ts:18-19, the balance is a materialised sum | a refill overwrites the bucket and posts the new allowance, not the difference (:432) |
| CreditedIsCollected (autoreload) | stripe.service.ts:336-337 "this is what they paid for it", on a row written as `paid` (autoreload.service.ts:150-151: a payment "can be authorised and still fail to settle") | a checkout completed with a delayed payment method is credited and recorded as paid before the money is there; the event that it failed is ignored (:282) |
| SoldOnlyToEntitled (autoreload) | plans.ts:63, top-ups are for plans that have them | the scan does not look at the plan (billing.repository.ts:204) |
| TopupsDearerThanPlans (business) | plans.ts:248, "the unit price here is deliberately higher" | not from seventeen seats on: the price of a plan grows with its seats and its allowance does not (plans.ts:331) |
| InvoicesAreRecorded (business) | stripe.service.ts:541-542 "the customer id is on it from the moment `ensureCustomer` ran, so this answers for a one-off invoice as well as a recurring one" | of two checkouts at once the second overwrites the customer of the first; the invoice of a charge on the first finds no workspace and is answered without a record (:370) |
| StepIsTheSameStep (run_life) | agent.repository.ts:231 | a repeat that makes another number of calls gives a number to another call (runner.ts:531) |
| ReplayedWorkIsFree (run_life) | runner.ts:639, runner.ts:1100 | a step that failed half way is saved behind the calls it billed and billed again by the retry (:669); a tool loop checkpoints its numbering but not its conversation (:1102) |
| CreditsCoverTheBill without its exception (run_bill) | checkpoint.ts:103 | credits of a round that never reached a checkpoint are forgotten (runner.ts:555) |
| OneExecution (run_bill; run_life, `Cases <- ApprovingCases`) | runner.ts:260, runner.ts:504 "Claims the run for this attempt" | a stalled job is executed beside its first worker (runner.ts:296), and of two answers each executes the run, with its approved writes (:272) |
| CeilingHolds without its exception (run_bill, with eight steps of one call and a ceiling of 3) | agent.dto.ts:45 "The most credits one run may spend before it is stopped" | of two attempts at once each counts what itself was charged (runner.ts:555) |
| EndedUntilRetried without its exception (run_life) | agent.service.ts:784 | a stop closes a run by the status it read first (:787) |
| PendingRunRuns (run_life, `Cases <- RetriedCases`) | agent.jobs.ts:24 | a retry adds the job id of the attempt that failed, which the queue keeps, and the run stays pending (agent.service.ts:758) |
| RunningRunCloses (run_life) | checkpoint.ts:58 | an error before the try leaves the row running (runner.ts:509) |
| LoopIsWhole (connections) | nodes.ts:771-773 | a stop inside a loop completes it, and a retry goes on behind it (:808) |
| BudgetIsUsable (connections) | engine.ts:243 | a flow that ends exactly on its budget fails (:240) |
| FinishedIsComplete without `Acyclic` (connections) | engine.ts:243 | two nodes that wait for each other end the flow as finished (checkpoint.ts:211) |
| JoinWaits (connections, `Graphs <- LongBranch`, `Nodes <- SixNodes`, `MAX_NODE_EXECUTIONS = 8`) | checkpoint.test.ts:209 | a join runs before its longer branch, which is not reached yet and does not block it (checkpoint.ts:211) |
| EveryCallIsAnswered (connections) | runner.ts:960-964 "the model cannot be asked anything until the tool call it made has an answer" | of a round with several calls only the one that waited gets a result; those behind it are dropped (:969) |
| RevokedIsRevoked (connections) | oauth.service.ts:330-332 "A refusal here usually means somebody revoked access at the other end", recorded as `revoked` | every answer without a token is such a refusal: a rate limit, an outage or a changed client secret marks a live connection revoked, and its calls say "Reconnect it" (:456, :333) |
| RefreshesDoNotClash (connections) | oauth.service.ts:256 "Single-flight" | the holder of the lock refreshes with the row it read before it had the lock, and the one who waited 750 ms goes on without it (:285) |
| ReadyIsSearchable (ingestion) | ingestion.service.ts:49-51 "every stage replaces" | summaries stored but not embedded when the worker dies are never embedded: the next run sees them and skips (:577) |
| CancelKeepsPassages (ingestion) | knowledge.service.ts:419, "the passages already written stay" | a run that starts after the stop prunes before it looks at it (ingestion.service.ts:171, :185) |
| EnrichedIsIndexed (ingestion) | ingestion.service.ts:525-526 "a range the customer cannot retrieve from is not a range they should pay to have indexed" | keywords and questions are charged for before the first passage is stored (:460); whatever fails behind it leaves them paid |
| FailedTurnIsFree (conversations) | chat.service.ts:830-833 "A turn that fails before `done` costs the customer nothing" | the rewrite and the rerank are charged whatever becomes of the turn (:872, :891), and of an answer the provider broke off the words that came (:934) |
| OtherModelsAreSkipped (conversations, `Embeddings = {"small", "other"}`) | memory.service.ts:148-151 "A memory written under a different embedding model is skipped rather than compared" | only the width is compared: of two models of one width each recalls what the other wrote (:155) |
| MoneyIsCapped (conversations, `MaxSpoken = 6`) | widget.service.ts:232 "so the money is capped" | spentToday adds up `agent-run:` references (widget.repository.ts:193); what a visitor's turn spends on speech has references of its own (speech.service.ts:191, :269) and never meets the ceiling |
| CountersEnd (conversations) | widget.service.ts:226 "Please try again shortly" | a counter whose EXPIRE failed, or whose process died before it, is never given an hour: its visitor is refused for good (:224) |
| QueuedIsDecided without `GivenUp` (ingestion) | knowledge.schema.ts:118-119 "a state machine the worker advances: pending → … → ready, or → failed with a reason" | a document whose worker dies twice, or whose run throws three times, stays as it was: no sweep looks for it (worker.ts:71) |
| RangePaidOnce (ingestion) | ingestion.service.ts:92-93, "never billed twice, whether the second run is a retry or a deliberate re-index" | a re-index is another job, hence another reference; a range charged but not settled is charged again (:533) |

What follows was met while modelling, and the models do it; no property of
its own states it.

*Agent runs and ingestion.* A person who retries a run that BullMQ is itself
about to retry gets two attempts at once, and a retry that read the status of a
run before it was stopped and succeeded reopens it. `queueRun` and
`compareVersions` insert the row before the job, so that a death between the two
leaves a run pending for ever. Of two requests to index one document again that
read the same attempt, the second leaves it pending behind a job that is over
(knowledge.service.ts:382, ingestion.jobs.ts:30). `toolWrites` is false for every
MCP tool, so that no MCP tool ever waits for approval (agent/tools/catalogue.ts:263).

*Access.* Two owners who demote each other at once leave none
(workspace.service.ts:236); a seat or a limit that is counted by two requests is
exceeded by one. `setMemberRoles` and Better Auth's `updateMemberRole`, at once,
can leave the built-in role of the loser, where rbac.repository.ts:288 says
"exactly one system role". The console's `createRole` for a workspace does not
ask what its author holds. The API document says "any member" of reads that a
grant may deny. `attachApiKey` says that it runs before `attachSession`
(api-key.ts:11); app.ts:142 mounts it behind.

*Money.* payment.repository.ts:22 "A webhook redelivery is a no-op": a `failed`
event that arrives after `paid` overwrites it, and the mirror of a subscription
takes late events alike. stripe.service.ts:78 "exactly one customer per
workspace": two checkouts that overlap create two (what that costs is
InvoicesAreRecorded, above). A refill job that failed or
completed keeps its id, and its workspace waits until the queue forgets it.
versionValues' comment says its checks run outside the transaction
(agent.service.ts:36); `publishVersion` runs them inside (:427).

*Triggers and webhooks.* A refusal slower than the back-off writes a next run
that is already past, and the instant fires twice. The failures of an endpoint
are counted from the row an attempt read, so that attempts side by side count
one; a delivery whose job could not be added, or whose worker died twice, stays
"pending".

*Connections.* A time-out of the token request is recorded as a revocation; the
state of an authorization is consumed before it is asked whose it is. A tool
list or a schema read from an old address is written on the row of the new one.
A data source saved without a connection string, while another save changes
it, writes the old one back; a save inserts again what was removed meanwhile.
`findApprovedQueryByName` does not ask whether the source is switched on. A
check of an integration whose row is removed meanwhile calls with the platform's
key. An import switches a model on again that was switched off meanwhile, and a
patch writes back fields as old as its snapshot; a load in flight outlives an
invalidation (ai/catalogue.ts:20-22). A check of a credential calls with the
snapshot's key and records on a newer row.

*Chat.* A turn refused after its files were claimed keeps them. A refined
question is not billed when the search fails, where chat.service.ts:893 says
"charged whatever happened next"; a turn whose credential is missing, or whose
client leaves before the stream, leaves no row (:860 "once, whatever ended it");
a charge that fails loses the answer and keeps the stop key. Whether images of
earlier messages go along is asked of the model and not of the adapter. A
recording with a blank transcript can never be sent; one whose object cannot be
read stays "processing" (speech.service.ts:123); of two transcriptions at once
the later overwrites the earlier. Two changes of a conversation at once can leave
two embedding models in its set, which chat.dto.ts:44 rules out; the search
refuses them. A reranker that names a passage twice puts it into the answer
twice (retrieval.service.ts:301).

*Memory and widgets.* Two evictions at once go below the cap; a memory whose
point was not stored is never recalled; eviction deletes points in the writer's
collection only. Turns let in together pass a widget's ceiling together. A
save that overlaps a removal inserts the widget again.
