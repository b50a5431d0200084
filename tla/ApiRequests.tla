------------------------------ MODULE ApiRequests ------------------------------
(***************************************************************************)
(* Every route of the HTTP API with the guard in front of it, as the       *)
(* routers of the modules register them, what the served API document says *)
(* of the same operations (ROUTE_DOCS), and one request on its way through *)
(* the middleware of src/api/middleware to a handler: who calls, what is   *)
(* asked in which order, and the answer.  Routes and document are written  *)
(* by hand in different files.  An operation is its method and its path    *)
(* below /v1, without "workspaces/:workspaceId/"; identifiers are ":id".   *)
(* The permissions a caller holds are those of its built-in role, plus or  *)
(* minus the grants on the one resource its path names; how the held set   *)
(* is kept, cached and forgotten is the subject of module Permissions.     *)
(***************************************************************************)
EXTENDS Sequences, PermissionCatalogue

(* A route as registered: the scope it belongs to, the permission it asks  *)
(* for, and whether grants on one resource weigh in.                       *)
Route(scope, key, resource, ops) ==
  {[op |-> o, scope |-> scope, asks |-> key, onResource |-> resource] : o \in ops}

NoKey == <<>>

(* Behind requireAuth alone; behind workspaceScope alone; and behind one   *)
(* more guard.                                                             *)
SignedIn(ops) == Route("session", NoKey, FALSE, ops)
Open(ops) == Route("workspace", NoKey, FALSE, ops)
Asking(key, ops) == Route("workspace", key, FALSE, ops)
AskingOnResource(key, ops) == Route("workspace", key, TRUE, ops)
AskingConsole(key, ops) == Route("console", key, FALSE, ops)
AskingKey(key, ops) == Route("apiKey", key, FALSE, ops)

--------------------------------------------------------------------------------
(* account.routes.ts and plan.routes.ts.                                   *)
AccountRoutes == SignedIn({"GET me", "GET me/workspaces"})
PlanRoutes == SignedIn({"GET plans"})

(* workspace.routes.ts.                                                    *)
WorkspaceRoutes ==
  SignedIn({"GET workspaces", "POST workspaces"})
  \cup Open({
       "GET members/:id/roles", "GET members", "GET permissions", "GET roles",
       "GET workspace"})
  \cup Asking(<<"workspace", "update">>, {"PATCH workspace"})
  \cup Asking(<<"member", "update">>, {
       "PUT members/:id/roles", "PATCH members/:id"})
  \cup Asking(<<"member", "remove">>, {"DELETE members/:id"})
  \cup Asking(<<"invitation", "read">>, {"GET invitations"})
  \cup Asking(<<"invitation", "create">>, {"POST invitations"})
  \cup Asking(<<"invitation", "revoke">>, {"DELETE invitations/:id"})
  \cup Asking(<<"role", "manage">>, {
       "DELETE roles/:id", "PATCH roles/:id", "POST roles"})
  \cup Asking(<<"mcpServer", "read">>, {"GET mcp-servers", "GET mcp-tools"})
  \cup Asking(<<"mcpServer", "manage">>, {
       "POST mcp-servers/:id/check", "DELETE mcp-servers/:id",
       "PUT mcp-servers"})
  \cup Asking(<<"apiKey", "read">>, {"GET api-keys"})
  \cup Asking(<<"apiKey", "create">>, {"POST api-keys"})
  \cup Asking(<<"apiKey", "revoke">>, {"DELETE api-keys/:id"})

(* project.routes.ts.                                                      *)
ProjectRoutes ==
  Open({"GET projects"})
  \cup Asking(<<"project", "create">>, {"POST projects"})
  \cup AskingOnResource(<<"project", "read">>, {"GET projects/:id"})
  \cup AskingOnResource(<<"project", "update">>, {"PATCH projects/:id"})
  \cup AskingOnResource(<<"project", "archive">>, {
       "POST projects/:id/archive", "POST projects/:id/restore"})
  \cup AskingOnResource(<<"project", "delete">>, {"DELETE projects/:id"})

(* billing.routes.ts.                                                      *)
BillingRoutes ==
  Open({"GET billing"})
  \cup Asking(<<"transaction", "read">>, {"GET billing/transactions"})
  \cup Asking(<<"billing", "manage">>, {
       "GET billing/auto-reload", "PUT billing/auto-reload",
       "POST billing/checkout", "GET billing/payments", "POST billing/portal"})

(* usage.routes.ts.                                                        *)
UsageRoutes ==
  Open({"GET usage/records", "GET usage"})
  \cup Asking(<<"usage", "read">>, {"GET provider-errors"})

(* model.routes.ts.                                                        *)
ModelRoutes ==
  Open({"GET models", "GET settings/models"})
  \cup Asking(<<"model", "manage">>, {"PUT settings/models"})

(* promo.routes.ts.                                                        *)
PromoRoutes ==
  Open({"GET billing/promo-codes"})
  \cup Asking(<<"promo", "redeem">>, {"POST billing/promo-codes/redeem"})

(* knowledge.routes.ts.                                                    *)
KnowledgeRoutes ==
  Open({"GET knowledge-bases/chunking-methods", "GET knowledge-bases"})
  \cup Asking(<<"knowledgeBase", "create">>, {"POST knowledge-bases"})
  \cup AskingOnResource(<<"knowledgeBase", "read">>, {
       "GET knowledge-bases/:id"})
  \cup AskingOnResource(<<"knowledgeBase", "update">>, {
       "PATCH knowledge-bases/:id"})
  \cup AskingOnResource(<<"knowledgeBase", "delete">>, {
       "DELETE knowledge-bases/:id"})
  \cup AskingOnResource(<<"document", "read">>, {
       "GET documents/:id/chunks", "GET documents/:id/download",
       "GET documents/:id/tasks", "GET documents/:id",
       "GET knowledge-bases/:id/documents"})
  \cup AskingOnResource(<<"document", "create">>, {
       "POST knowledge-bases/:id/documents"})
  \cup AskingOnResource(<<"document", "update">>, {
       "POST documents/:id/cancel", "POST documents/:id/reindex"})
  \cup AskingOnResource(<<"document", "delete">>, {"DELETE documents/:id"})

(* chat.routes.ts.                                                         *)
ChatRoutes ==
  Open({
       "GET conversations/:id/messages", "GET conversations/:id",
       "GET conversations"})
  \cup Asking(<<"conversation", "create">>, {"POST conversations"})
  \cup Asking(<<"conversation", "update">>, {"PATCH conversations/:id"})
  \cup Asking(<<"conversation", "delete">>, {"DELETE conversations/:id"})
  \cup Asking(<<"chat", "send">>, {
       "POST conversations/:id/messages/:id/stop",
       "POST conversations/:id/messages/stream",
       "POST conversations/:id/messages"})

(* attachment.routes.ts.                                                   *)
AttachmentRoutes ==
  Asking(<<"attachment", "create">>, {"POST attachments"})
  \cup Open({"GET attachments/:id/content", "GET attachments/:id"})
  \cup Asking(<<"attachment", "delete">>, {"DELETE attachments/:id"})

(* speech.routes.ts.                                                       *)
SpeechRoutes ==
  Asking(<<"speech", "transcribe">>, {"POST attachments/:id/transcribe"})
  \cup Asking(<<"speech", "synthesize">>, {"POST speech"})

(* agent.routes.ts: agents and versions.                                   *)
AgentRoutes ==
  Open({"GET agent-templates", "GET agent-tools", "GET agents"})
  \cup Asking(<<"agent", "create">>, {
       "POST agents/from-template", "POST agents"})
  \cup Asking(<<"agent", "update">>, {"POST agents/generate-graph"})
  \cup AskingOnResource(<<"agent", "read">>, {
       "GET agents/:id/runs", "GET agents/:id/versions/diff",
       "GET agents/:id/versions", "GET agents/:id"})
  \cup AskingOnResource(<<"agent", "update">>, {"PATCH agents/:id"})
  \cup AskingOnResource(<<"agent", "delete">>, {"DELETE agents/:id"})
  \cup AskingOnResource(<<"agent", "run">>, {"POST agents/:id/compare"})
  \cup Asking(<<"agent", "read">>, {"GET comparisons/:id"})
  \cup AskingOnResource(<<"agent", "publish">>, {
       "POST agents/:id/versions/:id/restore", "POST agents/:id/versions"})

(* agent.routes.ts: runs, triggers and widgets.                            *)
AgentRunRoutes ==
  AskingOnResource(<<"agent", "run">>, {
       "POST agents/:id/runs/queue", "POST agents/:id/runs"})
  \cup Open({"GET agent-runs/:id/steps", "GET agent-runs/:id"})
  \cup Asking(<<"agentRun", "control">>, {
       "POST agent-runs/:id/resume", "POST agent-runs/:id/retry",
       "POST agent-runs/:id/stop"})
  \cup AskingOnResource(<<"agent", "read">>, {"GET agents/:id/triggers"})
  \cup AskingOnResource(<<"agent", "update">>, {"POST agents/:id/triggers"})
  \cup Asking(<<"agent", "update">>, {
       "DELETE triggers/:id", "PUT triggers/:id"})
  \cup Asking(<<"widget", "read">>, {"GET widgets/:id/usage", "GET widgets"})
  \cup Asking(<<"widget", "manage">>, {"DELETE widgets/:id", "PUT widgets"})

(* connection.routes.ts.                                                   *)
ConnectionRoutes ==
  Open({"GET connections/:id", "GET connections"})
  \cup Asking(<<"connection", "manage">>, {
       "POST connections/:id/check", "DELETE connections/:id",
       "PUT connections/:id"})
  \cup Asking(<<"oauthConnection", "read">>, {
       "GET oauth-connections", "GET oauth-providers"})
  \cup Asking(<<"oauthConnection", "manage">>, {
       "POST oauth-connections/:id/start", "DELETE oauth-connections/:id"})
  \cup Asking(<<"dataSource", "read">>, {"GET data-sources"})
  \cup Asking(<<"dataSource", "manage">>, {
       "DELETE data-queries/:id", "POST data-queries/dry-run",
       "POST data-queries/generate", "PUT data-queries",
       "POST data-sources/:id/schema", "DELETE data-sources/:id",
       "PUT data-sources"})

(* webhook.routes.ts.                                                      *)
WebhookRoutes ==
  Asking(<<"webhook", "read">>, {"GET webhook-deliveries", "GET webhooks"})
  \cup Asking(<<"webhook", "manage">>, {
       "POST webhooks/:id/rotate-secret", "DELETE webhooks/:id",
       "PUT webhooks/:id", "POST webhooks"})

(* public.routes.ts.                                                       *)
PublicApiRoutes ==
  AskingKey(<<"agent", "run">>, {"POST api/agents/:id/runs"})
  \cup AskingKey(<<"agentRun", "read">>, {
       "GET api/agent-runs/:id/steps", "GET api/agent-runs/:id"})
  \cup AskingKey(<<"agent", "read">>, {"GET api/agents"})

(* admin.routes.ts: to the speech settings.                   *)
AdminRoutes ==
  AskingConsole(<<"admin.user", "read">>, {"GET admin/users"})
  \cup AskingConsole(<<"admin.workspace", "read">>, {
       "GET admin/workspaces/:id", "GET admin/workspaces"})
  \cup AskingConsole(<<"admin.credit", "adjust">>, {
       "POST admin/workspaces/:id/credits"})
  \cup AskingConsole(<<"admin.workspace", "manage">>, {
       "PUT admin/workspaces/:id/plan"})
  \cup AskingConsole(<<"admin.audit", "read">>, {"GET admin/audit-log"})
  \cup AskingConsole(<<"admin.promo", "read">>, {
       "GET admin/promo-codes/:id/redemptions", "GET admin/promo-codes"})
  \cup AskingConsole(<<"admin.promo", "manage">>, {
       "DELETE admin/promo-codes/:id", "PATCH admin/promo-codes/:id",
       "POST admin/promo-codes"})
  \cup AskingConsole(<<"admin.provider", "read">>, {"GET admin/providers"})
  \cup AskingConsole(<<"admin.provider", "manage">>, {
       "POST admin/providers/:id/check",
       "DELETE admin/providers/:id/credential",
       "PUT admin/providers/:id/credential"})
  \cup AskingConsole(<<"admin.model", "manage">>, {
       "POST admin/models", "DELETE admin/providers/:id/models/:id",
       "PATCH admin/providers/:id/models/:id",
       "POST admin/providers/:id/models/import"})
  \cup AskingConsole(<<"admin.integration", "read">>, {
       "GET admin/integrations/:id", "GET admin/integrations"})
  \cup AskingConsole(<<"admin.integration", "manage">>, {
       "POST admin/integrations/:id/check", "DELETE admin/integrations/:id",
       "PUT admin/integrations/:id"})
  \cup AskingConsole(<<"admin.speech", "read">>, {"GET admin/speech"})
  \cup AskingConsole(<<"admin.speech", "manage">>, {
       "POST admin/speech/:id/check", "DELETE admin/speech/:id",
       "PUT admin/speech/:id"})

(* admin.routes.ts: the rest.                               *)
AdminSettingsRoutes ==
  AskingConsole(<<"admin.model", "read">>, {
       "GET admin/settings/model-access", "GET admin/settings/models"})
  \cup AskingConsole(<<"admin.model", "manage">>, {
       "PUT admin/settings/model-access/:id", "PUT admin/settings/models"})
  \cup AskingConsole(<<"admin.role", "read">>, {
       "GET admin/permissions", "GET admin/roles/:id", "GET admin/roles",
       "GET admin/users/:id/platform-roles",
       "GET admin/workspaces/:id/members/:id/roles"})
  \cup AskingConsole(<<"admin.role", "manage">>, {
       "DELETE admin/roles/:id", "PATCH admin/roles/:id", "POST admin/roles",
       "PUT admin/users/:id/platform-roles",
       "PUT admin/workspaces/:id/members/:id/roles"})
  \cup AskingConsole(<<"admin.workspace", "read">>, {
       "GET admin/workspaces/:id/members"})
  \cup AskingConsole(<<"admin.usage", "read">>, {
       "GET admin/payments", "GET admin/revenue", "GET admin/usage/models",
       "GET admin/usage/workspaces", "GET admin/usage"})
  \cup AskingConsole(<<"admin.mcp", "read">>, {"GET admin/mcp-servers"})
  \cup AskingConsole(<<"admin.mcp", "manage">>, {
       "POST admin/mcp-servers/:id/check", "DELETE admin/mcp-servers/:id",
       "PUT admin/mcp-servers"})
  \cup AskingConsole(<<"admin.oauth", "read">>, {"GET admin/oauth-providers"})
  \cup AskingConsole(<<"admin.oauth", "manage">>, {
       "PUT admin/oauth-providers/:id"})
  \cup AskingConsole(<<"admin.errors", "read">>, {"GET admin/provider-errors"})

--------------------------------------------------------------------------------
(* What the document says an operation needs.                              *)
Says(access, ops) == {[op |-> o, access |-> access] : o \in ops}
AnyMember == <<"any", "member">>

(* ROUTE_DOCS, lines 99 to 245.                                            *)
DocsOfTenancy ==
  Says(AnyMember, {
       "GET members/:id/roles", "GET members", "GET permissions",
       "GET projects/:id", "GET projects", "GET roles", "GET workspace"})
  \cup Says(<<"workspace", "update">>, {"PATCH workspace"})
  \cup Says(<<"role", "manage">>, {
       "DELETE roles/:id", "PATCH roles/:id", "POST roles"})
  \cup Says(<<"member", "update">>, {
       "PUT members/:id/roles", "PATCH members/:id"})
  \cup Says(<<"member", "remove">>, {"DELETE members/:id"})
  \cup Says(<<"invitation", "read">>, {"GET invitations"})
  \cup Says(<<"invitation", "create">>, {"POST invitations"})
  \cup Says(<<"invitation", "revoke">>, {"DELETE invitations/:id"})
  \cup Says(<<"project", "create">>, {"POST projects"})
  \cup Says(<<"project", "update">>, {"PATCH projects/:id"})
  \cup Says(<<"project", "archive">>, {
       "POST projects/:id/archive", "POST projects/:id/restore"})
  \cup Says(<<"project", "delete">>, {"DELETE projects/:id"})

(* ROUTE_DOCS, lines 246 to 386.                                           *)
DocsOfMoney ==
  Says(AnyMember, {
       "GET billing", "GET models", "GET settings/models", "GET usage/records",
       "GET usage"})
  \cup Says(<<"transaction", "read">>, {"GET billing/transactions"})
  \cup Says(<<"billing", "manage">>, {
       "GET billing/auto-reload", "PUT billing/auto-reload",
       "POST billing/checkout", "POST billing/portal"})
  \cup Says(<<"model", "manage">>, {"PUT settings/models"})
  \cup Says(<<"admin.user", "read">>, {"GET admin/users"})
  \cup Says(<<"admin.workspace", "read">>, {
       "GET admin/workspaces/:id", "GET admin/workspaces"})
  \cup Says(<<"admin.credit", "adjust">>, {
       "POST admin/workspaces/:id/credits"})
  \cup Says(<<"admin.workspace", "manage">>, {"PUT admin/workspaces/:id/plan"})
  \cup Says(<<"admin.audit", "read">>, {"GET admin/audit-log"})
  \cup Says(<<"admin.promo", "read">>, {
       "GET admin/promo-codes/:id/redemptions", "GET admin/promo-codes"})
  \cup Says(<<"admin.promo", "manage">>, {
       "DELETE admin/promo-codes/:id", "PATCH admin/promo-codes/:id",
       "POST admin/promo-codes"})

(* ROUTE_DOCS, lines 387 to 536.                                           *)
DocsOfContent ==
  Says(AnyMember, {
       "GET conversations/:id/messages", "GET conversations/:id",
       "GET conversations", "GET documents/:id/chunks",
       "GET documents/:id/download", "GET documents/:id/tasks",
       "GET documents/:id", "GET knowledge-bases/:id/documents",
       "GET knowledge-bases/:id", "GET knowledge-bases/chunking-methods",
       "GET knowledge-bases"})
  \cup Says(<<"knowledgeBase", "create">>, {"POST knowledge-bases"})
  \cup Says(<<"knowledgeBase", "update">>, {"PATCH knowledge-bases/:id"})
  \cup Says(<<"knowledgeBase", "delete">>, {"DELETE knowledge-bases/:id"})
  \cup Says(<<"document", "create">>, {"POST knowledge-bases/:id/documents"})
  \cup Says(<<"document", "update">>, {
       "POST documents/:id/cancel", "POST documents/:id/reindex"})
  \cup Says(<<"document", "delete">>, {"DELETE documents/:id"})
  \cup Says(<<"conversation", "create">>, {"POST conversations"})
  \cup Says(<<"conversation", "update">>, {"PATCH conversations/:id"})
  \cup Says(<<"conversation", "delete">>, {"DELETE conversations/:id"})
  \cup Says(<<"chat", "send">>, {
       "POST conversations/:id/messages/:id/stop",
       "POST conversations/:id/messages/stream",
       "POST conversations/:id/messages"})

(* ROUTE_DOCS, lines 537 to 679.                                           *)
DocsOfAgents ==
  Says(<<"attachment", "create">>, {"POST attachments"})
  \cup Says(AnyMember, {
       "GET agent-runs/:id/steps", "GET agent-runs/:id", "GET agent-tools",
       "GET agents/:id/runs", "GET agents/:id/versions", "GET agents/:id",
       "GET agents", "GET attachments/:id/content", "GET attachments/:id"})
  \cup Says(<<"attachment", "delete">>, {"DELETE attachments/:id"})
  \cup Says(<<"speech", "transcribe">>, {"POST attachments/:id/transcribe"})
  \cup Says(<<"speech", "synthesize">>, {"POST speech"})
  \cup Says(<<"agent", "create">>, {"POST agents"})
  \cup Says(<<"agent", "update">>, {"PATCH agents/:id"})
  \cup Says(<<"agent", "delete">>, {"DELETE agents/:id"})
  \cup Says(<<"agent", "publish">>, {"POST agents/:id/versions"})
  \cup Says(<<"agent", "run">>, {
       "POST agents/:id/runs/queue", "POST agents/:id/runs"})
  \cup Says(<<"agentRun", "control">>, {
       "POST agent-runs/:id/resume", "POST agent-runs/:id/retry",
       "POST agent-runs/:id/stop"})

(* ROUTE_DOCS, lines 680 to 829.                                           *)
DocsOfConsole ==
  Says(AnyMember, {"GET connections/:id", "GET connections"})
  \cup Says(<<"connection", "manage">>, {
       "POST connections/:id/check", "DELETE connections/:id",
       "PUT connections/:id"})
  \cup Says(<<"admin.integration", "read">>, {
       "GET admin/integrations/:id", "GET admin/integrations"})
  \cup Says(<<"admin.integration", "manage">>, {
       "POST admin/integrations/:id/check", "DELETE admin/integrations/:id",
       "PUT admin/integrations/:id"})
  \cup Says(<<"admin.provider", "read">>, {"GET admin/providers"})
  \cup Says(<<"admin.provider", "manage">>, {
       "POST admin/providers/:id/check",
       "DELETE admin/providers/:id/credential",
       "PUT admin/providers/:id/credential"})
  \cup Says(<<"admin.speech", "read">>, {"GET admin/speech"})
  \cup Says(<<"admin.speech", "manage">>, {
       "POST admin/speech/:id/check", "DELETE admin/speech/:id",
       "PUT admin/speech/:id"})
  \cup Says(<<"admin.model", "manage">>, {
       "POST admin/models", "DELETE admin/providers/:id/models/:id",
       "PATCH admin/providers/:id/models/:id",
       "POST admin/providers/:id/models/import",
       "PUT admin/settings/model-access/:id", "PUT admin/settings/models"})
  \cup Says(<<"admin.model", "read">>, {
       "GET admin/settings/model-access", "GET admin/settings/models"})

(* ROUTE_DOCS, lines 830 to 942.                                           *)
DocsOfRoles ==
  Says(<<"admin.role", "read">>, {
       "GET admin/permissions", "GET admin/roles/:id", "GET admin/roles",
       "GET admin/users/:id/platform-roles",
       "GET admin/workspaces/:id/members/:id/roles"})
  \cup Says(<<"admin.role", "manage">>, {
       "DELETE admin/roles/:id", "PATCH admin/roles/:id", "POST admin/roles",
       "PUT admin/users/:id/platform-roles",
       "PUT admin/workspaces/:id/members/:id/roles"})
  \cup Says(<<"admin.workspace", "read">>, {
       "GET admin/workspaces/:id/members"})
  \cup Says(<<"agent", "update">>, {"POST agents/generate-graph"})
  \cup Says(<<"widget", "read">>, {"GET widgets/:id/usage"})
  \cup Says(<<"billing", "manage">>, {"GET billing/payments"})
  \cup Says(<<"admin.usage", "read">>, {
       "GET admin/payments", "GET admin/revenue", "GET admin/usage/models",
       "GET admin/usage/workspaces", "GET admin/usage"})
  \cup Says(<<"admin.errors", "read">>, {"GET admin/provider-errors"})

(* ROUTE_DOCS, lines 943 to 1090.                                          *)
DocsOfWebhooksAndVersions ==
  Says(<<"webhook", "read">>, {"GET webhook-deliveries", "GET webhooks"})
  \cup Says(<<"webhook", "manage">>, {
       "POST webhooks/:id/rotate-secret", "DELETE webhooks/:id",
       "PUT webhooks/:id", "POST webhooks"})
  \cup Says(<<"usage", "read">>, {"GET provider-errors"})
  \cup Says(<<"admin.mcp", "read">>, {"GET admin/mcp-servers"})
  \cup Says(<<"admin.mcp", "manage">>, {
       "POST admin/mcp-servers/:id/check", "DELETE admin/mcp-servers/:id",
       "PUT admin/mcp-servers"})
  \cup Says(<<"mcpServer", "read">>, {"GET mcp-servers", "GET mcp-tools"})
  \cup Says(<<"agent", "run">>, {"POST agents/:id/compare"})
  \cup Says(<<"agent", "read">>, {
       "GET agents/:id/triggers", "GET agents/:id/versions/diff",
       "GET comparisons/:id"})
  \cup Says(<<"agent", "publish">>, {"POST agents/:id/versions/:id/restore"})
  \cup Says(AnyMember, {"GET agent-templates"})
  \cup Says(<<"agent", "create">>, {"POST agents/from-template"})
  \cup Says(<<"agent", "update">>, {
       "POST agents/:id/triggers", "DELETE triggers/:id", "PUT triggers/:id"})
  \cup Says(<<"oauthConnection", "read">>, {
       "GET oauth-connections", "GET oauth-providers"})

(* ROUTE_DOCS, lines 1091 to 1264.                                         *)
DocsOfConnections ==
  Says(<<"dataSource", "read">>, {"GET data-sources"})
  \cup Says(<<"widget", "read">>, {"GET widgets"})
  \cup Says(<<"widget", "manage">>, {"DELETE widgets/:id", "PUT widgets"})
  \cup Says(<<"dataSource", "manage">>, {
       "DELETE data-queries/:id", "POST data-queries/dry-run",
       "POST data-queries/generate", "PUT data-queries",
       "POST data-sources/:id/schema", "DELETE data-sources/:id",
       "PUT data-sources"})
  \cup Says(<<"apiKey", "read">>, {"GET api-keys"})
  \cup Says(<<"apiKey", "create">>, {"POST api-keys"})
  \cup Says(<<"apiKey", "revoke">>, {"DELETE api-keys/:id"})
  \cup Says(<<"agent", "run">>, {"POST api/agents/:id/runs"})
  \cup Says(<<"agent", "read">>, {"GET api/agents"})
  \cup Says(<<"agentRun", "read">>, {
       "GET api/agent-runs/:id/steps", "GET api/agent-runs/:id"})
  \cup Says(<<"oauthConnection", "manage">>, {
       "POST oauth-connections/:id/start", "DELETE oauth-connections/:id"})
  \cup Says(<<"admin.oauth", "read">>, {"GET admin/oauth-providers"})
  \cup Says(<<"admin.oauth", "manage">>, {"PUT admin/oauth-providers/:id"})
  \cup Says(<<"mcpServer", "manage">>, {
       "POST mcp-servers/:id/check", "DELETE mcp-servers/:id",
       "PUT mcp-servers"})
  \cup Says(AnyMember, {"GET billing/promo-codes"})
  \cup Says(<<"promo", "redeem">>, {"POST billing/promo-codes/redeem"})

--------------------------------------------------------------------------------
(* app.ts mounts the routers; the document is built over what they hold.   *)
Routes ==
  UNION {AccountRoutes, PlanRoutes, WorkspaceRoutes, ProjectRoutes, BillingRoutes,
         UsageRoutes, ModelRoutes, PromoRoutes, KnowledgeRoutes, ChatRoutes,
         AttachmentRoutes, SpeechRoutes, AgentRoutes, AgentRunRoutes, ConnectionRoutes,
         WebhookRoutes, PublicApiRoutes, AdminRoutes, AdminSettingsRoutes}

RouteDocs ==
  UNION {DocsOfTenancy, DocsOfMoney, DocsOfContent, DocsOfAgents, DocsOfConsole,
         DocsOfRoles, DocsOfWebhooksAndVersions, DocsOfConnections}

Reads(op) == SubSeq(op, 1, 3) = "GET"

(* The two tables side by side.  What is open to any member asks for what  *)
(* every built-in role has, if anything; everything else documented asks   *)
(* for what the document says; and what changes something asks for what a  *)
(* viewer does not have.                                                   *)
Fits(r, d) ==
  IF d.access = AnyMember
  THEN /\ r.scope = "workspace"
       /\ \/ r.asks = NoKey
          \/ \A role \in DOMAIN WorkspaceSystemRoles : r.asks \in WorkspaceSystemRoles[role]
  ELSE r.scope # "session" /\ r.asks # NoKey /\ r.asks = d.access

TablesAgree ==
  /\ \A r \in Routes, d \in RouteDocs : r.op = d.op => Fits(r, d)
  /\ \A r \in Routes :
       r.scope = "workspace" /\ ~Reads(r.op) =>
         r.asks # NoKey /\ r.asks \notin WorkspaceSystemRoles["viewer"]

--------------------------------------------------------------------------------
(* The guards.                                                             *)
CONSTANTS None,
          Callers  \* a set of caller records

VARIABLES request,   \* the route and the caller, None before it arrives
          stage,     \* the guard it stands before
          status     \* the answer, None until there is one

arVars == <<request, stage, status>>

(* session: "none", "banned" or "live"; role: the built-in role of the     *)
(* caller's membership in the workspace of the path; effects: the grants   *)
(* on the resource of the path for the permission asked; console: its      *)
(* platform role; key: what its API key may do, None without one; keyHere: *)
(* the key belongs to the workspace of the path.                           *)
Caller ==
  [session : {"none", "banned", "live"},
   role : DOMAIN WorkspaceSystemRoles \cup {None}, effects : SUBSET {"allow", "deny"},
   console : DOMAIN PlatformSystemRoles \cup {"breakGlass", None},
   key : (SUBSET WorkspaceKeys) \cup {None}, keyHere : BOOLEAN]

Statuses == {"ok", "unauthorized", "forbidden", "notFound"}

ArTypeOK ==
  /\ Callers \subseteq Caller
  /\ request \in [route : Routes, caller : Callers] \cup {None}
  /\ stage \in {"session", "scope", "gate", "permission", "over", None}
  /\ status \in Statuses \cup {None}

ArInit == request = None /\ stage = None /\ status = None

by == request.caller
route == request.route

Refuse(why) == status' = why /\ stage' = "over" /\ UNCHANGED request
Pass(next) == stage' = next /\ UNCHANGED <<request, status>>
Serve == status' = "ok" /\ stage' = "over" /\ UNCHANGED request

--------------------------------------------------------------------------------
Receive ==
  /\ request = None
  /\ \E r \in Routes, c \in Callers :
       /\ request' = [route |-> r, caller |-> c]
       /\ stage' = IF r.scope = "apiKey" THEN "scope" ELSE "session"
       /\ UNCHANGED status

(* attachSession and requireAuth.                                          *)
RequireAuth ==
  /\ stage = "session"
  /\ IF by.session # "live" THEN Refuse("unauthorized")
     ELSE CASE route.scope = "session" -> Serve
            [] route.scope = "workspace" -> Pass("scope")
            [] route.scope = "console" -> Pass("gate")

(* workspaceScope: a workspace the caller is not in is one it cannot tell  *)
(* from one that is not there.                                             *)
WorkspaceScope ==
  /\ stage = "scope" /\ route.scope = "workspace"
  /\ IF by.role = None THEN Refuse("notFound")
     ELSE IF route.asks = NoKey THEN Serve ELSE Pass("permission")

(* attachApiKey and apiKeyWorkspaceScope: a key that does not resolve is   *)
(* refused, no key at all or a key of another workspace is not found.      *)
ApiKeyWorkspaceScope ==
  /\ stage = "scope" /\ route.scope = "apiKey"
  /\ IF by.key = {} THEN Refuse("unauthorized")
     ELSE IF by.key = None \/ ~by.keyHere THEN Refuse("notFound")
     ELSE Pass("permission")

(* requirePermission: a key's own set is asked instead of the membership's.*)
RequirePermission ==
  LET held == IF route.scope = "apiKey" THEN by.key ELSE WorkspaceSystemRoles[by.role] IN
  /\ stage = "permission" /\ route.scope # "console" /\ ~route.onResource
  /\ IF route.asks \in held THEN Serve ELSE Refuse("forbidden")

\* Mutant: an allow on the resource outweighs a deny on it.
DecideOnResource_AllowFirst(held, effects) ==
  DecideResourcePermission(held, effects \ IF "allow" \in effects THEN {"deny"} ELSE {})

(* memberHasOnResource: the role's answer and the grants on the resource.  *)
DecideOnResource(held, effects) == DecideResourcePermission(held, effects)

(* requireResourcePermission and requireResolvedResourcePermission.  The   *)
(* document a path names exists: one that does not is not found.           *)
RequireResourcePermission ==
  /\ stage = "permission" /\ route.onResource
  /\ IF DecideOnResource(route.asks \in WorkspaceSystemRoles[by.role], by.effects)
     THEN Serve ELSE Refuse("forbidden")

(* requirePlatformPermission, as the gate of the console and then for the  *)
(* route's own permission.                                                 *)
RequirePlatformPermission(key, next) ==
  IF \/ by.console = "breakGlass"
     \/ by.console # None /\ key \in PlatformSystemRoles[by.console]
  THEN IF next = "over" THEN Serve ELSE Pass(next)
  ELSE Refuse("forbidden")

RequireAdminConsole ==
  /\ stage = "gate"
  /\ RequirePlatformPermission(<<"admin.console", "access">>, "permission")

RequireConsolePermission ==
  /\ stage = "permission" /\ route.scope = "console"
  /\ RequirePlatformPermission(route.asks, "over")

ArNext ==
  \/ Receive \/ RequireAuth \/ WorkspaceScope \/ ApiKeyWorkspaceScope
  \/ RequirePermission \/ RequireResourcePermission
  \/ RequireAdminConsole \/ RequireConsolePermission

ArSpec == ArInit /\ [][ArNext]_arVars

--------------------------------------------------------------------------------
Holds(key) ==
  CASE route.scope = "apiKey" -> by.key # None /\ key \in by.key
    [] route.scope = "console" ->
         \/ by.console = "breakGlass"
         \/ by.console # None /\ key \in PlatformSystemRoles[by.console]
    [] OTHER -> by.role # None /\ key \in WorkspaceSystemRoles[by.role]

(* What the API document says an operation requires is what its route asks:*)
(* who holds it is let in unless a grant denies the resource, who does not *)
(* is let in only where a grant allows it, and what is open to any member  *)
(* is open to the members of every built-in role.                          *)
DocumentedAccess ==
  \A d \in RouteDocs :
    stage = "over" /\ d.op = route.op =>
      LET holds == IF d.access = AnyMember THEN by.role # None ELSE Holds(d.access) IN
      /\ status = "ok" => holds \/ (route.onResource /\ by.effects = {"allow"})
      /\ status = "forbidden" =>
           \/ ~holds
           \/ route.onResource /\ "deny" \in by.effects
           \/ route.scope = "console" /\ ~Holds(<<"admin.console", "access">>)

(* Nobody outside a workspace is told that it exists, and nobody with a    *)
(* viewer's role alone gets past a route that changes something or spends  *)
(* credits, in whichever router it is.                                     *)
ViewersOnlyLook ==
  stage = "over" /\ route.scope = "workspace" /\ status # "unauthorized" =>
    /\ by.role = None => status = "notFound"
    /\ by.role = "viewer" /\ ~Reads(route.op) /\ "allow" \notin by.effects
         => status = "forbidden"
================================================================================
