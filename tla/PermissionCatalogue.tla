-------------------------- MODULE PermissionCatalogue --------------------------
(***************************************************************************)
(* What a caller may be allowed to do, and which built-in role allows it:  *)
(* auth/permissions/catalogue.ts.  A key is the pair of the resource and   *)
(* the action the source joins with a dot; names and descriptions are left *)
(* out.  Permissions and PlatformRoles take the built-in roles from here.  *)
(***************************************************************************)

On(resource, actions) == {resource} \X actions

(* WORKSPACE_PERMISSIONS, in the four stretches the source lists them in.  *)
TenancyKeys ==
  On("workspace", {"read", "update", "delete"})
    \cup On("member", {"read", "update", "remove"})
    \cup On("invitation", {"read", "create", "revoke"})
    \cup On("role", {"read", "manage"})
    \cup On("project", {"read", "create", "update", "archive", "delete"})

ContentKeys ==
  On("knowledgeBase", {"read", "create", "update", "delete"})
    \cup On("document", {"read", "create", "update", "delete"})
    \cup On("conversation", {"read", "create", "update", "delete"})
    \cup On("chat", {"send"})

AgentKeys ==
  On("agent", {"read", "create", "update", "publish", "delete", "run"})
    \cup On("agentRun", {"read", "control"})
    \cup On("attachment", {"read", "create", "delete"})
    \cup On("speech", {"transcribe", "synthesize"})
    \cup On("model", {"read", "manage"})
    \cup On("connection", {"read", "manage"})

OperationKeys ==
  On("webhook", {"read", "manage"}) \cup On("widget", {"read", "manage"})
    \cup On("dataSource", {"read", "manage"})
    \cup On("oauthConnection", {"read", "manage"})
    \cup On("mcpServer", {"read", "manage"}) \cup On("billing", {"read", "manage"})
    \cup On("transaction", {"read"}) \cup On("usage", {"read"})
    \cup On("promo", {"read", "redeem"})
    \cup On("apiKey", {"read", "create", "revoke"}) \cup On("audit", {"read"})

WorkspaceKeys == TenancyKeys \cup ContentKeys \cup AgentKeys \cup OperationKeys

(* PLATFORM_PERMISSIONS: the console's, each under the prefix "admin".     *)
AccountKeys ==
  On("admin.console", {"access"})
    \cup On("admin.user", {"read", "manage", "impersonate"})
    \cup On("admin.workspace", {"read", "manage"})
    \cup On("admin.credit", {"adjust"}) \cup On("admin.usage", {"read"})
    \cup On("admin.promo", {"read", "manage"})

ConsoleKeys ==
  On("admin.provider", {"read", "manage"}) \cup On("admin.model", {"read", "manage"})
    \cup On("admin.speech", {"read", "manage"})
    \cup On("admin.integration", {"read", "manage"})
    \cup On("admin.oauth", {"read", "manage"}) \cup On("admin.mcp", {"read", "manage"})
    \cup On("admin.role", {"read", "manage"}) \cup On("admin.errors", {"read"})
    \cup On("admin.audit", {"read"}) \cup On("admin.setting", {"read", "manage"})

PlatformKeys == AccountKeys \cup ConsoleKeys

(* Reads that show how the workspace is run rather than what is in it.     *)
RestrictedReadKeys ==
  {"invitation", "transaction", "audit", "apiKey", "webhook"} \X {"read"}

GeneralReadKeys ==
  {k \in WorkspaceKeys : k[2] = "read"} \ RestrictedReadKeys

(* WORKSPACE_SYSTEM_ROLES.                                                 *)
BuilderKeys ==
  GeneralReadKeys
    \cup On("project", {"create", "update"})
    \cup On("knowledgeBase", {"create", "update"})
    \cup On("document", {"create", "update", "delete"})
    \cup On("conversation", {"create", "update", "delete"})
    \cup On("chat", {"send"})
    \cup On("agent", {"create", "update", "publish", "delete", "run"})
    \cup On("agentRun", {"control"}) \cup On("attachment", {"create", "delete"})
    \cup On("speech", {"transcribe", "synthesize"})

WorkspaceSystemRoles ==
  [owner  |-> WorkspaceKeys,
   admin  |-> WorkspaceKeys \ {<<"workspace", "delete">>, <<"project", "delete">>},
   member |-> BuilderKeys,
   viewer |-> GeneralReadKeys]

(* PLATFORM_SYSTEM_ROLES.                                                  *)
AuditorKeys ==
  {k \in PlatformKeys : k[2] = "read"} \cup On("admin.console", {"access"})

PlatformSystemRoles ==
  [superadmin |-> PlatformKeys,
   support |-> (AuditorKeys \ On("admin.usage", {"read"}))
                  \cup On("admin.user", {"impersonate"}),
   finance |-> On("admin.console", {"access"})
                  \cup On("admin.workspace", {"read", "manage"})
                  \cup On("admin.credit", {"adjust"}) \cup On("admin.usage", {"read"})
                  \cup On("admin.promo", {"read", "manage"})
                  \cup On("admin.model", {"read"}) \cup On("admin.audit", {"read"}),
   auditor |-> AuditorKeys]

(* decideResourcePermission: a denial on the resource wins, an allowance   *)
(* can only widen what the roles gave.                                     *)
DecideResourcePermission(grantedByRole, effects) ==
  /\ "deny" \notin effects
  /\ grantedByRole \/ "allow" \in effects
================================================================================
