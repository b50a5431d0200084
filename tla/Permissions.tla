------------------------------ MODULE Permissions ------------------------------
(***************************************************************************)
(* The roles of one workspace's members, the cache of what each may do and *)
(* the API keys that act through a membership: rbac.service.ts,            *)
(* rbac.repository.ts, permission.service.ts and apikey.service.ts, with   *)
(* the organization hooks of auth.ts.                                      *)
(*                                                                         *)
(* One step is one statement or transaction of the database, one call of   *)
(* Redis, or one write of Better Auth, so requests interleave between them.*)
(* A Redis call may fail; the code logs it and goes on.                    *)
(***************************************************************************)
EXTENDS PermissionCatalogue, Naturals, FiniteSets

CONSTANTS Members, CustomRoles, ApiKeys, Requests,
          Keys,          \* the workspace permissions the instance tells apart
          RoleStrings,   \* what Better Auth may hold in member.role
          FirstRole,     \* member.role at the start, by member
          MaxChanges,    \* bound on administrative changes
          None, Gone

VARIABLES role,        \* member.role; None before the membership, Gone after it
          memberRole,  \* member_role
          rolePerm,    \* role_permission of the workspace's own roles
          apiKey,      \* api_key
          cache,       \* perm:member:<id> in Redis
          req,         \* what each request has read and is about to do
          changes,     \* how many administrative changes have begun
          granted,     \* history: every permission a membership ever held
          author,      \* history: who last wrote each role
          raced        \* history: memberships two writers were setting at once

vars == <<role, memberRole, rolePerm, apiKey, cache, req, changes, granted,
          author, raced>>

SystemRoles == DOMAIN WorkspaceSystemRoles
RoleIds == SystemRoles \cup CustomRoles

Exists(m) == role[m] \in RoleStrings

(* primarySystemRoleId: a string that names no built-in role is "member".  *)
PrimarySystemRole(roleString) ==
  IF roleString \in SystemRoles THEN roleString ELSE "member"

RolePermissions(r) ==
  IF r \in SystemRoles THEN WorkspaceSystemRoles[r] \cap Keys
  ELSE rolePerm[r]

(* listMemberPermissions.                                                  *)
ListMemberPermissions(m) == UNION {RolePermissions(r) : r \in memberRole[m]}

(* countRoleHolders.                                                       *)
RoleHolders(r) == {m \in Members : r \in memberRole[m]}

MemberRoleRow == [Members -> SUBSET RoleIds]
RolePermissionRow == [CustomRoles -> (SUBSET Keys) \cup {None}]
ApiKeyRow == [member : Members, permissions : SUBSET Keys, revoked : BOOLEAN]

Idle == [op |-> None]

(* What a request carries between its steps: the membership it acts as or  *)
(* on, the role or key it names, the permissions it asks for, the stage it *)
(* has reached, the built-in role it read, and the permissions it was told.*)
Request ==
  [op : {"require", "createRole", "updateRole", "deleteRole", "setMemberRoles", "syncRole",
         "removed", "createKey", "useKey"},
   on : Members, target : RoleIds \cup ApiKeys \cup {None}, asks : SUBSET Keys,
   stage : {"list", "heal", "put", "held", "write", "forget", "flush",
            "done"},
   seen : SystemRoles \cup {None}, held : SUBSET Keys]

TypeOK ==
  /\ role \in [Members -> RoleStrings \cup {None, Gone}]
  /\ memberRole \in MemberRoleRow
  /\ rolePerm \in RolePermissionRow
  /\ apiKey \in [ApiKeys -> ApiKeyRow \cup {None}]
  /\ cache \in [Members -> (SUBSET Keys) \cup {None}]
  /\ req \in [Requests -> Request \cup {Idle}]
  /\ changes \in 0 .. MaxChanges
  /\ granted \in [Members -> SUBSET Keys]
  /\ author \in [CustomRoles -> Members \cup {None}]
  /\ raced \subseteq Members

(* The creator's membership is written inside createOrganization, where no *)
(* hook runs: every membership of the start has a role string and no rows. *)
Init ==
  /\ role = FirstRole
  /\ memberRole = [m \in Members |-> {}]
  /\ rolePerm = [r \in CustomRoles |-> None]
  /\ apiKey = [k \in ApiKeys |-> None]
  /\ cache = [m \in Members |-> None]
  /\ req = [q \in Requests |-> Idle]
  /\ changes = 0
  /\ granted = [m \in Members |-> {}]
  /\ author = [r \in CustomRoles |-> None]
  /\ raced = {}

--------------------------------------------------------------------------------
(* Helpers of the steps.                                                   *)

Begin(q, op, m, target, asks, stage, seen, held) ==
  /\ req[q] = Idle
  /\ req' = [req EXCEPT ![q] = [op |-> op, on |-> m, target |-> target,
                                asks |-> asks, stage |-> stage, seen |-> seen,
                                held |-> held]]

Change == changes < MaxChanges /\ changes' = changes + 1

At(q, stage) == req[q] # Idle /\ req[q].stage = stage

GoTo(q, stage) == req' = [req EXCEPT ![q].stage = stage]
End(q) == req' = [req EXCEPT ![q] = Idle]

(* A request that has read a role string and not yet written the row.      *)
Setting(m) ==
  {q \in Requests : /\ req[q] # Idle /\ req[q].on = m
                    /\ req[q].seen # None /\ req[q].stage \in {"heal", "write"}}

Race(q, m) ==
  raced' = IF Setting(m) \ {q} # {} THEN raced \cup {m} ELSE raced

(* The history of what each membership held, after every write of a role.  *)
Remember ==
  granted' = [m \in Members |->
                granted[m] \cup UNION {IF r \in SystemRoles THEN RolePermissions(r)
                                       ELSE rolePerm'[r] : r \in memberRole'[m]}]

tables == <<role, memberRole, rolePerm, apiKey>>
history == <<granted, author, raced>>

--------------------------------------------------------------------------------
(* What a membership may do: permissionService.forMember.                  *)

Told(op) == IF op = "require" THEN "done" ELSE "held"

(* readCache: a set that is cached is the answer; a miss, or a failure of  *)
(* Redis, sends the request to the tables.  What an operation reads before *)
(* this it checks again by a constraint when it writes, so both are a step.*)
ForMember(q, op, m, target, asks) ==
  \/ cache[m] # None /\ Begin(q, op, m, target, asks, Told(op), None, cache[m])
  \/ Begin(q, op, m, target, asks, "list", None, {})

(* listMemberPermissions, and findMemberById when it lists nothing.        *)
ListPermissions(q) ==
  LET m == req[q].on
      found == ListMemberPermissions(m)
      heals == found = {} /\ req[q].seen = None /\ Exists(m)
  IN /\ At(q, "list")
     /\ req' = [req EXCEPT ![q].held = found,
                           ![q].stage = IF heals THEN "heal" ELSE "put",
                           ![q].seen = IF heals THEN PrimarySystemRole(role[m])
                                       ELSE @]
     /\ UNCHANGED <<tables, cache, changes, history>>

\* Mutant: the old built-in role is left beside the new one.
ReplaceSystemMemberRole_KeepsOld(m, r) ==
  memberRole' = [memberRole EXCEPT ![m] = @ \cup {r}]

(* replaceSystemMemberRole: the built-in role is swapped, custom ones stay.*)
ReplaceSystemMemberRole(m, r) ==
  memberRole' = [memberRole EXCEPT ![m] = (@ \ SystemRoles) \cup {r}]

(* healFromBetterAuthRole.  The insert for a membership that is gone by    *)
(* then breaks its foreign key and the request fails.                      *)
HealRole(q) ==
  LET m == req[q].on IN
  /\ At(q, "heal")
  /\ IF ~Exists(m)
     THEN End(q) /\ UNCHANGED <<memberRole, raced>>
     ELSE /\ ReplaceSystemMemberRole(m, req[q].seen)
          /\ GoTo(q, "list") /\ Race(q, m)
  /\ UNCHANGED <<role, rolePerm, apiKey, cache, changes, author>>
  /\ Remember

(* writeCache, which may fail.                                             *)
PutCached(q) ==
  /\ At(q, "put")
  /\ \/ cache' = [cache EXCEPT ![req[q].on] = req[q].held]
     \/ UNCHANGED cache
  /\ GoTo(q, Told(req[q].op))
  /\ UNCHANGED <<tables, changes, history>>

\* Mutant: a cached set is written without its expiry.
ExpireCached_Never(m) == FALSE /\ UNCHANGED vars

(* The sixty seconds a cached set is kept have passed.                     *)
ExpireCached(m) ==
  /\ cache[m] # None
  /\ cache' = [cache EXCEPT ![m] = None]
  /\ UNCHANGED <<tables, req, changes, history>>

(* invalidateMember.                                                       *)
InvalidateMember(q) ==
  /\ At(q, "forget")
  /\ \/ cache' = [cache EXCEPT ![req[q].on] = None]
     \/ UNCHANGED cache
  /\ End(q)
  /\ UNCHANGED <<tables, changes, history>>

(* invalidateAll: a scan that unlinks what it meets, not one transaction.  *)
InvalidateAll(q) ==
  /\ At(q, "flush")
  /\ \E kept \in SUBSET {m \in Members : cache[m] # None} :
       cache' = [m \in Members |-> IF m \in kept THEN cache[m] ELSE None]
  /\ End(q)
  /\ UNCHANGED <<tables, changes, history>>

(* requirePermission: a route's own question, answered from the set told.  *)
RequirePermission(q) ==
  /\ \E m \in Members :
       Exists(m) /\ ForMember(q, "require", m, None, {})
  /\ UNCHANGED <<tables, cache, changes, history>>

Respond(q) ==
  /\ At(q, "done")
  /\ End(q)
  /\ UNCHANGED <<tables, cache, changes, history>>

--------------------------------------------------------------------------------
(* The workspace's own roles.                                              *)

(* createWorkspaceRole: refused when the key is taken; asks what the author*)
(* holds before it writes.                                                 *)
BeginCreateRole(q) ==
  /\ Change
  /\ \E m \in Members, r \in CustomRoles, asks \in SUBSET Keys :
       /\ Exists(m) /\ rolePerm[r] = None
       /\ ForMember(q, "createRole", m, r, asks)
  /\ UNCHANGED <<tables, cache, history>>

(* updateWorkspaceRole with permissions: only a role the workspace owns.   *)
BeginUpdateRole(q) ==
  /\ Change
  /\ \E m \in Members, r \in CustomRoles, asks \in SUBSET Keys :
       /\ Exists(m) /\ rolePerm[r] # None
       /\ ForMember(q, "updateRole", m, r, asks)
  /\ UNCHANGED <<tables, cache, history>>

\* Mutant: what the author holds is not asked.
AssertMemberMayGrant_Unchecked(q) == TRUE

(* assertMemberMayGrant.                                                   *)
AssertMemberMayGrant(q) == req[q].asks \subseteq req[q].held

(* createRole and updateRole of the repository, one transaction each: a key*)
(* taken meanwhile breaks the unique index, a role deleted meanwhile the   *)
(* foreign key of its permissions.                                         *)
WriteRole(q) ==
  LET r == req[q].target
      fits == (req[q].op = "createRole") <=> (rolePerm[r] = None)
  IN
  /\ At(q, "held") /\ req[q].op \in {"createRole", "updateRole"}
  /\ IF AssertMemberMayGrant(q) /\ fits
     THEN /\ rolePerm' = [rolePerm EXCEPT ![r] = req[q].asks]
          /\ author' = [author EXCEPT ![r] = req[q].on]
          /\ IF req[q].op = "createRole" THEN End(q) ELSE GoTo(q, "flush")
     ELSE End(q) /\ UNCHANGED <<rolePerm, author>>
  /\ UNCHANGED <<role, memberRole, apiKey, cache, changes, raced>>
  /\ Remember

(* deleteWorkspaceRole: counts the holders, then deletes the row, which    *)
(* takes its member_role rows with it.                                     *)
BeginDeleteRole(q) ==
  /\ Change
  /\ \E m \in Members, r \in CustomRoles :
       /\ Exists(m) /\ rolePerm[r] # None /\ RoleHolders(r) = {}
       /\ Begin(q, "deleteRole", m, r, {}, "write", None, {})
  /\ UNCHANGED <<tables, cache, history>>

DeleteRole(q) ==
  LET r == req[q].target IN
  /\ At(q, "write") /\ req[q].op = "deleteRole"
  /\ rolePerm' = [rolePerm EXCEPT ![r] = None]
  /\ memberRole' = [m \in Members |-> memberRole[m] \ {r}]
  /\ GoTo(q, "flush")
  /\ UNCHANGED <<role, apiKey, cache, changes, history>>

(* setMemberRoles: reads the membership and refuses a set without exactly  *)
(* the built-in role its string names, then replaces every row.  asks is   *)
(* unused; target is the one custom role of the set, or None.              *)
BeginSetMemberRoles(q) ==
  /\ Change
  /\ \E m \in Members, r \in {c \in CustomRoles : rolePerm[c] # None} \cup {None} :
       /\ Exists(m)
       /\ Begin(q, "setMemberRoles", m, r, {}, "write", PrimarySystemRole(role[m]), {})
  /\ UNCHANGED <<tables, cache, history>>

(* replaceMemberRoles.  A membership or a role that is gone by then breaks *)
(* a foreign key and the transaction is undone.                            *)
ReplaceMemberRoles(q) ==
  LET m == req[q].on
      custom == {req[q].target} \ {None}
      exists == Exists(m) /\ \A r \in custom : rolePerm[r] # None
  IN /\ At(q, "write") /\ req[q].op = "setMemberRoles"
     /\ IF exists
        THEN /\ memberRole' = [memberRole EXCEPT ![m] = {req[q].seen} \cup custom]
             /\ GoTo(q, "forget") /\ Race(q, m)
        ELSE End(q) /\ UNCHANGED <<memberRole, raced>>
     /\ UNCHANGED <<role, rolePerm, apiKey, cache, changes, author>>
     /\ Remember

--------------------------------------------------------------------------------
(* Better Auth writes member.role; its hooks carry the string to the rows. *)

(* Better Auth's addMember and updateMemberRole, before their hooks.       *)
WriteRoleString(q) ==
  /\ Change
  /\ \E m \in Members, s \in RoleStrings :
       /\ role[m] # s /\ role[m] # Gone
       /\ Begin(q, "syncRole", m, None, {}, "write", PrimarySystemRole(s), {})
       /\ role' = [role EXCEPT ![m] = s]
       /\ Race(q, m)
  /\ UNCHANGED <<memberRole, rolePerm, apiKey, cache, granted, author>>

(* afterAddMember and afterUpdateMemberRole: syncFromBetterAuthRole.  A    *)
(* process that dies before its hook leaves the rows as they were.         *)
SyncFromBetterAuthRole(q) ==
  LET m == req[q].on IN
  /\ At(q, "write") /\ req[q].op = "syncRole"
  /\ IF Exists(m)
     THEN ReplaceSystemMemberRole(m, req[q].seen) /\ GoTo(q, "forget")
     ELSE End(q) /\ UNCHANGED memberRole
  /\ UNCHANGED <<role, rolePerm, apiKey, cache, changes, author>>
  /\ Race(q, m) /\ Remember

(* An accepted invitation: Better Auth writes the membership, and no hook  *)
(* of the application runs.                                                *)
AcceptInvitation(m, s) ==
  /\ Change
  /\ role[m] = None
  /\ role' = [role EXCEPT ![m] = s]
  /\ UNCHANGED <<memberRole, rolePerm, apiKey, cache, req, history>>

(* Better Auth's removeMember: the row goes, and its roles and keys with   *)
(* it; then afterRemoveMember forgets the cached set.                      *)
RemoveMember(q) ==
  /\ Change
  /\ \E m \in Members :
       /\ Exists(m)
       /\ Begin(q, "removed", m, None, {}, "forget", None, {})
       /\ role' = [role EXCEPT ![m] = Gone]
       /\ memberRole' = [memberRole EXCEPT ![m] = {}]
       /\ apiKey' = [k \in ApiKeys |-> IF apiKey[k] # None /\ apiKey[k].member = m
                                       THEN None ELSE apiKey[k]]
  /\ UNCHANGED <<rolePerm, cache, history>>

--------------------------------------------------------------------------------
(* API keys.                                                               *)

(* apiKeyService.create asks what the creator holds, refuses an empty set  *)
(* or one past it, and inserts.                                            *)
BeginCreateKey(q) ==
  /\ Change
  /\ \E m \in Members, k \in ApiKeys, asks \in (SUBSET Keys) \ {{}} :
       /\ Exists(m) /\ apiKey[k] = None
       /\ ForMember(q, "createKey", m, k, asks)
  /\ UNCHANGED <<tables, cache, history>>

CreateKey(q) ==
  LET k == req[q].target IN
  /\ At(q, "held") /\ req[q].op = "createKey"
  /\ apiKey' = IF /\ AssertMemberMayGrant(q)
                  /\ apiKey[k] = None /\ Exists(req[q].on)
               THEN [apiKey EXCEPT ![k] = [member |-> req[q].on,
                                           permissions |-> req[q].asks,
                                           revoked |-> FALSE]]
               ELSE apiKey
  /\ End(q)
  /\ UNCHANGED <<role, memberRole, rolePerm, cache, changes, history>>

RevokeKey(k) ==
  /\ Change
  /\ apiKey[k] # None /\ ~apiKey[k].revoked
  /\ apiKey' = [apiKey EXCEPT ![k].revoked = TRUE]
  /\ UNCHANGED <<role, memberRole, rolePerm, cache, req, history>>

(* apiKeyService.resolve: finds a key that is not revoked and whose        *)
(* membership exists, then asks what the membership holds.                 *)
ResolveKey(q) ==
  /\ \E k \in ApiKeys :
       /\ apiKey[k] # None /\ ~apiKey[k].revoked
       /\ ForMember(q, "useKey", apiKey[k].member, k, apiKey[k].permissions)
  /\ UNCHANGED <<tables, cache, changes, history>>

(* What a key may do is what it was given and its membership still holds.  *)
KeyPermissions(q) == req[q].asks \cap req[q].held

UseKey(q) ==
  /\ At(q, "held") /\ req[q].op = "useKey"
  /\ IF KeyPermissions(q) = {} THEN End(q)
     ELSE req' = [req EXCEPT ![q].stage = "done", ![q].held = KeyPermissions(q)]
  /\ UNCHANGED <<tables, cache, changes, history>>

--------------------------------------------------------------------------------
Step(q) ==
  \/ ListPermissions(q) \/ HealRole(q) \/ PutCached(q)
  \/ InvalidateMember(q) \/ InvalidateAll(q) \/ Respond(q)
  \/ WriteRole(q) \/ DeleteRole(q) \/ ReplaceMemberRoles(q)
  \/ SyncFromBetterAuthRole(q) \/ CreateKey(q) \/ UseKey(q)

Next ==
  \/ \E q \in Requests : Step(q)
  \/ \E q \in Requests :
       \/ RequirePermission(q) \/ BeginCreateRole(q) \/ BeginUpdateRole(q) \/ BeginDeleteRole(q)
       \/ BeginSetMemberRoles(q) \/ WriteRoleString(q) \/ RemoveMember(q)
       \/ BeginCreateKey(q) \/ ResolveKey(q)
  \/ \E m \in Members : ExpireCached(m)
  \/ \E m \in Members, s \in RoleStrings : AcceptInvitation(m, s)
  \/ \E k \in ApiKeys : RevokeKey(k)

(* A request that has begun goes on, and Redis drops a key when its time   *)
(* is up; nobody has to send a request or change a role.                   *)
Fairness ==
  /\ \A q \in Requests : WF_vars(Step(q))
  /\ \A m \in Members : WF_vars(ExpireCached(m))

Spec == Init /\ [][Next]_vars /\ Fairness

--------------------------------------------------------------------------------
(* A membership whose role was never set by two writers at once holds      *)
(* exactly the built-in role its string names, or none until the first     *)
(* question heals it; a membership that is gone holds nothing.             *)
OneBuiltInRole ==
  \A m \in Members :
    IF ~Exists(m) THEN memberRole[m] = {}
    ELSE m \notin raced /\ Setting(m) = {}
           => memberRole[m] \cap SystemRoles \subseteq {PrimarySystemRole(role[m])}

(* Whatever a role of the workspace gives, its author had itself been      *)
(* given, at some moment, by a role it held: composing a role cannot make  *)
(* a permission out of nothing, whatever the cache served.                 *)
AuthorsGiveWhatTheyHeld ==
  /\ \A r \in CustomRoles :
       rolePerm[r] # None => rolePerm[r] \subseteq granted[author[r]]
  /\ \A k \in ApiKeys :
       apiKey[k] # None => apiKey[k].permissions \subseteq granted[apiKey[k].member]

(* Once roles stop changing, every cached set and every answer, a key's    *)
(* included, is in the end what the tables give: no lost invalidation and  *)
(* no reader that was overtaken by a change is served for ever.            *)
AnswersConverge ==
  <>[](/\ \A m \in Members : cache[m] \in {None, ListMemberPermissions(m)}
       /\ \A q \in Requests :
            At(q, "done") => req[q].held \subseteq ListMemberPermissions(req[q].on))
================================================================================
