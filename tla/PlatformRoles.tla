------------------------------ MODULE PlatformRoles ----------------------------
(***************************************************************************)
(* Who may use the administration console: the platform roles of accounts, *)
(* their cache, the roles an administrator composes and the administrators *)
(* who need no row, of rbac.service.ts, permission.service.ts and          *)
(* break-glass.ts.  A step is one statement or one call of Redis.          *)
(***************************************************************************)
EXTENDS PermissionCatalogue, Naturals, FiniteSets

CONSTANTS Accounts, ComposedRoles, Requests,
          ConsoleKeysInPlay,  \* the platform permissions told apart
          BuiltIn,            \* the built-in platform roles told apart
          AdminUserIds,       \* ADMIN_USER_IDS and accounts whose role is admin
          FirstPlatformRoles, \* the built-in roles of each account at the start
          MaxChanges, None

VARIABLES platformRole,  \* user_platform_role
          composed,      \* role_permission of the composed roles, None if absent
          userCache,     \* perm:user:<id> in Redis
          ask,           \* what each request has read and is about to write
          begun,         \* how many requests have begun
          heldOnce,      \* history: every permission an account ever held
          composer,      \* history: who last composed each role
          overtaken      \* history: two changes of platform roles overlapped

prVars == <<platformRole, composed, userCache, ask, begun, heldOnce, composer,
            overtaken>>

history == <<heldOnce, composer, overtaken>>

PlatformRoleIds == BuiltIn \cup ComposedRoles

KeysOf(r) ==
  IF r \in BuiltIn THEN PlatformSystemRoles[r] \cap ConsoleKeysInPlay
  ELSE IF composed[r] = None THEN {} ELSE composed[r]

(* listPlatformPermissions.                                                *)
ListPlatformPermissions(u) == UNION {KeysOf(r) : r \in platformRole[u]}

UserPlatformRoleRow == [Accounts -> SUBSET PlatformRoleIds]

Ask ==
  [op : {"compose", "deleteRole", "setRoles"}, by : Accounts,
   user : Accounts \cup {None}, roles : SUBSET PlatformRoleIds,
   keys : SUBSET ConsoleKeysInPlay,
   stage : {"get", "list", "put", "held", "write", "forget", "flush"},
   held : SUBSET ConsoleKeysInPlay]

PrTypeOK ==
  /\ platformRole \in UserPlatformRoleRow
  /\ composed \in [ComposedRoles -> (SUBSET ConsoleKeysInPlay) \cup {None}]
  /\ userCache \in [Accounts -> (SUBSET ConsoleKeysInPlay) \cup {None}]
  /\ ask \in [Requests -> Ask \cup {None}] /\ begun \in 0 .. MaxChanges
  /\ heldOnce \in [Accounts -> SUBSET ConsoleKeysInPlay] /\ overtaken \in BOOLEAN
  /\ composer \in [ComposedRoles -> Accounts \cup {None}]

PrInit ==
  /\ platformRole = FirstPlatformRoles
  /\ composed = [r \in ComposedRoles |-> None]
  /\ userCache = [u \in Accounts |-> None]
  /\ ask = [q \in Requests |-> None] /\ begun = 0
  /\ heldOnce = [u \in Accounts |->
                   UNION {PlatformSystemRoles[r] \cap ConsoleKeysInPlay :
                            r \in FirstPlatformRoles[u]}]
  /\ composer = [r \in ComposedRoles |-> None]
  /\ overtaken = FALSE

--------------------------------------------------------------------------------
IsBreakGlassAdmin(u) == u \in AdminUserIds

Superadmins == {u \in Accounts : "superadmin" \in platformRole[u]}

AskAt(q, stage) == ask[q] # None /\ ask[q].stage = stage
AskGoTo(q, stage) == ask' = [ask EXCEPT ![q].stage = stage]
AskEnd(q) == ask' = [ask EXCEPT ![q] = None]

(* A new request begins by asking what its account holds; an account that  *)
(* needs no row is answered without a look at the tables.                  *)
AskBegin(q, op, u, user, roles, keys) ==
  /\ ask[q] = None /\ begun < MaxChanges /\ begun' = begun + 1
  /\ ask' = [ask EXCEPT ![q] =
               [op |-> op, by |-> u, user |-> user, roles |-> roles, keys |-> keys,
                stage |-> IF op = "deleteRole" THEN "write"
                          ELSE IF IsBreakGlassAdmin(u) THEN "held" ELSE "get",
                held |-> IF IsBreakGlassAdmin(u) THEN ConsoleKeysInPlay ELSE {}]]

AskRemember ==
  heldOnce' = [u \in Accounts |->
                 heldOnce[u] \cup UNION {IF r \in BuiltIn THEN KeysOf(r)
                                         ELSE composed'[r] : r \in platformRole'[u]}]

--------------------------------------------------------------------------------
(* forPlatformUser.                                                        *)
GetUserCache(q) ==
  /\ AskAt(q, "get")
  /\ \/ /\ userCache[ask[q].by] # None
        /\ ask' = [ask EXCEPT ![q].stage = "held", ![q].held = userCache[ask[q].by]]
     \/ AskGoTo(q, "list")
  /\ UNCHANGED <<platformRole, composed, userCache, begun, history>>

ListUserPermissions(q) ==
  /\ AskAt(q, "list")
  /\ ask' = [ask EXCEPT ![q].stage = "put",
                        ![q].held = ListPlatformPermissions(ask[q].by)]
  /\ UNCHANGED <<platformRole, composed, userCache, begun, history>>

PutUserCache(q) ==
  /\ AskAt(q, "put")
  /\ \/ userCache' = [userCache EXCEPT ![ask[q].by] = ask[q].held]
     \/ UNCHANGED userCache
  /\ AskGoTo(q, "held")
  /\ UNCHANGED <<platformRole, composed, begun, history>>

ExpireUserCache(u) ==
  /\ userCache[u] # None /\ userCache' = [userCache EXCEPT ![u] = None]
  /\ UNCHANGED <<platformRole, composed, ask, begun, history>>

(* assertMayGrant: nobody grants a platform permission they do not hold.   *)
AssertMayGrant(q, keys) == keys \subseteq ask[q].held

--------------------------------------------------------------------------------
(* createRole and updateRole of the console: compose a platform role.      *)
BeginCompose(q) ==
  /\ \E u \in Accounts, r \in ComposedRoles,
        keys \in (SUBSET ConsoleKeysInPlay) \ {{}} : AskBegin(q, "compose", u, None, {r}, keys)
  /\ UNCHANGED <<platformRole, composed, userCache, history>>

ComposeRole(q) ==
  LET r == CHOOSE x \in ask[q].roles : TRUE IN
  /\ AskAt(q, "held") /\ ask[q].op = "compose"
  /\ IF AssertMayGrant(q, ask[q].keys)
     THEN /\ composed' = [composed EXCEPT ![r] = ask[q].keys]
          /\ composer' = [composer EXCEPT ![r] = ask[q].by]
          /\ IF composed[r] = None THEN AskEnd(q) ELSE AskGoTo(q, "flush")
     ELSE AskEnd(q) /\ UNCHANGED <<composed, composer>>
  /\ UNCHANGED <<platformRole, userCache, begun, overtaken>>
  /\ AskRemember

(* deleteRole: a built-in role is refused, a role somebody holds is.       *)
BeginDeleteRole(q) ==
  /\ \E u \in Accounts, r \in ComposedRoles :
       /\ composed[r] # None /\ \A v \in Accounts : r \notin platformRole[v]
       /\ AskBegin(q, "deleteRole", u, None, {r}, {})
  /\ UNCHANGED <<platformRole, composed, userCache, history>>

DeleteRole(q) ==
  /\ AskAt(q, "write") /\ ask[q].op = "deleteRole"
  /\ composed' = [r \in ComposedRoles |-> IF r \in ask[q].roles THEN None ELSE composed[r]]
  /\ platformRole' = [u \in Accounts |-> platformRole[u] \ ask[q].roles]
  /\ AskGoTo(q, "flush")
  /\ UNCHANGED <<userCache, begun, history>>

(* invalidateAll.                                                          *)
FlushUserCaches(q) ==
  /\ AskAt(q, "flush")
  /\ \E kept \in SUBSET Accounts :
       userCache' = [u \in Accounts |-> IF u \in kept THEN userCache[u] ELSE None]
  /\ AskEnd(q)
  /\ UNCHANGED <<platformRole, composed, begun, history>>

(* setPlatformRoles: every role must exist, then the grant is checked.     *)
BeginSetPlatformRoles(q) ==
  /\ \E u, v \in Accounts, roles \in SUBSET PlatformRoleIds :
       /\ \A r \in roles \cap ComposedRoles : composed[r] # None
       /\ AskBegin(q, "setRoles", u, v, roles, UNION {KeysOf(r) : r \in roles})
  /\ UNCHANGED <<platformRole, composed, userCache, history>>

(* assertNotLastSuperadmin.                                                *)
AssertNotLastSuperadmin(u, incoming) ==
  \/ "superadmin" \in incoming
  \/ "superadmin" \notin platformRole[u]
  \/ Cardinality(Superadmins) > 1

CheckSetPlatformRoles(q) ==
  /\ AskAt(q, "held") /\ ask[q].op = "setRoles"
  /\ IF /\ AssertMayGrant(q, ask[q].keys)
        /\ AssertNotLastSuperadmin(ask[q].user, ask[q].roles)
     THEN /\ AskGoTo(q, "write")
          /\ overtaken' = (overtaken \/ \E p \in Requests :
                             ask[p] # None /\ ask[p].op = "setRoles" /\ AskAt(p, "write"))
     ELSE AskEnd(q) /\ UNCHANGED overtaken
  /\ UNCHANGED <<platformRole, composed, userCache, begun, heldOnce, composer>>

(* replacePlatformRoles.  A role deleted meanwhile undoes the transaction. *)
ReplacePlatformRoles(q) ==
  LET exist == \A r \in ask[q].roles \cap ComposedRoles : composed[r] # None IN
  /\ AskAt(q, "write") /\ ask[q].op = "setRoles"
  /\ IF exist
     THEN platformRole' = [platformRole EXCEPT ![ask[q].user] = ask[q].roles]
          /\ AskGoTo(q, "forget")
     ELSE AskEnd(q) /\ UNCHANGED platformRole
  /\ UNCHANGED <<composed, userCache, begun, composer, overtaken>>
  /\ AskRemember

(* invalidatePlatformUser.                                                 *)
ForgetUser(q) ==
  /\ AskAt(q, "forget")
  /\ \/ userCache' = [userCache EXCEPT ![ask[q].user] = None]
     \/ UNCHANGED userCache
  /\ AskEnd(q)
  /\ UNCHANGED <<platformRole, composed, begun, history>>

--------------------------------------------------------------------------------
PrNext ==
  \/ \E q \in Requests :
       \/ GetUserCache(q) \/ ListUserPermissions(q) \/ PutUserCache(q)
       \/ BeginCompose(q) \/ ComposeRole(q) \/ BeginDeleteRole(q) \/ DeleteRole(q)
       \/ FlushUserCaches(q) \/ BeginSetPlatformRoles(q) \/ CheckSetPlatformRoles(q)
       \/ ReplacePlatformRoles(q) \/ ForgetUser(q)
  \/ \E u \in Accounts : ExpireUserCache(u)

PrSpec == PrInit /\ [][PrNext]_prVars

--------------------------------------------------------------------------------
(* Somebody still holds superadmin, unless two changes of platform roles   *)
(* overlapped between their check and their write.                         *)
SuperadminRemains ==
  (\E u \in Accounts : "superadmin" \in FirstPlatformRoles[u]) /\ ~overtaken
    => Superadmins # {}

(* A composed role gives only what its composer once held, or anything when*)
(* the composer needs no row: the right to compose roles is not itself a   *)
(* right to everything a role can carry.                                   *)
ComposersGiveWhatTheyHeld ==
  \A r \in ComposedRoles :
    composed[r] # None /\ ~IsBreakGlassAdmin(composer[r])
      => composed[r] \subseteq heldOnce[composer[r]]
================================================================================
