-------------------------------- MODULE MCAccess -------------------------------
(***************************************************************************)
(* The four parts of access control on small instances: how many members   *)
(* there may be and who is left to govern them (Workspaces), what each may *)
(* do (Permissions), the console (PlatformRoles), and the guards in front  *)
(* of every route (ApiRequests).  A behaviour moves in one part, chosen at *)
(* its start: the parts share no row that two of them write, so their      *)
(* interleavings would only multiply the states.                           *)
(***************************************************************************)
EXTENDS Workspaces

CONSTANTS Members, CustomRoles, ApiKeys, Askers, Gone,
          KeysInPlay, RoleStrings, FirstRole, MaxRoleChanges,
          Accounts, ComposedRoles, ConsoleKeysInPlay, BuiltIn, AdminUserIds,
          FirstPlatformRoles, MaxConsoleChanges, Callers

VARIABLES part,
          role, memberRole, rolePerm, apiKey, cache, req, changes, granted,
          author, raced,
          platformRole, composed, userCache, ask, begun, heldOnce, composer,
          overtaken,
          request, stage, status

rVars == <<role, memberRole, rolePerm, apiKey, cache, req, changes, granted,
           author, raced>>
pVars == <<platformRole, composed, userCache, ask, begun, heldOnce, composer,
           overtaken>>
aVars == <<request, stage, status>>

R == INSTANCE Permissions WITH
       Requests <- Askers, MaxChanges <- MaxRoleChanges, Keys <- KeysInPlay
P == INSTANCE PlatformRoles WITH MaxChanges <- MaxConsoleChanges

MCSeatLimit == [free |-> 1, starter |-> 1, pro |-> 2]
MCResourceLimit == [free |-> 1, starter |-> 2, pro |-> 2]
MCKeysInPlay == {<<"workspace", "delete">>, <<"agent", "run">>}
MCFirstRole == [m \in Members |-> IF m = "m1" THEN "owner" ELSE None]
MCConsoleKeysInPlay == {<<"admin.role", "manage">>, <<"admin.audit", "read">>}
MCFirstPlatformRoles ==
  [u \in Accounts |-> CASE u = "root" -> {"superadmin"}
                        [] u = "audit" -> {"auditor"} [] OTHER -> {}]

(* A workspace begins with one member or with room for one: no plan of the *)
(* catalogue allows nobody.                                                *)
ASSUME RoomAssumption ==
  Requests # {} /\ SeatLimit[FreePlan] # 0 /\ None \notin Users /\ None \notin Roles

(* No membership has a string that means there is none, the ids of a       *)
(* workspace's roles are its own, and None is no set of permissions.       *)
ASSUME RolesAssumption ==
  /\ FirstRole \in [Members -> RoleStrings \cup {None}]
  /\ None \notin RoleStrings /\ Gone \notin RoleStrings /\ Gone # None
  /\ CustomRoles \cap R!SystemRoles = {} /\ None \notin R!RoleIds
  /\ None \notin Members /\ MaxRoleChanges \in Nat
  /\ \A keys \in SUBSET KeysInPlay : keys # None

(* The same for the console, where superadmin is a built-in role.          *)
ASSUME ConsoleAssumption ==
  /\ FirstPlatformRoles \in [Accounts -> SUBSET BuiltIn] /\ IsFiniteSet(Accounts)
  /\ "superadmin" \in BuiltIn /\ BuiltIn \subseteq DOMAIN P!PlatformSystemRoles
  /\ BuiltIn \cap ComposedRoles = {} /\ None \notin Accounts
  /\ MaxConsoleChanges \in Nat
  /\ \A keys \in SUBSET ConsoleKeysInPlay : keys # None

Anonymous ==
  [session |-> "none", role |-> None, effects |-> {}, console |-> None,
   key |-> None, keyHere |-> TRUE]
SignedIn == [Anonymous EXCEPT !.session = "live"]

(* Strangers and the banned; members of each built-in role under every mix *)
(* of grants; the console's roles; and keys of a viewer's and every scope. *)
MCCallers ==
  {Anonymous, SignedIn, [SignedIn EXCEPT !.session = "banned", !.role = "owner"]}
  \cup {[SignedIn EXCEPT !.role = r, !.effects = e] :
           r \in {"owner", "admin", "member", "viewer"},
           e \in SUBSET {"allow", "deny"}}
  \cup {[SignedIn EXCEPT !.console = r] :
           r \in {"superadmin", "support", "finance", "auditor", "breakGlass"}}
  \cup {[Anonymous EXCEPT !.key = k, !.keyHere = h] :
           k \in {{}, {<<"agent", "read">>}, {<<"agent", "run">>, <<"agentRun", "read">>}},
           h \in BOOLEAN}

A == INSTANCE ApiRequests

(* Callers are what a request can come from, and None is no stage of it    *)
(* and not the viewer.  The two tables have no parameter: that they agree  *)
(* is evaluated in full.                                                   *)
ASSUME CallersAssumption ==
  /\ Callers \subseteq A!Caller
  /\ None \notin {"session", "scope", "gate", "permission", "over", "viewer"}
ASSUME TablesAssumption == A!TablesAgree

MCInit ==
  /\ part \in {"workspace", "permissions", "platform", "request"}
  /\ WsInit /\ R!Init /\ P!PrInit /\ A!ArInit

MCNext ==
  \/ part = "workspace" /\ WsNext /\ UNCHANGED <<part, rVars, pVars, aVars>>
  \/ part = "permissions" /\ R!Next /\ UNCHANGED <<part, wsVars, pVars, aVars>>
  \/ part = "platform" /\ P!PrNext /\ UNCHANGED <<part, wsVars, rVars, aVars>>
  \/ part = "request" /\ A!ArNext /\ UNCHANGED <<part, wsVars, rVars, pVars>>

mcVars == <<part, wsVars, rVars, pVars, aVars>>

(* Permissions states what is fair; the other parts need nothing.          *)
Others == part = "permissions" /\ UNCHANGED <<part, wsVars, pVars, aVars>>

MCSpec ==
  /\ MCInit /\ [][MCNext]_mcVars
  /\ \A q \in Askers : WF_mcVars(R!Step(q) /\ Others)
  /\ \A m \in Members : WF_mcVars(R!ExpireCached(m) /\ Others)

(* A membership holds the built-in role that Better Auth's string names.   *)
OneBuiltInRole == part = "permissions" => R!OneBuiltInRole

(* A role or a key gives only what the one who wrote it had held: for the  *)
(* workspace's own roles, for API keys and for the roles of the console.   *)
GiveOnlyWhatWasHeld ==
  /\ part = "permissions" => R!AuthorsGiveWhatTheyHeld
  /\ part = "platform" => P!ComposersGiveWhatTheyHeld

(* A workspace keeps an owner and the console a superadmin, and nobody's   *)
(* plan is exceeded, unless two requests that check for it overlap.        *)
MembershipHolds ==
  /\ part = "workspace" => WsTypeOK /\ PlanLimitsHold /\ OwnerRemains
  /\ part = "permissions" => R!TypeOK
  /\ part = "platform" => P!PrTypeOK /\ P!SuperadminRemains

(* What the document says an operation needs is what the API asks, and a   *)
(* viewer, or somebody from outside, changes nothing in a workspace.       *)
RoutesAreGuarded ==
  part = "request" => A!ArTypeOK /\ A!DocumentedAccess /\ A!ViewersOnlyLook

(* In the end the cache and every answer agree with the tables.            *)
AnswersConverge == R!AnswersConverge
================================================================================
