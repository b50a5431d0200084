------------------------------ MODULE AccessProofs -----------------------------
(***************************************************************************)
(* Machine-checked theorems about MCAccess: who is left to govern a        *)
(* workspace and the console, how far the plan's limits can be passed,     *)
(* where a permission can come from, and what the guards of the API let    *)
(* through; for every set of users, members, accounts, roles, keys,        *)
(* requests and callers.                                                   *)
(***************************************************************************)
EXTENDS MCAccess, FiniteSetTheorems, TLAPS

--------------------------------------------------------------------------------
(* Workspaces.  What each request is about, and two rows that are never    *)
(* both there.                                                             *)
CallsNameSomebody ==
  \A q \in Requests : call[q] # None =>
    /\ call[q].op \in {"invite", "setRole", "remove"} => call[q].on \in Users
    /\ call[q].op = "setRole" => call[q].to \in Roles

InvitedAreOutside == pending \cap MembersNow = {}

(* The present limit is no higher than the highest so far.                 *)
UnderThePeak(limit, peak) ==
  peak # None => limit[GetPlan] # None /\ limit[GetPlan] <= peak

(* Requests that passed a limit's check and have not yet written.          *)
Passed(op) == {q \in Requests : Doing(q, op, "act")}

SeatsCounted ==
  seatPeak # None =>
    SeatsUsed + Cardinality(Passed("invite")) <= seatPeak + Cardinality(Requests) - 1

AgentsCounted ==
  agentPeak # None =>
    agents + Cardinality(Passed("createAgent")) <= agentPeak + Cardinality(Requests) - 1

(* Somebody is in, is invited, or is about to be.                          *)
Inhabited ==
  \/ MembersNow # {} \/ pending # {}
  \/ \E q \in Requests : call[q] # None /\ call[q].op = "invite"

(* While no two guards overlapped, only one request is about to demote or  *)
(* remove somebody, and an owner other than that one remains.              *)
Governed ==
  ~overlapped =>
    /\ Inhabited => Owners # {}
    /\ \A p, q \in Guarding : p = q
    /\ \A q \in Guarding : \E v \in Owners : v # call[q].on

WsRows == WsTypeOK /\ CallsNameSomebody /\ InvitedAreOutside
PeaksHold == UnderThePeak(SeatLimit, seatPeak) /\ UnderThePeak(ResourceLimit, agentPeak)

WsInv == WsRows /\ PeaksHold /\ SeatsCounted /\ AgentsCounted /\ Governed

--------------------------------------------------------------------------------
(* Permissions.  What a request carries fits what it was sent for.         *)
Formed(a) ==
  /\ a.op \in {"createRole", "updateRole", "deleteRole"} => a.target \in CustomRoles
  /\ a.op \in {"createKey", "useKey"} => a.target \in ApiKeys
  /\ a.op = "setMemberRoles" => a.target \in CustomRoles \cup {None}
  /\ a.op \in {"setMemberRoles", "syncRole"} \/ a.stage = "heal" => a.seen # None

(* Every role a membership holds exists, every role has an author, and a   *)
(* membership that is not there holds none.                                *)
RolesExist == \A m \in Members : \A r \in memberRole[m] \cap CustomRoles : rolePerm[r] # None

Tables ==
  /\ role \in [Members -> RoleStrings \cup {None, Gone}]
  /\ memberRole \in R!MemberRoleRow /\ rolePerm \in R!RolePermissionRow
  /\ apiKey \in [ApiKeys -> R!ApiKeyRow \cup {None}]
  /\ author \in [CustomRoles -> Members \cup {None}]
  /\ changes \in 0 .. MaxRoleChanges /\ raced \subseteq Members
  /\ RolesExist
  /\ \A r \in CustomRoles : rolePerm[r] # None => author[r] # None
  /\ \A m \in Members : ~R!Exists(m) => memberRole[m] = {}

(* Whatever is listed, cached or told was given to the membership once.    *)
Given ==
  /\ granted \in [Members -> SUBSET KeysInPlay]
  /\ \A m \in Members : R!ListMemberPermissions(m) \subseteq granted[m]

Cached ==
  /\ cache \in [Members -> (SUBSET KeysInPlay) \cup {None}]
  /\ \A m \in Members : cache[m] # None => cache[m] \subseteq granted[m]

Carries(a) == a \in R!Request /\ Formed(a) /\ a.held \subseteq granted[a.on]
Asked ==
  /\ req \in [Askers -> R!Request \cup {R!Idle}]
  /\ \A q \in Askers : req[q] # R!Idle => Carries(req[q])

(* Who is about to write a membership's built-in role read the string that *)
(* still stands, unless writers raced; and only a sync on its way, whose   *)
(* string is written and whose row is not, leaves the rows behind.         *)
Orderly(m) ==
  /\ role[m] = None => R!Setting(m) = {}
  /\ R!Exists(m) /\ m \notin raced =>
       /\ \A q \in R!Setting(m) : req[q].seen = R!PrimarySystemRole(role[m])
       /\ (\A q \in R!Setting(m) : req[q].op # "syncRole")
            => memberRole[m] \cap R!SystemRoles \subseteq {R!PrimarySystemRole(role[m])}

RoleInv ==
  /\ Tables /\ Given /\ Cached /\ Asked /\ R!AuthorsGiveWhatTheyHeld
  /\ \A m \in Members : Orderly(m)

--------------------------------------------------------------------------------
(* PlatformRoles: the same three concerns, and the last superadmin.        *)
AskFormed(a) ==
  /\ a.op \in {"compose", "deleteRole"} => \E r \in ComposedRoles : a.roles = {r}
  /\ a.op = "setRoles" => a.user \in Accounts
  /\ a.stage \in {"get", "list", "put"} => ~P!IsBreakGlassAdmin(a.by)

ConsoleRows ==
  /\ \A u \in Accounts : \A r \in platformRole[u] \cap ComposedRoles : composed[r] # None
  /\ \A r \in ComposedRoles : composed[r] # None => composer[r] # None
  /\ \A q \in Requests : ask[q] # None => AskFormed(ask[q])

ConsoleWitnessed ==
  /\ \A u \in Accounts : P!ListPlatformPermissions(u) \subseteq heldOnce[u]
  /\ \A u \in Accounts : userCache[u] # None => userCache[u] \subseteq heldOnce[u]
  /\ \A q \in Requests : ask[q] # None /\ ~P!IsBreakGlassAdmin(ask[q].by)
       => ask[q].held \subseteq heldOnce[ask[q].by]

Replacing == {q \in Requests : ask[q] # None /\ ask[q].op = "setRoles" /\ ask[q].stage = "write"}

(* While no two replacements overlapped, only one is on its way, and with  *)
(* it somebody stays superadmin.                                           *)
SuperadminKept ==
  ~overtaken /\ (\E u \in Accounts : "superadmin" \in FirstPlatformRoles[u]) =>
    /\ P!Superadmins # {}
    /\ \A p, q \in Replacing : p = q
    /\ \A q \in Replacing : \/ "superadmin" \in ask[q].roles
                            \/ \E v \in P!Superadmins : v # ask[q].user

ConsoleInv ==
  /\ P!PrTypeOK /\ ConsoleRows /\ ConsoleWitnessed /\ P!ComposersGiveWhatTheyHeld
  /\ SuperadminKept

AccessInv == WsInv /\ RoleInv /\ ConsoleInv

--------------------------------------------------------------------------------
\* What is inside a finite set is finite, and no larger.
LEMMA Inside ==
  ASSUME NEW T, IsFiniteSet(T), NEW S, S \subseteq T
  PROVE  /\ IsFiniteSet(S) /\ Cardinality(S) \in Nat /\ Cardinality(T) \in Nat
         /\ Cardinality(S) <= Cardinality(T)
BY FS_Subset, FS_CardinalityType

\* One element more counts for at most one.
LEMMA AtMostOneMore ==
  ASSUME NEW S, IsFiniteSet(S), NEW x, NEW T, T \subseteq S \cup {x}
  PROVE  /\ IsFiniteSet(T) /\ Cardinality(T) \in Nat /\ Cardinality(S) \in Nat
         /\ Cardinality(T) <= Cardinality(S) + 1
<1>1. /\ IsFiniteSet(S \cup {x}) /\ Cardinality(S) \in Nat
      /\ \/ Cardinality(S \cup {x}) = Cardinality(S)
         \/ Cardinality(S \cup {x}) = Cardinality(S) + 1
  BY FS_AddElement, FS_CardinalityType
<1>2. /\ IsFiniteSet(T) /\ Cardinality(T) \in Nat /\ Cardinality(S \cup {x}) \in Nat
      /\ Cardinality(T) <= Cardinality(S \cup {x})
  BY <1>1, Inside
<1>3. QED
  BY <1>1, <1>2

\* One element fewer counts for one.
LEMMA OneFewer ==
  ASSUME NEW S, IsFiniteSet(S), NEW x \in S, NEW T, T \subseteq S \ {x}
  PROVE  /\ IsFiniteSet(T) /\ Cardinality(T) \in Nat /\ Cardinality(S) \in Nat
         /\ Cardinality(T) <= Cardinality(S) - 1
<1>1. /\ IsFiniteSet(S \ {x}) /\ Cardinality(S) \in Nat
      /\ Cardinality(S \ {x}) = Cardinality(S) - 1
  BY FS_RemoveElement, FS_CardinalityType
<1>2. /\ IsFiniteSet(T) /\ Cardinality(T) \in Nat /\ Cardinality(S \ {x}) \in Nat
      /\ Cardinality(T) <= Cardinality(S \ {x})
  BY <1>1, Inside
<1>3. QED
  BY <1>1, <1>2

--------------------------------------------------------------------------------
\* A request that opens may have passed its own check, and no other.
LEMMA OpenPasses ==
  ASSUME WsTypeOK, NEW q \in Requests, NEW op, NEW u, NEW to, NEW at,
         Open(q, op, u, to, at), NEW o
  PROVE  /\ Passed(o)' \subseteq Passed(o) \cup {q}
         /\ o # op \/ at # "act" => Passed(o)' \subseteq Passed(o)
         /\ q \notin Passed(o)
BY DEF WsTypeOK, Open, Passed, Doing

LEMMA ClosePasses ==
  ASSUME WsTypeOK, NEW q \in Requests, Close(q), NEW o
  PROVE  Passed(o)' \subseteq Passed(o) \ {q}
BY DEF WsTypeOK, Close, Passed, Doing

--------------------------------------------------------------------------------
(* The rows: types, what requests are about, and nobody both inside and    *)
(* invited.                                                                *)

\* What opening and closing a request leave of the types.
LEMMA OpenTyped ==
  ASSUME WsRows, NEW q \in Requests,
         NEW op \in {"create", "invite", "setRole", "remove", "createAgent",
                     "editProject", "removeProject"},
         NEW u \in Users \cup {None}, NEW to \in Roles \cup {None}, NEW at \in {"hook", "act"},
         op \in {"invite", "setRole", "remove"} => u \in Users,
         op = "setRole" => to \in Roles, Open(q, op, u, to, at)
  PROVE  /\ call' \in [Requests -> Call \cup {None}] /\ started' \in 0 .. MaxChanges
         /\ CallsNameSomebody'
<1>c. [op |-> op, on |-> u, to |-> to, stage |-> at] \in Call
  BY DEF Call
<1>1. call' \in [Requests -> Call \cup {None}] /\ started' \in 0 .. MaxChanges
  BY <1>c, LimitAssumption DEF WsRows, WsTypeOK, Open
<1>2. CallsNameSomebody'
  BY <1>c DEF WsRows, WsTypeOK, CallsNameSomebody, Open
<1>3. QED
  BY <1>1, <1>2

LEMMA CloseTyped ==
  ASSUME WsRows, NEW q \in Requests, Close(q)
  PROVE  call' \in [Requests -> Call \cup {None}] /\ CallsNameSomebody'
BY DEF WsRows, WsTypeOK, CallsNameSomebody, Close

LEMMA DoingTyped ==
  ASSUME WsRows, NEW q \in Requests, NEW op, NEW at, Doing(q, op, at)
  PROVE  /\ call[q] \in Call /\ call[q].op = op /\ call[q].stage = at
         /\ op \in {"invite", "setRole", "remove"} => call[q].on \in Users
         /\ op = "setRole" => call[q].to \in Roles
BY DEF WsRows, WsTypeOK, CallsNameSomebody, Doing

LEMMA WsRowsStep == WsRows /\ [WsNext]_wsVars => WsRows'
<1> SUFFICES ASSUME WsRows, [WsNext]_wsVars PROVE WsRows'
  OBVIOUS
<1> USE LimitAssumption, RoomAssumption
<1>t. WsTypeOK /\ CallsNameSomebody /\ InvitedAreOutside
  BY DEF WsRows
<1>h. \A a, b \in Nat \cup {None} : Higher(a, b) \in Nat \cup {None}
  BY DEF Higher
<1>1. ASSUME NEW q \in Requests, CreateWorkspace(q) PROVE WsRows'
  <2>1. PICK u \in Users : Open(q, "create", u, None, "act")
                           /\ member' = [member EXCEPT ![u] = "owner"]
    BY <1>1 DEF CreateWorkspace
  <2>2. call' \in [Requests -> Call \cup {None}] /\ started' \in 0 .. MaxChanges
        /\ CallsNameSomebody'
    BY <2>1, OpenTyped
  <2>3. QED
    BY <1>1, <1>t, <2>1, <2>2
       DEF CreateWorkspace, WsRows, WsTypeOK, InvitedAreOutside, MembersNow, MemberRow, Roles, peaks
<1>2. ASSUME NEW q \in Requests, ProvisionWorkspace(q) PROVE WsRows'
  BY <1>2, <1>t, CloseTyped
     DEF ProvisionWorkspace, WsRows, WsTypeOK, InvitedAreOutside, MembersNow, peaks
<1>3. ASSUME NEW q \in Requests, Invite(q) PROVE WsRows'
  <2>1. PICK u \in Users : Open(q, "invite", u, None, "hook")
    BY <1>3 DEF Invite
  <2>2. call' \in [Requests -> Call \cup {None}] /\ started' \in 0 .. MaxChanges
        /\ CallsNameSomebody'
    BY <2>1, OpenTyped
  <2>3. QED
    BY <1>3, <1>t, <2>2 DEF Invite, WsRows, WsTypeOK, InvitedAreOutside, MembersNow, peaks
<1>4. ASSUME NEW q \in Requests, BeforeCreateInvitation(q) PROVE WsRows'
  <2>1. call' \in [Requests -> Call \cup {None}] /\ CallsNameSomebody'
    <3>1. CASE Close(q)
      BY <3>1, CloseTyped
    <3>2. CASE call' = [call EXCEPT ![q].stage = "act"]
      <4>1. call[q] \in Call /\ call[q].op = "invite" /\ call[q].on \in Users
        BY <1>4, DoingTyped DEF BeforeCreateInvitation
      <4>2. [call[q] EXCEPT !.stage = "act"] \in Call
        BY <4>1 DEF Call
      <4>3. QED
        BY <3>2, <4>1, <4>2, <1>t DEF WsTypeOK, CallsNameSomebody, Call
    <3>3. QED
      BY <1>4, <3>1, <3>2 DEF BeforeCreateInvitation
  <2>2. QED
    BY <1>4, <1>t, <2>1
       DEF BeforeCreateInvitation, WsRows, WsTypeOK, InvitedAreOutside, MembersNow, peaks
<1>5. ASSUME NEW q \in Requests, CreateInvitation(q) PROVE WsRows'
  BY <1>5, <1>t, CloseTyped, DoingTyped
     DEF CreateInvitation, WsRows, WsTypeOK, InvitedAreOutside, MembersNow, peaks
<1>6. ASSUME NEW q \in Requests, UpdateMemberRole(q) PROVE WsRows'
  <2>1. PICK u \in Users, r \in Roles : Open(q, "setRole", u, r, "act")
    BY <1>6 DEF UpdateMemberRole, MembersNow
  <2>2. call' \in [Requests -> Call \cup {None}] /\ started' \in 0 .. MaxChanges
        /\ CallsNameSomebody'
    BY <2>1, OpenTyped
  <2>o. overlapped' \in BOOLEAN
    BY <1>6, <1>t DEF UpdateMemberRole, WsTypeOK
  <2>3. QED
    BY <1>6, <1>t, <2>2, <2>o
       DEF UpdateMemberRole, WsRows, WsTypeOK, InvitedAreOutside, MembersNow, peaks
<1>7. ASSUME NEW q \in Requests, WriteMemberRole(q) PROVE WsRows'
  <2>1. call[q].on \in Users /\ call[q].to \in Roles
    BY <1>7, DoingTyped DEF WriteMemberRole
  <2>2. QED
    BY <1>7, <1>t, <2>1, CloseTyped
       DEF WriteMemberRole, WsRows, WsTypeOK, InvitedAreOutside, MembersNow, MemberRow, peaks
<1>8. ASSUME NEW q \in Requests, RemoveMember(q) PROVE WsRows'
  <2>1. PICK u \in Users : Open(q, "remove", u, None, "act")
    BY <1>8 DEF RemoveMember, MembersNow
  <2>2. call' \in [Requests -> Call \cup {None}] /\ started' \in 0 .. MaxChanges
        /\ CallsNameSomebody'
    BY <2>1, OpenTyped
  <2>o. overlapped' \in BOOLEAN
    BY <1>8, <1>t DEF RemoveMember, WsTypeOK
  <2>3. QED
    BY <1>8, <1>t, <2>2, <2>o
       DEF RemoveMember, WsRows, WsTypeOK, InvitedAreOutside, MembersNow, peaks
<1>9. ASSUME NEW q \in Requests, DeleteMember(q) PROVE WsRows'
  BY <1>9, <1>t, CloseTyped
     DEF DeleteMember, WsRows, WsTypeOK, InvitedAreOutside, MembersNow, MemberRow, peaks
<1>10. ASSUME NEW q \in Requests, CreateAgent(q) PROVE WsRows'
  BY <1>10, <1>t, OpenTyped
     DEF CreateAgent, WsRows, WsTypeOK, InvitedAreOutside, MembersNow, peaks
<1>11. ASSUME NEW q \in Requests, InsertAgent(q) PROVE WsRows'
  BY <1>11, <1>t, CloseTyped
     DEF InsertAgent, WsRows, WsTypeOK, InvitedAreOutside, MembersNow, peaks
<1>12. ASSUME NEW q \in Requests, UpdateProject(q) \/ RemoveProject(q) PROVE WsRows'
  <2>1. PICK op \in {"editProject", "removeProject"} : Open(q, op, None, None, "act")
    BY <1>12 DEF UpdateProject, RemoveProject
  <2>2. call' \in [Requests -> Call \cup {None}] /\ started' \in 0 .. MaxChanges
        /\ CallsNameSomebody'
    BY <2>1, OpenTyped
  <2>3. QED
    BY <1>12, <1>t, <2>2
       DEF UpdateProject, RemoveProject, WsRows, WsTypeOK, InvitedAreOutside, MembersNow, peaks
<1>13. ASSUME NEW q \in Requests, WriteProject(q) \/ DeleteProject(q) PROVE WsRows'
  <2>1. call' \in [Requests -> Call \cup {None}] /\ CallsNameSomebody'
    BY <1>13, CloseTyped DEF WriteProject, DeleteProject
  <2>2. QED
    BY <1>13, <1>t, <2>1
       DEF WriteProject, DeleteProject, WsRows, WsTypeOK, InvitedAreOutside, MembersNow, ProjectRow, peaks
<1>14. ASSUME NEW u \in Users, CancelInvitation(u) PROVE WsRows'
  BY <1>14, <1>t
     DEF CancelInvitation, WsRows, WsTypeOK, CallsNameSomebody, InvitedAreOutside, MembersNow, peaks
<1>15. ASSUME NEW u \in Users, NEW r \in Roles, AcceptInvitation(u, r) PROVE WsRows'
  BY <1>15, <1>t
     DEF AcceptInvitation, WsRows, WsTypeOK, CallsNameSomebody, InvitedAreOutside, MembersNow,
         MemberRow, peaks
<1>16. ASSUME NEW p \in PlanNames, ChangePlan(p) PROVE WsRows'
  <2>1. seatPeak' \in Nat \cup {None} /\ agentPeak' \in Nat \cup {None}
    BY <1>16, <1>t, <1>h DEF ChangePlan, WsTypeOK
  <2>2. QED
    BY <1>16, <1>t, <2>1
       DEF ChangePlan, WsRows, WsTypeOK, CallsNameSomebody, InvitedAreOutside, MembersNow
<1>17. ASSUME DeleteAgent \/ CreateProject \/ ArchiveProject \/ RestoreProject PROVE WsRows'
  BY <1>17, <1>t
     DEF DeleteAgent, CreateProject, ArchiveProject, RestoreProject, WsRows, WsTypeOK,
         CallsNameSomebody, InvitedAreOutside, MembersNow, ProjectRow, peaks
<1>18. CASE UNCHANGED wsVars
  BY <1>18, <1>t
     DEF wsVars, WsRows, WsTypeOK, CallsNameSomebody, InvitedAreOutside, MembersNow
<1>19. QED
  BY <1>1, <1>2, <1>3, <1>4, <1>5, <1>6, <1>7, <1>8, <1>9, <1>10, <1>11, <1>12, <1>13, <1>14,
     <1>15, <1>16, <1>17, <1>18 DEF WsNext

--------------------------------------------------------------------------------
(* The limits.  Only a change of plan moves the limits or their peaks, and *)
(* it raises a peak to the new limit.                                      *)
PlanStays == GetPlan' = GetPlan /\ seatPeak' = seatPeak /\ agentPeak' = agentPeak

LEMMA PlanEffect ==
  ASSUME WsNext PROVE PlanStays \/ \E p \in PlanNames : ChangePlan(p)
<1>1. ASSUME NEW q \in Requests, ProvisionWorkspace(q) PROVE PlanStays
  BY <1>1, LimitAssumption DEF ProvisionWorkspace, PlanStays, GetPlan, peaks
<1>2. QED
  BY <1>1 DEF WsNext, PlanStays, GetPlan, peaks, CreateWorkspace, Invite, BeforeCreateInvitation,
     CreateInvitation, UpdateMemberRole, WriteMemberRole, RemoveMember, DeleteMember, CreateAgent,
     InsertAgent, UpdateProject, WriteProject, RemoveProject, DeleteProject, CancelInvitation,
     AcceptInvitation, DeleteAgent, CreateProject, ArchiveProject, RestoreProject

LEMMA PeaksStep ==
  WsRows /\ PeaksHold /\ [WsNext]_wsVars =>
    /\ PeaksHold'
    /\ seatPeak' # None => seatPeak # None /\ seatPeak <= seatPeak'
    /\ agentPeak' # None => agentPeak # None /\ agentPeak <= agentPeak'
<1> SUFFICES ASSUME WsRows, PeaksHold, [WsNext]_wsVars
             PROVE  /\ PeaksHold'
                    /\ seatPeak' # None => seatPeak # None /\ seatPeak <= seatPeak'
                    /\ agentPeak' # None => agentPeak # None /\ agentPeak <= agentPeak'
  OBVIOUS
<1>t. seatPeak \in Nat \cup {None} /\ agentPeak \in Nat \cup {None}
  BY DEF WsRows, WsTypeOK
<1>1. CASE PlanStays \/ UNCHANGED wsVars
  BY <1>1, <1>t, LimitAssumption DEF PlanStays, PeaksHold, UnderThePeak, wsVars, GetPlan
<1>2. ASSUME NEW p \in PlanNames, ChangePlan(p)
      PROVE  /\ PeaksHold'
             /\ seatPeak' # None => seatPeak # None /\ seatPeak <= seatPeak'
             /\ agentPeak' # None => agentPeak # None /\ agentPeak <= agentPeak'
  <2>1. GetPlan' = p
    BY <1>2, LimitAssumption DEF ChangePlan, GetPlan
  <2>2. SeatLimit[p] \in Nat \cup {None} /\ ResourceLimit[p] \in Nat \cup {None}
    BY LimitAssumption
  <2>h. \A a, b \in Nat \cup {None} :
          Higher(a, b) # None => a # None /\ b # None /\ a <= Higher(a, b) /\ b <= Higher(a, b)
    BY LimitAssumption DEF Higher
  <2>3. seatPeak' = Higher(seatPeak, SeatLimit[p])
        /\ agentPeak' = Higher(agentPeak, ResourceLimit[p])
    BY <1>2 DEF ChangePlan
  <2>4. QED
    BY <1>t, <2>1, <2>2, <2>3, <2>h DEF PeaksHold, UnderThePeak
<1>3. QED
  BY <1>1, <1>2, PlanEffect

\* With room under a limit, one less than its peak is used.
LEMMA RoomBelow ==
  ASSUME NEW used \in Nat, NEW peak \in Nat, NEW limit, peak # None,
         limit # None /\ limit <= peak, Below(used, limit), limit \in Nat \cup {None}
  PROVE  used <= peak - 1
BY DEF Below

--------------------------------------------------------------------------------
(* Seats: what one step does to the members, the invitations and the       *)
(* requests that passed the check.                                         *)
NoMoreSeats ==
  /\ MembersNow' \subseteq MembersNow /\ pending' \subseteq pending
  /\ Passed("invite")' \subseteq Passed("invite")

SeatsEffect ==
  \/ NoMoreSeats
  \/ \E q \in Requests, u \in Users :
       /\ MembersNow = {} /\ pending = {} /\ plan = None
       /\ MembersNow' \subseteq {u} /\ pending' = {}
       /\ Passed("invite")' \subseteq Requests \ {q}
  \/ SeatAvailable /\ MembersNow' = MembersNow /\ pending' = pending
  \/ \E q \in Passed("invite"), u \in Users :
       /\ MembersNow' = MembersNow /\ pending' \subseteq pending \cup {u}
       /\ Passed("invite")' \subseteq Passed("invite") \ {q}
  \/ \E u \in pending :
       /\ MembersNow' \subseteq MembersNow \cup {u} /\ pending' \subseteq pending \ {u}
       /\ Passed("invite")' \subseteq Passed("invite")

LEMMA SeatsEffects == ASSUME WsRows, [WsNext]_wsVars PROVE SeatsEffect
<1>t. WsTypeOK
  BY DEF WsRows
<1>1. ASSUME NEW q \in Requests, CreateWorkspace(q) PROVE SeatsEffect
  <2>1. PICK u \in Users : Open(q, "create", u, None, "act")
                           /\ member' = [member EXCEPT ![u] = "owner"]
    BY <1>1 DEF CreateWorkspace
  <2>2. Passed("invite")' \subseteq Requests \ {q}
    <3>1. Passed("invite")' \subseteq Passed("invite") /\ q \notin Passed("invite")
      BY <2>1, <1>t, OpenPasses
    <3>2. Passed("invite") \subseteq Requests
      BY DEF Passed
    <3>3. QED
      BY <3>1, <3>2
  <2>3. MembersNow' \subseteq {u}
    BY <1>1, <2>1, <1>t DEF CreateWorkspace, MembersNow, WsTypeOK, MemberRow
  <2>4. QED
    BY <1>1, <2>2, <2>3 DEF CreateWorkspace, SeatsEffect
<1>2. ASSUME NEW q \in Requests,
             Invite(q) \/ UpdateMemberRole(q) \/ RemoveMember(q) \/ CreateAgent(q)
               \/ UpdateProject(q) \/ RemoveProject(q)
      PROVE  SeatsEffect
  <2>1. PICK op, u, to, at : Open(q, op, u, to, at) /\ (op # "invite" \/ at # "act")
    BY <1>2 DEF Invite, UpdateMemberRole, RemoveMember, CreateAgent, UpdateProject, RemoveProject
  <2>2. Passed("invite")' \subseteq Passed("invite")
    BY <2>1, <1>t, OpenPasses
  <2>3. member' = member /\ pending' = pending
    BY <1>2 DEF Invite, UpdateMemberRole, RemoveMember, CreateAgent, UpdateProject, RemoveProject
  <2>4. QED
    BY <2>2, <2>3 DEF SeatsEffect, NoMoreSeats, MembersNow
<1>3. ASSUME NEW q \in Requests, BeforeCreateInvitation(q) PROVE SeatsEffect
  <2>1. CASE SeatAvailable
    BY <1>3, <2>1 DEF BeforeCreateInvitation, SeatsEffect, MembersNow
  <2>2. CASE ~SeatAvailable
    BY <1>3, <2>2, <1>t, ClosePasses DEF BeforeCreateInvitation, SeatsEffect, NoMoreSeats, MembersNow
  <2>3. QED
    BY <2>1, <2>2
<1>4. ASSUME NEW q \in Requests, CreateInvitation(q) PROVE SeatsEffect
  <2>1. q \in Passed("invite") /\ call[q].on \in Users
    BY <1>4, DoingTyped DEF CreateInvitation, Passed
  <2>2. Passed("invite")' \subseteq Passed("invite") \ {q}
    BY <1>4, <1>t, ClosePasses DEF CreateInvitation
  <2>3. QED
    BY <1>4, <2>1, <2>2 DEF CreateInvitation, SeatsEffect, MembersNow
<1>5. ASSUME NEW q \in Requests,
             ProvisionWorkspace(q) \/ WriteMemberRole(q) \/ DeleteMember(q) \/ InsertAgent(q)
               \/ WriteProject(q) \/ DeleteProject(q)
      PROVE  SeatsEffect
  <2>1. Passed("invite")' \subseteq Passed("invite")
    BY <1>5, <1>t, ClosePasses
       DEF ProvisionWorkspace, WriteMemberRole, DeleteMember, InsertAgent, WriteProject, DeleteProject
  <2>2. pending' = pending /\ MembersNow' \subseteq MembersNow
    BY <1>5, <1>t
       DEF ProvisionWorkspace, WriteMemberRole, DeleteMember, InsertAgent, WriteProject,
           DeleteProject, MembersNow, WsTypeOK, MemberRow
  <2>3. QED
    BY <2>1, <2>2 DEF SeatsEffect, NoMoreSeats
<1>6. ASSUME NEW u \in Users, NEW r \in Roles, AcceptInvitation(u, r) PROVE SeatsEffect
  <2>1. MembersNow' \subseteq MembersNow \cup {u}
    BY <1>6, <1>t DEF AcceptInvitation, MembersNow, WsTypeOK, MemberRow
  <2>2. Passed("invite")' = Passed("invite")
    BY <1>6 DEF AcceptInvitation, Passed, Doing
  <2>3. QED
    BY <1>6, <2>1, <2>2 DEF AcceptInvitation, SeatsEffect
<1>7. CASE \/ \E u \in Users : CancelInvitation(u)
           \/ \E p \in PlanNames : ChangePlan(p)
           \/ DeleteAgent \/ CreateProject \/ ArchiveProject \/ RestoreProject
           \/ UNCHANGED wsVars
  BY <1>7
     DEF CancelInvitation, ChangePlan, DeleteAgent, CreateProject, ArchiveProject, RestoreProject,
         wsVars, SeatsEffect, NoMoreSeats, MembersNow, Passed, Doing
<1>8. QED
  BY <1>1, <1>2, <1>3, <1>4, <1>5, <1>6, <1>7 DEF WsNext

\* A seat more is taken only by one who found room or had passed the check.
LEMMA SeatsStep ==
  WsRows /\ PeaksHold /\ SeatsCounted /\ [WsNext]_wsVars => SeatsCounted'
<1> SUFFICES ASSUME WsRows, PeaksHold, SeatsCounted, [WsNext]_wsVars, seatPeak' # None
             PROVE  SeatsUsed' + Cardinality(Passed("invite")')
                      <= seatPeak' + Cardinality(Requests) - 1
  BY DEF SeatsCounted
<1> DEFINE in == MembersNow
           out == pending
           req0 == Passed("invite")
           ins == MembersNow'
           outs == pending'
           req1 == Passed("invite")'
           all == Cardinality(Requests)
<1>u. SeatsUsed = Cardinality(in) + Cardinality(out)
      /\ SeatsUsed' = Cardinality(ins) + Cardinality(outs)
  BY DEF SeatsUsed
<1>r. WsRows'
  BY WsRowsStep
<1>s. /\ in \subseteq Users /\ out \subseteq Users /\ ins \subseteq Users /\ outs \subseteq Users
      /\ req0 \subseteq Requests /\ req1 \subseteq Requests
  BY <1>r DEF WsRows, WsTypeOK, MembersNow, Passed
<1>f. /\ IsFiniteSet(in) /\ IsFiniteSet(out) /\ IsFiniteSet(ins) /\ IsFiniteSet(outs)
      /\ IsFiniteSet(req0) /\ IsFiniteSet(req1)
      /\ Cardinality(in) \in Nat /\ Cardinality(out) \in Nat
      /\ Cardinality(ins) \in Nat /\ Cardinality(outs) \in Nat
      /\ Cardinality(req0) \in Nat /\ Cardinality(req1) \in Nat /\ all \in Nat
      /\ Cardinality(req0) <= all /\ Cardinality(req1) <= all
  BY <1>s, Inside, LimitAssumption
<1>p. /\ PeaksHold' /\ seatPeak # None /\ seatPeak <= seatPeak'
      /\ seatPeak \in Nat /\ seatPeak' \in Nat
      /\ SeatLimit[GetPlan] # None /\ SeatLimit[GetPlan] <= seatPeak
      /\ SeatLimit[GetPlan] \in Nat
  <2>1. PeaksHold' /\ seatPeak # None /\ seatPeak <= seatPeak'
    BY PeaksStep
  <2>2. seatPeak \in Nat /\ seatPeak' \in Nat
    BY <1>r, <2>1 DEF WsRows, WsTypeOK
  <2>3. SeatLimit[GetPlan] # None /\ SeatLimit[GetPlan] <= seatPeak
    BY <2>1 DEF PeaksHold, UnderThePeak
  <2>4. GetPlan \in PlanNames
    BY LimitAssumption DEF GetPlan, WsRows, WsTypeOK
  <2>5. QED
    BY <2>1, <2>2, <2>3, <2>4, LimitAssumption
<1>c. Cardinality(in) + Cardinality(out) + Cardinality(req0) <= seatPeak + all - 1
  BY <1>u, <1>p DEF SeatsCounted
<1> SUFFICES Cardinality(ins) + Cardinality(outs) + Cardinality(req1) <= seatPeak' + all - 1
  BY <1>u
<1>e. SeatsEffect
  BY SeatsEffects
<1>1. CASE NoMoreSeats
  <2>1. /\ Cardinality(ins) <= Cardinality(in) /\ Cardinality(outs) <= Cardinality(out)
        /\ Cardinality(req1) <= Cardinality(req0)
    BY <1>1, <1>f, Inside DEF NoMoreSeats
  <2>2. QED
    BY <2>1, <1>c, <1>f, <1>p
<1>2. ASSUME NEW q \in Requests, NEW u \in Users,
             in = {}, out = {}, plan = None, ins \subseteq {u}, outs = {}, req1 \subseteq Requests \ {q}
      PROVE  Cardinality(ins) + Cardinality(outs) + Cardinality(req1) <= seatPeak' + all - 1
  <2>1. Cardinality(outs) = 0 /\ Cardinality(ins) <= 1
    <3>1. Cardinality(ins) <= Cardinality({}) + 1
      BY <1>2, AtMostOneMore, FS_EmptySet
    <3>2. QED
      BY <3>1, <1>2, <1>f, FS_EmptySet
  <2>2. Cardinality(req1) <= all - 1
    BY <1>2, OneFewer, LimitAssumption
  <2>3. seatPeak >= 1
    BY <1>2, <1>p, RoomAssumption DEF GetPlan
  <2>4. QED
    BY <2>1, <2>2, <2>3, <1>f, <1>p
<1>3. CASE SeatAvailable /\ ins = in /\ outs = out
  <2>1. Cardinality(in) + Cardinality(out) <= seatPeak - 1
    BY <1>3, <1>u, <1>f, <1>p, RoomBelow DEF SeatAvailable
  <2>2. QED
    BY <2>1, <1>3, <1>f, <1>p
<1>4. ASSUME NEW q \in req0, NEW u \in Users,
             ins = in, outs \subseteq out \cup {u}, req1 \subseteq req0 \ {q}
      PROVE  Cardinality(ins) + Cardinality(outs) + Cardinality(req1) <= seatPeak' + all - 1
  <2>1. Cardinality(outs) <= Cardinality(out) + 1
    BY <1>4, <1>f, AtMostOneMore
  <2>2. Cardinality(req1) <= Cardinality(req0) - 1
    BY <1>4, <1>f, OneFewer
  <2>3. QED
    BY <2>1, <2>2, <1>4, <1>c, <1>f, <1>p
<1>5. ASSUME NEW u \in out,
             ins \subseteq in \cup {u}, outs \subseteq out \ {u}, req1 \subseteq req0
      PROVE  Cardinality(ins) + Cardinality(outs) + Cardinality(req1) <= seatPeak' + all - 1
  <2>1. Cardinality(ins) <= Cardinality(in) + 1 /\ Cardinality(outs) <= Cardinality(out) - 1
        /\ Cardinality(req1) <= Cardinality(req0)
    BY <1>5, <1>f, AtMostOneMore, OneFewer, Inside
  <2>2. QED
    BY <2>1, <1>c, <1>f, <1>p
<1>6. QED
  BY <1>e, <1>1, <1>2, <1>3, <1>4, <1>5 DEF SeatsEffect

--------------------------------------------------------------------------------
(* Counted resources, in the same way.                                     *)
AgentsEffect ==
  \/ agents' <= agents /\ Passed("createAgent")' \subseteq Passed("createAgent")
  \/ WithinPlanLimit /\ agents' = agents
  \/ \E q \in Passed("createAgent") :
       /\ agents' = agents + 1
       /\ Passed("createAgent")' \subseteq Passed("createAgent") \ {q}

LEMMA AgentsEffects == ASSUME WsRows, [WsNext]_wsVars PROVE AgentsEffect
<1>t. WsTypeOK /\ agents \in Nat
  BY DEF WsRows, WsTypeOK
<1>1. ASSUME NEW q \in Requests, CreateAgent(q) PROVE AgentsEffect
  BY <1>1 DEF CreateAgent, AgentsEffect
<1>2. ASSUME NEW q \in Requests, InsertAgent(q) PROVE AgentsEffect
  <2>1. q \in Passed("createAgent")
    BY <1>2 DEF InsertAgent, Passed
  <2>2. Passed("createAgent")' \subseteq Passed("createAgent") \ {q}
    BY <1>2, <1>t, ClosePasses DEF InsertAgent
  <2>3. QED
    BY <1>2, <2>1, <2>2 DEF InsertAgent, AgentsEffect
<1>3. ASSUME NEW q \in Requests,
             CreateWorkspace(q) \/ Invite(q) \/ UpdateMemberRole(q) \/ RemoveMember(q)
               \/ UpdateProject(q) \/ RemoveProject(q)
      PROVE  AgentsEffect
  <2>1. PICK op, u, to, at : Open(q, op, u, to, at) /\ op # "createAgent"
    BY <1>3
       DEF CreateWorkspace, Invite, UpdateMemberRole, RemoveMember, UpdateProject, RemoveProject
  <2>2. Passed("createAgent")' \subseteq Passed("createAgent")
    BY <2>1, <1>t, OpenPasses
  <2>3. agents' = agents
    BY <1>3
       DEF CreateWorkspace, Invite, UpdateMemberRole, RemoveMember, UpdateProject, RemoveProject
  <2>4. QED
    BY <2>2, <2>3, <1>t DEF AgentsEffect
<1>4. ASSUME NEW q \in Requests, BeforeCreateInvitation(q) PROVE AgentsEffect
  <2>1. Passed("createAgent")' \subseteq Passed("createAgent")
    <3>1. CASE Close(q)
      BY <3>1, <1>t, ClosePasses
    <3>2. CASE call' = [call EXCEPT ![q].stage = "act"]
      BY <1>4, <3>2, <1>t, DoingTyped DEF BeforeCreateInvitation, Passed, Doing, WsTypeOK, Call
    <3>3. QED
      BY <1>4, <3>1, <3>2 DEF BeforeCreateInvitation
  <2>2. QED
    BY <1>4, <2>1, <1>t DEF BeforeCreateInvitation, AgentsEffect
<1>5. ASSUME NEW q \in Requests,
             ProvisionWorkspace(q) \/ CreateInvitation(q) \/ WriteMemberRole(q)
               \/ DeleteMember(q) \/ WriteProject(q) \/ DeleteProject(q)
      PROVE  AgentsEffect
  <2>1. Passed("createAgent")' \subseteq Passed("createAgent")
    BY <1>5, <1>t, ClosePasses
       DEF ProvisionWorkspace, CreateInvitation, WriteMemberRole, DeleteMember, WriteProject,
           DeleteProject
  <2>2. agents' = agents
    BY <1>5
       DEF ProvisionWorkspace, CreateInvitation, WriteMemberRole, DeleteMember, WriteProject,
           DeleteProject
  <2>3. QED
    BY <2>1, <2>2, <1>t DEF AgentsEffect
<1>6. CASE \/ \E u \in Users : CancelInvitation(u)
           \/ \E u \in Users, r \in Roles : AcceptInvitation(u, r)
           \/ \E p \in PlanNames : ChangePlan(p)
           \/ DeleteAgent \/ CreateProject \/ ArchiveProject \/ RestoreProject
           \/ UNCHANGED wsVars
  <2>1. agents' <= agents
    BY <1>6, <1>t
       DEF CancelInvitation, AcceptInvitation, ChangePlan, DeleteAgent, CreateProject,
           ArchiveProject, RestoreProject, wsVars
  <2>2. call' = call
    BY <1>6
       DEF CancelInvitation, AcceptInvitation, ChangePlan, DeleteAgent, CreateProject,
           ArchiveProject, RestoreProject, wsVars
  <2>3. QED
    BY <2>1, <2>2 DEF AgentsEffect, Passed, Doing
<1>7. QED
  BY <1>1, <1>2, <1>3, <1>4, <1>5, <1>6 DEF WsNext

LEMMA AgentsStep ==
  WsRows /\ PeaksHold /\ AgentsCounted /\ [WsNext]_wsVars => AgentsCounted'
<1> SUFFICES ASSUME WsRows, PeaksHold, AgentsCounted, [WsNext]_wsVars, agentPeak' # None
             PROVE  agents' + Cardinality(Passed("createAgent")')
                      <= agentPeak' + Cardinality(Requests) - 1
  BY DEF AgentsCounted
<1> DEFINE req0 == Passed("createAgent")
           req1 == Passed("createAgent")'
           all == Cardinality(Requests)
<1>r. WsRows'
  BY WsRowsStep
<1>s. req0 \subseteq Requests /\ req1 \subseteq Requests
  BY DEF Passed
<1>f. /\ IsFiniteSet(req0) /\ agents \in Nat /\ agents' \in Nat
      /\ Cardinality(req0) \in Nat /\ Cardinality(req1) \in Nat /\ all \in Nat
      /\ Cardinality(req0) <= all /\ Cardinality(req1) <= all
  BY <1>s, <1>r, Inside, LimitAssumption DEF WsRows, WsTypeOK
<1>p. /\ agentPeak # None /\ agentPeak <= agentPeak' /\ agentPeak \in Nat /\ agentPeak' \in Nat
      /\ ResourceLimit[GetPlan] # None /\ ResourceLimit[GetPlan] <= agentPeak
      /\ ResourceLimit[GetPlan] \in Nat
  <2>1. agentPeak # None /\ agentPeak <= agentPeak'
    BY PeaksStep
  <2>2. agentPeak \in Nat /\ agentPeak' \in Nat
    BY <1>r, <2>1 DEF WsRows, WsTypeOK
  <2>3. ResourceLimit[GetPlan] # None /\ ResourceLimit[GetPlan] <= agentPeak
    BY <2>1 DEF PeaksHold, UnderThePeak
  <2>4. GetPlan \in PlanNames
    BY LimitAssumption DEF GetPlan, WsRows, WsTypeOK
  <2>5. QED
    BY <2>1, <2>2, <2>3, <2>4, LimitAssumption
<1>c. agents + Cardinality(req0) <= agentPeak + all - 1
  BY <1>p DEF AgentsCounted
<1>e. AgentsEffect
  BY AgentsEffects
<1>1. CASE agents' <= agents /\ req1 \subseteq req0
  <2>1. Cardinality(req1) <= Cardinality(req0)
    BY <1>1, <1>f, Inside
  <2>2. QED
    BY <2>1, <1>1, <1>c, <1>f, <1>p
<1>2. CASE WithinPlanLimit /\ agents' = agents
  <2>1. agents <= agentPeak - 1
    BY <1>2, <1>f, <1>p, RoomBelow DEF WithinPlanLimit
  <2>2. QED
    BY <2>1, <1>2, <1>f, <1>p
<1>3. ASSUME NEW q \in req0, agents' = agents + 1, req1 \subseteq req0 \ {q}
      PROVE  agents' + Cardinality(req1) <= agentPeak' + all - 1
  <2>1. Cardinality(req1) <= Cardinality(req0) - 1
    BY <1>3, <1>f, OneFewer
  <2>2. QED
    BY <2>1, <1>3, <1>c, <1>f, <1>p
<1>4. QED
  BY <1>e, <1>1, <1>2, <1>3 DEF AgentsEffect

--------------------------------------------------------------------------------
(* The last owner.  With more than one, there is one beside any other.     *)
LEMMA AnotherOwner ==
  ASSUME NEW S, IsFiniteSet(S), Cardinality(S) > 1, NEW u
  PROVE  \E v \in S : v # u
<1>1. CASE S \subseteq {u}
  <2>1. Cardinality(S) <= Cardinality({u}) /\ Cardinality({u}) = 1 /\ Cardinality(S) \in Nat
    BY <1>1, Inside, FS_Singleton
  <2>2. QED
    BY <2>1
<1>2. QED
  BY <1>1

\* A step that keeps owners owners and starts no guarded request.
LEMMA OwnersKept ==
  ASSUME Governed, Owners \subseteq Owners',
         Inhabited' => Inhabited \/ Owners' # {},
         \A q \in Guarding' : q \in Guarding /\ call'[q].on = call[q].on,
         overlapped' = overlapped
  PROVE  Governed'
BY DEF Governed

\* A guarded request that begins found an owner besides the one it is about.
LEMMA GuardBegins ==
  ASSUME WsRows, Governed, NEW q \in Requests, NEW op, NEW u \in MembersNow, NEW to,
         NotLastOwner(u), Open(q, op, u, to, "act"),
         overlapped' = (overlapped \/ Guarding # {}), UNCHANGED member
  PROVE  Governed'
<1>1. SUFFICES ASSUME ~overlapped' PROVE Governed'
  BY DEF Governed
<1>2. ~overlapped /\ Guarding = {}
  BY <1>1
<1>3. Owners # {} /\ Owners \subseteq Users
  BY <1>2 DEF Governed, Owners, Inhabited
<1>4. \E v \in Owners : v # u
  <2>1. CASE member[u] = "owner"
    <3>1. IsFiniteSet(Owners) /\ Cardinality(Owners) > 1
      BY <2>1, <1>3, Inside, LimitAssumption DEF NotLastOwner
    <3>2. QED
      BY <3>1, AnotherOwner
  <2>2. CASE member[u] # "owner"
    BY <2>2, <1>3 DEF Owners
  <2>3. QED
    BY <2>1, <2>2
<1>5. \A p \in Guarding' : p = q /\ call'[p].on = u
  BY <1>2 DEF Guarding, Open, WsRows, WsTypeOK
<1>6. QED
  BY <1>3, <1>4, <1>5 DEF Governed, Owners

\* One that ends leaves the owner it had found.
LEMMA GuardEnds ==
  ASSUME WsRows, Governed, NEW q \in Guarding, Close(q), UNCHANGED overlapped,
         \A v \in Users : v # call[q].on => member'[v] = member[v]
  PROVE  Governed'
<1>1. SUFFICES ASSUME ~overlapped' PROVE Governed'
  BY DEF Governed
<1>2. \A p \in Guarding : p = q
  BY <1>1 DEF Governed
<1>3. PICK v \in Owners : v # call[q].on
  BY <1>1 DEF Governed
<1>4. v \in Owners'
  BY <1>3 DEF Owners
<1>5. Guarding' = {}
  BY <1>2 DEF Guarding, Close, WsRows, WsTypeOK
<1>6. QED
  BY <1>4, <1>5 DEF Governed

LEMMA GovernedStep == WsRows /\ Governed /\ [WsNext]_wsVars => Governed'
<1> SUFFICES ASSUME WsRows, Governed, [WsNext]_wsVars PROVE Governed'
  OBVIOUS
<1>t. WsTypeOK /\ InvitedAreOutside
  BY DEF WsRows
<1>1. ASSUME NEW q \in Requests, CreateWorkspace(q) PROVE Governed'
  <2>1. PICK u \in Users : Open(q, "create", u, None, "act")
                           /\ member' = [member EXCEPT ![u] = "owner"]
    BY <1>1 DEF CreateWorkspace
  <2>2. Owners \subseteq Owners' /\ u \in Owners'
    BY <2>1, <1>t DEF Owners, WsTypeOK, MemberRow
  <2>3. \A p \in Guarding' : p \in Guarding /\ call'[p].on = call[p].on
    BY <2>1, <1>t DEF Guarding, Open, WsTypeOK
  <2>4. QED
    BY <1>1, <2>2, <2>3, OwnersKept DEF CreateWorkspace
<1>2. ASSUME NEW q \in Requests, Invite(q) \/ CreateAgent(q) \/ UpdateProject(q) \/ RemoveProject(q)
      PROVE  Governed'
  <2>1. PICK op, u, to, at : Open(q, op, u, to, at) /\ op \notin {"setRole", "remove"}
                              /\ (op = "invite" => Owners # {})
    BY <1>2 DEF Invite, CreateAgent, UpdateProject, RemoveProject
  <2>2. \A p \in Guarding' : p \in Guarding /\ call'[p].on = call[p].on
    BY <2>1, <1>t DEF Guarding, Open, WsTypeOK
  <2>3. member' = member /\ pending' = pending /\ overlapped' = overlapped
    BY <1>2 DEF Invite, CreateAgent, UpdateProject, RemoveProject
  <2>4. Inhabited' => Inhabited \/ Owners' # {}
    BY <2>1, <2>3, <1>t DEF Inhabited, Open, Owners, MembersNow, WsTypeOK
  <2>5. QED
    BY <2>2, <2>3, <2>4, OwnersKept DEF Owners
<1>3. ASSUME NEW q \in Requests, UpdateMemberRole(q) PROVE Governed'
  BY <1>3, GuardBegins DEF UpdateMemberRole
<1>4. ASSUME NEW q \in Requests, RemoveMember(q) PROVE Governed'
  BY <1>4, GuardBegins DEF RemoveMember
<1>5. ASSUME NEW q \in Requests, WriteMemberRole(q) \/ DeleteMember(q) PROVE Governed'
  <2>1. q \in Guarding /\ Close(q) /\ overlapped' = overlapped
    BY <1>5 DEF WriteMemberRole, DeleteMember, Guarding, Doing
  <2>2. \A v \in Users : v # call[q].on => member'[v] = member[v]
    BY <1>5, <1>t DEF WriteMemberRole, DeleteMember, WsTypeOK, MemberRow
  <2>3. QED
    BY <2>1, <2>2, GuardEnds
<1>6. ASSUME NEW q \in Requests,
             ProvisionWorkspace(q) \/ BeforeCreateInvitation(q) \/ CreateInvitation(q)
               \/ InsertAgent(q) \/ WriteProject(q) \/ DeleteProject(q)
      PROVE  Governed'
  <2>1. member' = member /\ overlapped' = overlapped
    BY <1>6 DEF ProvisionWorkspace, BeforeCreateInvitation, CreateInvitation, InsertAgent,
       WriteProject, DeleteProject
  <2>2. Close(q) \/ call' = [call EXCEPT ![q].stage = "act"]
    BY <1>6 DEF ProvisionWorkspace, BeforeCreateInvitation, CreateInvitation, InsertAgent,
       WriteProject, DeleteProject
  <2>3. call[q] \in Call
    BY <1>6, DoingTyped DEF ProvisionWorkspace, BeforeCreateInvitation, CreateInvitation,
       InsertAgent, WriteProject, DeleteProject
  <2>4. /\ \A p \in Guarding' : p \in Guarding /\ call'[p].on = call[p].on
        /\ \A p \in Requests : call'[p] # None => call[p] # None /\ call'[p].op = call[p].op
    <3>1. CASE Close(q)
      BY <3>1, <1>t DEF Guarding, Close, WsTypeOK
    <3>2. CASE call' = [call EXCEPT ![q].stage = "act"]
      <4>1. /\ call[q] # None /\ \A p \in Requests : p # q => call'[p] = call[p]
            /\ call'[q].op = call[q].op /\ call'[q].on = call[q].on
        BY <3>2, <2>3, <1>t, <1>6
           DEF WsTypeOK, Call, Doing, ProvisionWorkspace, BeforeCreateInvitation, CreateInvitation,
               InsertAgent, WriteProject, DeleteProject
      <4>2. QED
        BY <4>1 DEF Guarding
    <3>3. QED
      BY <2>2, <3>1, <3>2
  <2>5. Inhabited' => Inhabited
    <3>1. pending' = pending \/ Inhabited
      BY <1>6 DEF ProvisionWorkspace, BeforeCreateInvitation, CreateInvitation, InsertAgent,
         WriteProject, DeleteProject, Inhabited, Doing
    <3>2. QED
      BY <3>1, <2>1, <2>4 DEF Inhabited, MembersNow
  <2>6. QED
    BY <2>1, <2>4, <2>5, OwnersKept DEF Owners
<1>7. ASSUME NEW u \in Users, NEW r \in Roles, AcceptInvitation(u, r) PROVE Governed'
  <2>1. member[u] = None
    BY <1>7, <1>t DEF AcceptInvitation, InvitedAreOutside, MembersNow
  <2>2. Owners \subseteq Owners'
    BY <1>7, <2>1, <1>t, RoomAssumption DEF AcceptInvitation, Owners, WsTypeOK, MemberRow, Roles
  <2>3. Guarding' = Guarding /\ call' = call
    BY <1>7 DEF AcceptInvitation, Guarding
  <2>4. Inhabited
    BY <1>7 DEF AcceptInvitation, Inhabited
  <2>5. QED
    BY <1>7, <2>2, <2>3, <2>4, OwnersKept DEF AcceptInvitation
<1>8. CASE \/ \E u \in Users : CancelInvitation(u)
           \/ \E p \in PlanNames : ChangePlan(p)
           \/ DeleteAgent \/ CreateProject \/ ArchiveProject \/ RestoreProject
           \/ UNCHANGED wsVars
  BY <1>8
     DEF CancelInvitation, ChangePlan, DeleteAgent, CreateProject, ArchiveProject, RestoreProject,
         wsVars, Governed, Inhabited, Owners, MembersNow, Guarding
<1>9. QED
  BY <1>1, <1>2, <1>3, <1>4, <1>5, <1>6, <1>7, <1>8 DEF WsNext

--------------------------------------------------------------------------------
LEMMA WsInvInit == WsInit => WsInv
<1> SUFFICES ASSUME WsInit PROVE WsInv
  OBVIOUS
<1>1. WsRows
  <2>1. member \in MemberRow /\ call \in [Requests -> Call \cup {None}]
    BY DEF WsInit, MemberRow
  <2>2. seatPeak \in Nat \cup {None} /\ agentPeak \in Nat \cup {None} /\ started \in 0 .. MaxChanges
    BY LimitAssumption DEF WsInit
  <2>3. WsTypeOK
    BY <2>1, <2>2 DEF WsInit, WsTypeOK, ProjectRow
  <2>4. CallsNameSomebody /\ InvitedAreOutside
    BY DEF WsInit, CallsNameSomebody, InvitedAreOutside
  <2>5. QED
    BY <2>3, <2>4 DEF WsRows
<1>2. PeaksHold
  BY LimitAssumption DEF WsInit, PeaksHold, UnderThePeak, GetPlan
<1>3. MembersNow = {} /\ pending = {} /\ Guarding = {} /\ Passed("invite") = {}
      /\ Passed("createAgent") = {}
  BY DEF WsInit, MembersNow, Guarding, Passed, Doing
<1>4. Cardinality(Requests) \in Nat /\ Cardinality(Requests) >= 1
  <2>1. Cardinality(Requests) \in Nat /\ Cardinality(Requests) # 0
    BY LimitAssumption, RoomAssumption, FS_CardinalityType, FS_EmptySet
  <2>2. QED
    BY <2>1
<1>5. SeatsCounted
  <2>1. SeatsUsed = 0 /\ Cardinality(Passed("invite")) = 0
    BY <1>3, FS_EmptySet DEF SeatsUsed
  <2>2. seatPeak \in Nat \cup {None}
    BY <1>1 DEF WsRows, WsTypeOK
  <2>3. QED
    BY <1>4, <2>1, <2>2 DEF SeatsCounted
<1>6. AgentsCounted
  <2>1. agents = 0 /\ Cardinality(Passed("createAgent")) = 0
    BY <1>3, FS_EmptySet DEF WsInit
  <2>2. agentPeak \in Nat \cup {None}
    BY <1>1 DEF WsRows, WsTypeOK
  <2>3. QED
    BY <1>4, <2>1, <2>2 DEF AgentsCounted
<1>7. Governed
  BY <1>3 DEF WsInit, Governed, Inhabited
<1>8. QED
  BY <1>1, <1>2, <1>5, <1>6, <1>7 DEF WsInv

LEMMA WsInvStep == WsInv /\ [WsNext]_wsVars => WsInv'
BY WsRowsStep, PeaksStep, SeatsStep, AgentsStep, GovernedStep DEF WsInv

LEMMA WsInvSays == WsInv => WsTypeOK /\ PlanLimitsHold /\ OwnerRemains
<1> SUFFICES ASSUME WsInv PROVE WsTypeOK /\ PlanLimitsHold /\ OwnerRemains
  OBVIOUS
<1>1. WsTypeOK
  BY DEF WsInv, WsRows
<1>2. \A o : Cardinality(Passed(o)) \in Nat
  <2>1. \A o : Passed(o) \subseteq Requests
    BY DEF Passed
  <2>2. QED
    BY <2>1, Inside, LimitAssumption
<1>3. SeatsUsed \in Nat /\ agents \in Nat /\ Cardinality(Requests) \in Nat
      /\ seatPeak \in Nat \cup {None} /\ agentPeak \in Nat \cup {None}
  <2>1. MembersNow \subseteq Users /\ pending \subseteq Users
    BY <1>1 DEF MembersNow, WsTypeOK
  <2>2. Cardinality(MembersNow) \in Nat /\ Cardinality(pending) \in Nat
        /\ Cardinality(Requests) \in Nat
    BY <2>1, Inside, LimitAssumption
  <2>3. QED
    BY <2>2, <1>1 DEF SeatsUsed, WsTypeOK
<1>4. SeatOvershoot
  <2>1. Cardinality(Passed("invite")) \in Nat
    BY <1>2
  <2>2. QED
    BY <2>1, <1>3 DEF SeatOvershoot, WsInv, SeatsCounted
<1>5. ResourceOvershoot
  <2>1. Cardinality(Passed("createAgent")) \in Nat
    BY <1>2
  <2>2. QED
    BY <2>1, <1>3 DEF ResourceOvershoot, WsInv, AgentsCounted
<1>6. OwnerRemains
  BY DEF OwnerRemains, WsInv, Governed, Inhabited
<1>7. QED
  BY <1>1, <1>4, <1>5, <1>6 DEF PlanLimitsHold

--------------------------------------------------------------------------------
(* Permissions.                                                            *)
LEMMA BuiltInRoles ==
  /\ R!SystemRoles \subseteq R!RoleIds /\ CustomRoles \subseteq R!RoleIds
  /\ CustomRoles \cap R!SystemRoles = {} /\ None \notin R!SystemRoles /\ None \notin CustomRoles
  /\ \A s : R!PrimarySystemRole(s) \in R!SystemRoles
<1>1. "member" \in R!SystemRoles
  BY DEF R!SystemRoles, R!WorkspaceSystemRoles
<1>2. QED
  BY <1>1, RolesAssumption DEF R!RoleIds, R!PrimarySystemRole

LEMMA RoleGives ==
  ASSUME Tables, NEW m \in Members, NEW r \in memberRole[m]
  PROVE  R!RolePermissions(r) \subseteq KeysInPlay /\ r \in R!RoleIds
<1>1. r \in R!RoleIds
  BY DEF Tables, R!MemberRoleRow
<1>2. CASE r \in R!SystemRoles
  BY <1>1, <1>2 DEF R!RolePermissions
<1>3. CASE r \notin R!SystemRoles
  <2>1. r \in CustomRoles /\ rolePerm[r] # None
    BY <1>1, <1>3 DEF Tables, RolesExist, R!RoleIds
  <2>2. QED
    BY <1>1, <1>3, <2>1 DEF Tables, R!RolePermissions, R!RolePermissionRow
<1>4. QED
  BY <1>2, <1>3

LEMMA ListGives ==
  ASSUME Tables, NEW m \in Members PROVE R!ListMemberPermissions(m) \subseteq KeysInPlay
BY RoleGives DEF R!ListMemberPermissions

--------------------------------------------------------------------------------
(* A step moves at most one request, and what that one then carries is     *)
(* formed, and was given.                                                  *)
Moves(q) ==
  \E a : req' = [req EXCEPT ![q] = a] /\ (a = R!Idle \/ Carries(a))

Ops ==
  {"require", "createRole", "updateRole", "deleteRole", "setMemberRoles", "syncRole",
   "removed", "createKey", "useKey"}
Stages == {"list", "heal", "put", "held", "write", "forget", "flush", "done"}
Targets == R!SystemRoles \cup CustomRoles \cup ApiKeys \cup {None}

LEMMA BeginMoves ==
  ASSUME Given, NEW q \in Askers,
         NEW does \in Ops, NEW m \in Members, NEW aim \in Targets,
         NEW for \in SUBSET KeysInPlay, NEW at \in Stages,
         NEW found \in R!SystemRoles \cup {None}, NEW told \in SUBSET KeysInPlay,
         told \subseteq granted[m],
         does \in {"createRole", "updateRole", "deleteRole"} => aim \in CustomRoles,
         does \in {"createKey", "useKey"} => aim \in ApiKeys,
         does = "setMemberRoles" => aim \in CustomRoles \cup {None},
         does \in {"setMemberRoles", "syncRole"} \/ at = "heal" => found # None,
         R!Begin(q, does, m, aim, for, at, found, told)
  PROVE  Moves(q)
<1> DEFINE a == [op |-> does, on |-> m, target |-> aim, asks |-> for, stage |-> at,
                 seen |-> found, held |-> told]
<1>1. a \in R!Request
  BY DEF R!Request, Targets, R!RoleIds, Ops, Stages
<1>2. Formed(a) /\ a.held \subseteq granted[a.on]
  BY DEF Formed
<1>3. req' = [req EXCEPT ![q] = a]
  BY DEF R!Begin
<1> HIDE DEF a
<1>4. QED
  BY <1>1, <1>2, <1>3 DEF Moves, Carries

LEMMA ForMemberMoves ==
  ASSUME Given, Cached, NEW q \in Askers,
         NEW does \in Ops \ {"setMemberRoles", "syncRole"}, NEW m \in Members,
         NEW aim \in Targets, NEW for \in SUBSET KeysInPlay, does # "deleteRole",
         does \in {"createRole", "updateRole"} => aim \in CustomRoles,
         does \in {"createKey", "useKey"} => aim \in ApiKeys,
         R!ForMember(q, does, m, aim, for)
  PROVE  Moves(q)
<1>o. /\ does \in Ops
      /\ does \in {"createRole", "updateRole", "deleteRole"} => aim \in CustomRoles
      /\ does # "setMemberRoles" /\ does # "syncRole" /\ does \notin {"setMemberRoles", "syncRole"}
      /\ None \in R!SystemRoles \cup {None}
  BY DEF Ops
<1>1. CASE cache[m] # None /\ R!Begin(q, does, m, aim, for, R!Told(does), None, cache[m])
  <2>1. cache[m] \in SUBSET KeysInPlay /\ cache[m] \subseteq granted[m]
    BY <1>1 DEF Cached
  <2>2. R!Told(does) \in Stages /\ R!Told(does) # "heal"
    BY DEF R!Told, Stages
  <2>3. QED
    BY <1>o, <1>1, <2>1, <2>2, BeginMoves
<1>2. CASE R!Begin(q, does, m, aim, for, "list", None, {})
  <2>1. "list" \in Stages /\ {} \in SUBSET KeysInPlay /\ {} \subseteq granted[m]
    BY DEF Stages
  <2>2. QED
    BY <1>o, <1>2, <2>1, BeginMoves
<1>3. QED
  BY <1>1, <1>2 DEF R!ForMember

\* A request that goes on to another stage than healing.
LEMMA GoToMoves ==
  ASSUME Asked, NEW q \in Askers, req[q] # R!Idle,
         NEW at \in {"list", "put", "held", "write", "forget", "flush", "done"}, R!GoTo(q, at)
  PROVE  Moves(q)
<1> DEFINE a == [req[q] EXCEPT !.stage = at]
<1>1. Carries(req[q])
  BY DEF Asked
<1>2. Carries(a)
  BY <1>1 DEF Carries, R!Request, Formed
<1>3. req' = [req EXCEPT ![q] = a]
  BY DEF R!GoTo
<1> HIDE DEF a
<1>4. QED
  BY <1>2, <1>3 DEF Moves

LEMMA EndMoves == ASSUME NEW q \in Askers, R!End(q) PROVE Moves(q)
BY DEF R!End, Moves

LEMMA MovesTold ==
  ASSUME Asked, NEW q \in Askers, Moves(q), \A m \in Members : granted[m] \subseteq granted'[m]
  PROVE  Asked'
<1>1. PICK a : req' = [req EXCEPT ![q] = a] /\ (a = R!Idle \/ Carries(a))
  BY DEF Moves
<1>2. \A b : Carries(b) => Carries(b)'
  BY DEF Carries, R!Request, Formed
<1>3. req' \in [Askers -> R!Request \cup {R!Idle}]
  BY <1>1 DEF Asked, Carries
<1>4. \A p \in Askers : req'[p] # R!Idle => Carries(req'[p])
  BY <1>1 DEF Asked
<1>5. \A p \in Askers : req'[p] # R!Idle => Carries(req[p])'
  BY <1>4 DEF Carries, R!Request, Formed
<1>6. QED
  BY <1>3, <1>5 DEF Asked, R!Request, R!Idle

--------------------------------------------------------------------------------
(* The steps that only look, and what each request then carries.           *)
Looks(q) ==
  \/ R!ListPermissions(q) \/ R!PutCached(q) \/ R!InvalidateMember(q) \/ R!InvalidateAll(q)
  \/ R!Respond(q) \/ R!UseKey(q)
  \/ R!RequirePermission(q) \/ R!BeginCreateRole(q) \/ R!BeginUpdateRole(q)
  \/ R!BeginDeleteRole(q) \/ R!BeginSetMemberRoles(q) \/ R!BeginCreateKey(q) \/ R!ResolveKey(q)

Writes(q) ==
  \/ R!HealRole(q) \/ R!WriteRole(q) \/ R!DeleteRole(q) \/ R!ReplaceMemberRoles(q)
  \/ R!SyncFromBetterAuthRole(q) \/ R!CreateKey(q) \/ R!WriteRoleString(q) \/ R!RemoveMember(q)

LEMMA RolesNext ==
  R!Next <=>
    \/ \E q \in Askers : Looks(q) \/ Writes(q)
    \/ \E m \in Members : R!ExpireCached(m)
    \/ \E m \in Members, s \in RoleStrings : R!AcceptInvitation(m, s)
    \/ \E k \in ApiKeys : R!RevokeKey(k)
BY DEF R!Next, R!Step, Looks, Writes

TablesStay == UNCHANGED <<role, memberRole, rolePerm, apiKey, granted, author, raced>>
Counts == changes' = changes \/ changes' \in 0 .. MaxRoleChanges

LEMMA ChangeCounts == ASSUME Tables, R!Change PROVE Counts
BY RolesAssumption DEF Tables, R!Change, Counts

LEMMA LooksStay == ASSUME Tables, NEW q \in Askers, Looks(q) PROVE TablesStay /\ Counts
<1>1. CASE \/ R!ListPermissions(q) \/ R!PutCached(q) \/ R!InvalidateMember(q)
           \/ R!InvalidateAll(q) \/ R!Respond(q) \/ R!UseKey(q) \/ R!RequirePermission(q)
           \/ R!ResolveKey(q)
  BY <1>1 DEF R!ListPermissions, R!PutCached, R!InvalidateMember, R!InvalidateAll, R!Respond,
              R!UseKey, R!RequirePermission, R!ResolveKey, TablesStay, Counts, R!tables, R!history
<1>2. CASE \/ R!BeginCreateRole(q) \/ R!BeginUpdateRole(q) \/ R!BeginDeleteRole(q)
           \/ R!BeginSetMemberRoles(q) \/ R!BeginCreateKey(q)
  BY <1>2, ChangeCounts DEF R!BeginCreateRole, R!BeginUpdateRole, R!BeginDeleteRole,
        R!BeginSetMemberRoles, R!BeginCreateKey, TablesStay, R!tables, R!history
<1>3. QED
  BY <1>1, <1>2 DEF Looks

\* What was listed is what the tables give; a role string is read to heal it.
LEMMA ListMoves ==
  ASSUME Tables, Given, Asked, NEW q \in Askers, R!ListPermissions(q) PROVE Moves(q)
<1> DEFINE m == req[q].on
           a == [req[q] EXCEPT !.held = R!ListMemberPermissions(m),
                   !.stage = IF R!ListMemberPermissions(m) = {} /\ req[q].seen = None /\ R!Exists(m)
                             THEN "heal" ELSE "put",
                   !.seen = IF R!ListMemberPermissions(m) = {} /\ req[q].seen = None /\ R!Exists(m)
                            THEN R!PrimarySystemRole(role[m]) ELSE @]
<1>1. req[q] # R!Idle /\ Carries(req[q]) /\ req[q] \in R!Request /\ Formed(req[q])
  BY DEF R!ListPermissions, R!At, Asked, Carries
<1>2. m \in Members
  BY <1>1 DEF R!Request
<1>3. R!ListMemberPermissions(m) \subseteq KeysInPlay /\ R!ListMemberPermissions(m) \subseteq granted[m]
  BY <1>2, ListGives DEF Given
<1>4. R!PrimarySystemRole(role[m]) \in R!SystemRoles /\ None \notin R!SystemRoles
  BY BuiltInRoles
<1>5. req' = [req EXCEPT ![q] = a]
  BY DEF R!ListPermissions
<1>6. a \in R!Request
  BY <1>1, <1>3, <1>4 DEF R!Request
<1>7. a.op = req[q].op /\ a.target = req[q].target /\ a.on = m /\ a.held = R!ListMemberPermissions(m)
  BY <1>1 DEF R!Request
<1>8. a.seen # None \/ (a.seen = req[q].seen /\ a.stage # "heal")
  BY <1>1, <1>4 DEF R!Request
<1> HIDE DEF a
<1>9. Formed(a)
  BY <1>1, <1>7, <1>8 DEF Formed
<1>10. QED
  BY <1>3, <1>5, <1>6, <1>7, <1>9 DEF Moves, Carries

LEMMA UseMoves ==
  ASSUME Asked, NEW q \in Askers, R!UseKey(q) PROVE Moves(q)
<1>1. req[q] # R!Idle /\ Carries(req[q])
  BY DEF R!UseKey, R!At, Asked
<1>2. CASE R!End(q)
  BY <1>2, EndMoves
<1>3. CASE req' = [req EXCEPT ![q].stage = "done", ![q].held = R!KeyPermissions(q)]
  <2> DEFINE a == [req[q] EXCEPT !.stage = "done", !.held = R!KeyPermissions(q)]
  <2>1. req' = [req EXCEPT ![q] = a]
    BY <1>3
  <2>r. req[q] \in R!Request /\ Formed(req[q]) /\ R!KeyPermissions(q) \subseteq req[q].held
    BY <1>1 DEF Carries, R!KeyPermissions
  <2>a. a \in R!Request /\ a.held = R!KeyPermissions(q) /\ a.on = req[q].on
    BY <2>r DEF R!Request
  <2>b. a.op = req[q].op /\ a.target = req[q].target /\ a.seen = req[q].seen /\ a.stage = "done"
    BY <2>r DEF R!Request
  <2> HIDE DEF a
  <2>c. Formed(a)
    BY <2>r, <2>b DEF Formed
  <2>2. Carries(a)
    BY <1>1, <2>r, <2>a, <2>c DEF Carries
  <2>3. QED
    BY <2>1, <2>2 DEF Moves
<1>4. QED
  BY <1>2, <1>3 DEF R!UseKey

LEMMA LooksMove ==
  ASSUME Tables, Given, Cached, Asked, NEW q \in Askers, Looks(q) PROVE Moves(q)
<1>o. /\ \A s : R!PrimarySystemRole(s) \in R!SystemRoles
      /\ None \notin R!SystemRoles /\ None \notin CustomRoles
  BY BuiltInRoles
<1>e. {} \in SUBSET KeysInPlay /\ \A m \in Members : {} \subseteq granted[m]
  OBVIOUS
<1>1. CASE R!ListPermissions(q)
  BY <1>1, ListMoves
<1>2. CASE R!PutCached(q)
  BY <1>2, GoToMoves DEF R!PutCached, R!Told, R!At
<1>3. CASE R!InvalidateMember(q) \/ R!InvalidateAll(q) \/ R!Respond(q)
  BY <1>3, EndMoves DEF R!InvalidateMember, R!InvalidateAll, R!Respond
<1>4. CASE R!UseKey(q)
  BY <1>4, UseMoves
<1>5. CASE R!RequirePermission(q)
  <2>1. PICK m \in Members : R!ForMember(q, "require", m, None, {})
    BY <1>5 DEF R!RequirePermission
  <2>2. "require" \in Ops \ {"setMemberRoles", "syncRole"} /\ None \in Targets
    BY DEF Ops, Targets
  <2>3. QED
    BY <1>e, <2>1, <2>2, ForMemberMoves
<1>6. CASE R!BeginCreateRole(q) \/ R!BeginUpdateRole(q)
  <2>1. PICK does \in {"createRole", "updateRole"}, m \in Members, r \in CustomRoles,
              asks \in SUBSET KeysInPlay : R!ForMember(q, does, m, r, asks)
    BY <1>6 DEF R!BeginCreateRole, R!BeginUpdateRole
  <2>2. does \in Ops \ {"setMemberRoles", "syncRole"} /\ does # "deleteRole" /\ r \in Targets
    BY DEF Ops, Targets
  <2>3. does \notin {"createKey", "useKey"}
    OBVIOUS
  <2>4. QED
    BY <2>1, <2>2, <2>3, ForMemberMoves
<1>7. CASE R!BeginDeleteRole(q)
  <2>1. PICK m \in Members, r \in CustomRoles :
              R!Begin(q, "deleteRole", m, r, {}, "write", None, {})
    BY <1>7 DEF R!BeginDeleteRole
  <2>2. "deleteRole" \in Ops /\ "write" \in Stages /\ r \in Targets /\ None \in R!SystemRoles \cup {None}
    BY DEF Ops, Stages, Targets
  <2>3. QED
    BY <1>e, <2>1, <2>2, BeginMoves
<1>8. CASE R!BeginSetMemberRoles(q)
  <2>1. PICK m \in Members, r \in CustomRoles \cup {None} :
              R!Begin(q, "setMemberRoles", m, r, {}, "write", R!PrimarySystemRole(role[m]), {})
    BY <1>8 DEF R!BeginSetMemberRoles
  <2>2. "setMemberRoles" \in Ops /\ "write" \in Stages /\ r \in Targets
    BY DEF Ops, Stages, Targets
  <2>3. /\ R!PrimarySystemRole(role[m]) \in R!SystemRoles \cup {None}
        /\ R!PrimarySystemRole(role[m]) # None
    BY <1>o
  <2>4. QED
    BY <1>e, <2>1, <2>2, <2>3, BeginMoves
<1>9. CASE R!BeginCreateKey(q)
  <2>1. PICK m \in Members, k \in ApiKeys, asks \in SUBSET KeysInPlay :
              R!ForMember(q, "createKey", m, k, asks)
    BY <1>9 DEF R!BeginCreateKey
  <2>2. "createKey" \in Ops \ {"setMemberRoles", "syncRole"} /\ k \in Targets
    BY DEF Ops, Targets
  <2>3. QED
    BY <2>1, <2>2, ForMemberMoves
<1>10. CASE R!ResolveKey(q)
  <2>1. PICK k \in ApiKeys : /\ apiKey[k] # None
                             /\ R!ForMember(q, "useKey", apiKey[k].member, k, apiKey[k].permissions)
    BY <1>10 DEF R!ResolveKey
  <2>2. apiKey[k].member \in Members /\ apiKey[k].permissions \in SUBSET KeysInPlay
    BY <2>1 DEF Tables, R!ApiKeyRow
  <2>3. "useKey" \in Ops \ {"setMemberRoles", "syncRole"} /\ k \in Targets
    BY DEF Ops, Targets
  <2>4. QED
    BY <2>1, <2>2, <2>3, ForMemberMoves
<1>11. QED
  BY <1>1, <1>2, <1>3, <1>4, <1>5, <1>6, <1>7, <1>8, <1>9, <1>10 DEF Looks

--------------------------------------------------------------------------------
(* The steps that write the tables.                                        *)
LEMMA WritesMove ==
  ASSUME Given, Asked, NEW q \in Askers, Writes(q) PROVE Moves(q)
<1>o. /\ \A s : R!PrimarySystemRole(s) \in R!SystemRoles
      /\ None \notin R!SystemRoles /\ None \notin CustomRoles
  BY BuiltInRoles
<1>e. {} \in SUBSET KeysInPlay /\ \A m \in Members : {} \subseteq granted[m]
  OBVIOUS
<1>1. CASE R!HealRole(q) \/ R!WriteRole(q) \/ R!DeleteRole(q) \/ R!ReplaceMemberRoles(q)
           \/ R!SyncFromBetterAuthRole(q) \/ R!CreateKey(q)
  <2>1. req[q] # R!Idle
    BY <1>1 DEF R!HealRole, R!WriteRole, R!DeleteRole, R!ReplaceMemberRoles,
                R!SyncFromBetterAuthRole, R!CreateKey, R!At
  <2>2. R!End(q) \/ \E at \in {"list", "put", "held", "write", "forget", "flush", "done"} : R!GoTo(q, at)
    BY <1>1 DEF R!HealRole, R!WriteRole, R!DeleteRole, R!ReplaceMemberRoles,
                R!SyncFromBetterAuthRole, R!CreateKey
  <2>3. QED
    BY <2>1, <2>2, EndMoves, GoToMoves
<1>8. CASE R!WriteRoleString(q)
  <2>1. PICK m \in Members, s \in RoleStrings :
              R!Begin(q, "syncRole", m, None, {}, "write", R!PrimarySystemRole(s), {})
    BY <1>8 DEF R!WriteRoleString
  <2>2. "syncRole" \in Ops /\ "write" \in Stages /\ None \in Targets
    BY DEF Ops, Stages, Targets
  <2>3. R!PrimarySystemRole(s) \in R!SystemRoles \cup {None} /\ R!PrimarySystemRole(s) # None
    BY <1>o
  <2>4. QED
    BY <1>e, <2>1, <2>2, <2>3, BeginMoves
<1>9. CASE R!RemoveMember(q)
  <2>1. PICK m \in Members : R!Begin(q, "removed", m, None, {}, "forget", None, {})
    BY <1>9 DEF R!RemoveMember
  <2>2. "removed" \in Ops /\ "forget" \in Stages /\ None \in Targets /\ None \in R!SystemRoles \cup {None}
    BY DEF Ops, Stages, Targets
  <2>4. QED
    BY <1>e, <2>1, <2>2, BeginMoves
<1>11. QED
  BY <1>1, <1>8, <1>9 DEF Writes

\* What a request at work carries.
LEMMA AtWork ==
  ASSUME Asked, NEW q \in Askers, req[q] # R!Idle
  PROVE  /\ Carries(req[q]) /\ Formed(req[q])
         /\ req[q].on \in Members /\ req[q].asks \in SUBSET KeysInPlay
         /\ req[q].held \in SUBSET KeysInPlay /\ req[q].held \subseteq granted[req[q].on]
         /\ req[q].seen \in R!SystemRoles \cup {None}
<1>1. Carries(req[q])
  BY DEF Asked
<1>2. QED
  BY <1>1 DEF Carries, R!Request

LEMMA RacesStayMembers ==
  ASSUME Tables, NEW q \in Askers, NEW m \in Members, R!Race(q, m) PROVE raced' \subseteq Members
BY DEF Tables, R!Race

\* Rows that stay, or that hold one more built-in role and custom roles that exist.
LEMMA RowsTyped ==
  ASSUME Tables, Asked, NEW q \in Askers,
         R!HealRole(q) \/ R!ReplaceMemberRoles(q) \/ R!SyncFromBetterAuthRole(q)
  PROVE  /\ UNCHANGED <<role, rolePerm, apiKey, author, changes>>
         /\ memberRole' \in R!MemberRoleRow
         /\ raced' \subseteq Members
         /\ \A m \in Members : \A r \in memberRole'[m] \cap CustomRoles : rolePerm[r] # None
         /\ \A m \in Members : ~R!Exists(m) => memberRole'[m] = {}
<1>1. req[q] # R!Idle
  BY DEF R!HealRole, R!ReplaceMemberRoles, R!SyncFromBetterAuthRole, R!At
<1> DEFINE m == req[q].on
<1>2. m \in Members /\ req[q].seen \in R!SystemRoles \cup {None} /\ Formed(req[q])
  BY <1>1, AtWork
<1>3. req[q].seen \in R!SystemRoles /\ (req[q].op = "setMemberRoles" => req[q].target \in CustomRoles \cup {None})
  BY <1>2 DEF Formed, R!HealRole, R!ReplaceMemberRoles, R!SyncFromBetterAuthRole, R!At
<1>4. CustomRoles \cap R!SystemRoles = {} /\ R!SystemRoles \subseteq R!RoleIds /\ CustomRoles \subseteq R!RoleIds
  BY BuiltInRoles
<1>5. UNCHANGED <<role, rolePerm, apiKey, author, changes>>
  BY DEF R!HealRole, R!ReplaceMemberRoles, R!SyncFromBetterAuthRole
<1>6. R!Race(q, m) \/ UNCHANGED raced
  BY DEF R!HealRole, R!ReplaceMemberRoles, R!SyncFromBetterAuthRole
<1>7. raced' \subseteq Members
  BY <1>2, <1>6, RacesStayMembers DEF Tables
<1>8. CASE UNCHANGED memberRole
  BY <1>5, <1>7, <1>8 DEF Tables, RolesExist
<1>9. CASE R!Exists(m) /\ R!ReplaceSystemMemberRole(m, req[q].seen)
  <2>1. memberRole' = [memberRole EXCEPT ![m] = (memberRole[m] \ R!SystemRoles) \cup {req[q].seen}]
    BY <1>9 DEF R!ReplaceSystemMemberRole
  <2>2. memberRole' \in R!MemberRoleRow
    BY <2>1, <1>2, <1>3, <1>4 DEF Tables, R!MemberRoleRow
  <2>3. \A n \in Members : \A r \in memberRole'[n] \cap CustomRoles : rolePerm[r] # None
    BY <2>1, <1>2, <1>3, <1>4 DEF Tables, RolesExist, R!MemberRoleRow
  <2>4. \A n \in Members : ~R!Exists(n) => memberRole'[n] = {}
    BY <2>1, <1>2, <1>9 DEF Tables, R!MemberRoleRow
  <2>5. QED
    BY <1>5, <1>7, <2>2, <2>3, <2>4
<1>10. CASE /\ R!ReplaceMemberRoles(q) /\ R!Exists(m)
            /\ memberRole' = [memberRole EXCEPT ![m] = {req[q].seen} \cup ({req[q].target} \ {None})]
            /\ \A r \in {req[q].target} \ {None} : rolePerm[r] # None
  <2>1. {req[q].target} \ {None} \subseteq CustomRoles
    BY <1>3, <1>10 DEF R!ReplaceMemberRoles
  <2>2. memberRole' \in R!MemberRoleRow
    BY <2>1, <1>2, <1>3, <1>4, <1>10 DEF Tables, R!MemberRoleRow
  <2>3. \A n \in Members : \A r \in memberRole'[n] \cap CustomRoles : rolePerm[r] # None
    BY <2>1, <1>2, <1>3, <1>4, <1>10 DEF Tables, RolesExist, R!MemberRoleRow
  <2>4. \A n \in Members : ~R!Exists(n) => memberRole'[n] = {}
    BY <1>2, <1>10 DEF Tables, R!MemberRoleRow
  <2>5. QED
    BY <1>5, <1>7, <2>2, <2>3, <2>4
<1>11. CASE R!HealRole(q)
  BY <1>8, <1>9, <1>11 DEF R!HealRole
<1>12. CASE R!SyncFromBetterAuthRole(q)
  BY <1>8, <1>9, <1>12 DEF R!SyncFromBetterAuthRole
<1>13. CASE R!ReplaceMemberRoles(q)
  BY <1>8, <1>10, <1>13 DEF R!ReplaceMemberRoles
<1>14. QED
  BY <1>11, <1>12, <1>13

LEMMA WritesType ==
  ASSUME Tables, Asked, NEW q \in Askers, Writes(q) PROVE Tables'
<1>1. CASE R!HealRole(q) \/ R!ReplaceMemberRoles(q) \/ R!SyncFromBetterAuthRole(q)
  BY <1>1, RowsTyped DEF Tables, RolesExist, R!MemberRoleRow, R!RolePermissionRow, R!ApiKeyRow,
                         R!Exists, R!RoleIds, R!SystemRoles
<1>2. CASE R!WriteRole(q)
  <2>1. req[q] # R!Idle
    BY <1>2 DEF R!WriteRole, R!At
  <2> DEFINE r == req[q].target
  <2>2. req[q].on \in Members /\ r \in CustomRoles /\ req[q].asks \in SUBSET KeysInPlay
    BY <2>1, <1>2, AtWork DEF Formed, R!WriteRole
  <2>3. UNCHANGED <<role, memberRole, apiKey, changes, raced>>
    BY <1>2 DEF R!WriteRole
  <2>4. \/ UNCHANGED <<rolePerm, author>>
        \/ /\ rolePerm' = [rolePerm EXCEPT ![r] = req[q].asks]
           /\ author' = [author EXCEPT ![r] = req[q].on]
    BY <1>2 DEF R!WriteRole
  <2>n. req[q].asks # None /\ req[q].on # None
    BY <2>2, RolesAssumption
  <2>5. rolePerm' \in R!RolePermissionRow /\ author' \in [CustomRoles -> Members \cup {None}]
    BY <2>2, <2>4 DEF Tables, R!RolePermissionRow
  <2>6. \A c \in CustomRoles : rolePerm'[c] # None => author'[c] # None
    BY <2>2, <2>4, <2>n DEF Tables, R!RolePermissionRow
  <2>7. \A c \in CustomRoles : rolePerm[c] # None => rolePerm'[c] # None
    BY <2>2, <2>4, <2>n DEF Tables, R!RolePermissionRow
  <2>8. QED
    BY <2>3, <2>5, <2>6, <2>7 DEF Tables, RolesExist, R!MemberRoleRow, R!RolePermissionRow,
          R!ApiKeyRow, R!Exists, R!RoleIds, R!SystemRoles
<1>3. CASE R!DeleteRole(q)
  <2>1. req[q] # R!Idle
    BY <1>3 DEF R!DeleteRole, R!At
  <2> DEFINE r == req[q].target
  <2>2. r \in CustomRoles
    BY <2>1, <1>3, AtWork DEF Formed, R!DeleteRole
  <2>3. UNCHANGED <<role, apiKey, changes, author, raced>>
    BY <1>3 DEF R!DeleteRole, R!history
  <2>4. /\ rolePerm' = [rolePerm EXCEPT ![r] = None]
        /\ memberRole' = [m \in Members |-> memberRole[m] \ {r}]
    BY <1>3 DEF R!DeleteRole
  <2>5. rolePerm' \in R!RolePermissionRow /\ memberRole' \in R!MemberRoleRow
    BY <2>2, <2>4 DEF Tables, R!RolePermissionRow, R!MemberRoleRow
  <2>6. \A m \in Members : \A c \in memberRole'[m] \cap CustomRoles : rolePerm'[c] # None
    BY <2>2, <2>4 DEF Tables, RolesExist, R!RolePermissionRow, R!MemberRoleRow
  <2>7. \A c \in CustomRoles : rolePerm'[c] # None => rolePerm[c] # None
    BY <2>2, <2>4 DEF Tables, R!RolePermissionRow
  <2>8. QED
    BY <2>3, <2>4, <2>5, <2>6, <2>7 DEF Tables, RolesExist, R!MemberRoleRow, R!RolePermissionRow,
          R!ApiKeyRow, R!Exists, R!RoleIds, R!SystemRoles
<1>4. CASE R!CreateKey(q)
  <2>1. req[q] # R!Idle
    BY <1>4 DEF R!CreateKey, R!At
  <2>2. req[q].on \in Members /\ req[q].asks \in SUBSET KeysInPlay
    BY <2>1, AtWork
  <2>3. UNCHANGED <<role, memberRole, rolePerm, changes, author, raced>>
    BY <1>4 DEF R!CreateKey, R!history
  <2>4. apiKey' \in [ApiKeys -> R!ApiKeyRow \cup {None}]
    BY <1>4, <2>2 DEF Tables, R!CreateKey, R!ApiKeyRow
  <2>5. QED
    BY <2>3, <2>4 DEF Tables, RolesExist, R!MemberRoleRow, R!RolePermissionRow,
          R!ApiKeyRow, R!Exists, R!RoleIds, R!SystemRoles
<1>5. CASE R!WriteRoleString(q)
  <2>1. PICK m \in Members, s \in RoleStrings :
          /\ role[m] # Gone /\ role' = [role EXCEPT ![m] = s] /\ R!Race(q, m)
    BY <1>5 DEF R!WriteRoleString
  <2>2. UNCHANGED <<memberRole, rolePerm, apiKey, author>> /\ Counts
    BY <1>5, ChangeCounts DEF R!WriteRoleString
  <2>3. raced' \subseteq Members
    BY <2>1, RacesStayMembers
  <2>4. role' \in [Members -> RoleStrings \cup {None, Gone}] /\ changes' \in 0 .. MaxRoleChanges
    BY <2>1, <2>2 DEF Tables, Counts
  <2>5. \A n \in Members : ~R!Exists(n)' => ~R!Exists(n)
    BY <2>1 DEF Tables, R!Exists
  <2>6. QED
    BY <2>2, <2>3, <2>4, <2>5 DEF Tables, RolesExist, R!MemberRoleRow, R!RolePermissionRow,
          R!ApiKeyRow, R!RoleIds, R!SystemRoles
<1>6. CASE R!RemoveMember(q)
  <2>1. PICK m \in Members :
          /\ role' = [role EXCEPT ![m] = Gone] /\ memberRole' = [memberRole EXCEPT ![m] = {}]
          /\ apiKey' = [k \in ApiKeys |-> IF apiKey[k] # None /\ apiKey[k].member = m
                                          THEN None ELSE apiKey[k]]
    BY <1>6 DEF R!RemoveMember
  <2>2. UNCHANGED <<rolePerm, author, raced>> /\ Counts
    BY <1>6, ChangeCounts DEF R!RemoveMember, R!history
  <2>3. role' \in [Members -> RoleStrings \cup {None, Gone}] /\ changes' \in 0 .. MaxRoleChanges
    BY <2>1, <2>2 DEF Tables, Counts
  <2>4. memberRole' \in R!MemberRoleRow /\ apiKey' \in [ApiKeys -> R!ApiKeyRow \cup {None}]
    BY <2>1 DEF Tables, R!MemberRoleRow
  <2>5. \A n \in Members : ~R!Exists(n)' => memberRole'[n] = {}
    BY <2>1 DEF Tables, R!Exists, R!MemberRoleRow
  <2>6. \A n \in Members : memberRole'[n] \subseteq memberRole[n]
    BY <2>1 DEF Tables, R!MemberRoleRow
  <2>7. QED
    BY <2>2, <2>3, <2>4, <2>5, <2>6 DEF Tables, RolesExist, R!MemberRoleRow, R!RolePermissionRow,
          R!ApiKeyRow, R!RoleIds, R!SystemRoles
<1>7. QED
  BY <1>1, <1>2, <1>3, <1>4, <1>5, <1>6 DEF Writes

--------------------------------------------------------------------------------
(* What was given is never forgotten.                                      *)
LEMMA ListsTyped == Tables => \A m \in Members : R!ListMemberPermissions(m) \subseteq KeysInPlay
BY ListGives

LEMMA Remembered ==
  ASSUME Tables', Given, R!Remember
  PROVE  Given' /\ \A m \in Members : granted[m] \subseteq granted'[m]
<1>1. (Tables => \A m \in Members : R!ListMemberPermissions(m) \subseteq KeysInPlay)'
  BY ListsTyped, PTL
<1>2. \A m \in Members : R!ListMemberPermissions(m)' \subseteq KeysInPlay
  BY <1>1
<1>3. \A m \in Members :
        granted'[m] = granted[m] \cup UNION {IF r \in R!SystemRoles THEN R!RolePermissions(r)
                                             ELSE rolePerm'[r] : r \in memberRole'[m]}
  BY DEF R!Remember
<1>4. \A m \in Members :
        R!ListMemberPermissions(m)' = UNION {IF r \in R!SystemRoles THEN R!RolePermissions(r)
                                             ELSE rolePerm'[r] : r \in memberRole'[m]}
  BY DEF R!ListMemberPermissions, R!RolePermissions, R!SystemRoles
<1>5. \A m \in Members : granted'[m] = granted[m] \cup R!ListMemberPermissions(m)'
  BY <1>3, <1>4
<1>6. granted' \in [Members -> SUBSET KeysInPlay]
  <2>1. \A m \in Members : granted'[m] \in SUBSET KeysInPlay
    BY <1>2, <1>5 DEF Given
  <2>2. granted' = [m \in Members |-> granted'[m]]
    BY DEF R!Remember
  <2>3. QED
    BY <2>1, <2>2
<1>7. QED
  BY <1>5, <1>6 DEF Given, R!ListMemberPermissions

LEMMA GivenStays ==
  ASSUME Given, UNCHANGED granted,
         \A m \in Members : R!ListMemberPermissions(m)' \subseteq R!ListMemberPermissions(m)
  PROVE  Given'
BY DEF Given, R!ListMemberPermissions

LEMMA FewerRolesListLess ==
  ASSUME Tables, NEW m \in Members, memberRole'[m] \subseteq memberRole[m],
         \A r \in memberRole'[m] : r \in R!SystemRoles \/ rolePerm'[r] = rolePerm[r]
  PROVE  R!ListMemberPermissions(m)' \subseteq R!ListMemberPermissions(m)
<1>1. \A r \in memberRole'[m] : R!RolePermissions(r)' = R!RolePermissions(r)
  BY DEF R!RolePermissions, R!SystemRoles
<1>2. R!ListMemberPermissions(m)' = UNION {R!RolePermissions(r) : r \in memberRole'[m]}
  BY <1>1 DEF R!ListMemberPermissions, R!RolePermissions
<1>3. QED
  BY <1>2 DEF R!ListMemberPermissions

LEMMA WritesGive ==
  ASSUME Tables, Tables', Given, Asked, NEW q \in Askers, Writes(q)
  PROVE  Given' /\ \A m \in Members : granted[m] \subseteq granted'[m]
<1>1. CASE R!HealRole(q) \/ R!WriteRole(q) \/ R!ReplaceMemberRoles(q) \/ R!SyncFromBetterAuthRole(q)
  BY <1>1, Remembered
        DEF R!HealRole, R!WriteRole, R!ReplaceMemberRoles, R!SyncFromBetterAuthRole
<1>2. CASE R!DeleteRole(q)
  <2>1. UNCHANGED granted
    BY <1>2 DEF R!DeleteRole, R!history
  <2>2. req[q].target \in CustomRoles
    BY <1>2, AtWork DEF Formed, R!DeleteRole, R!At
  <2>3. \A m \in Members : /\ memberRole'[m] \subseteq memberRole[m]
                           /\ \A r \in memberRole'[m] : r \in R!RoleIds /\ r # req[q].target
    BY <1>2 DEF R!DeleteRole, Tables, R!MemberRoleRow
  <2>4. \A r \in R!RoleIds : r = req[q].target \/ r \in R!SystemRoles \/ rolePerm'[r] = rolePerm[r]
    BY <1>2, <2>2 DEF R!DeleteRole, Tables, R!RoleIds, R!RolePermissionRow
  <2>5. \A m \in Members : R!ListMemberPermissions(m)' \subseteq R!ListMemberPermissions(m)
    BY <2>3, <2>4, FewerRolesListLess
  <2>6. QED
    BY <2>1, <2>5, GivenStays
<1>3. CASE R!RemoveMember(q)
  <2>1. UNCHANGED <<granted, rolePerm>>
    BY <1>3 DEF R!RemoveMember, R!history
  <2>2. \A m \in Members : memberRole'[m] \subseteq memberRole[m]
    BY <1>3 DEF R!RemoveMember, Tables, R!MemberRoleRow
  <2>3. \A m \in Members : R!ListMemberPermissions(m)' \subseteq R!ListMemberPermissions(m)
    BY <2>1, <2>2, FewerRolesListLess
  <2>4. QED
    BY <2>1, <2>3, GivenStays
<1>4. CASE R!CreateKey(q) \/ R!WriteRoleString(q)
  <2>1. UNCHANGED <<granted, memberRole, rolePerm>>
    BY <1>4 DEF R!CreateKey, R!WriteRoleString, R!history
  <2>2. \A m \in Members : R!ListMemberPermissions(m)' = R!ListMemberPermissions(m)
    BY <2>1 DEF R!ListMemberPermissions, R!RolePermissions
  <2>3. QED
    BY <2>1, <2>2, GivenStays
<1>5. QED
  BY <1>1, <1>2, <1>3, <1>4 DEF Writes

--------------------------------------------------------------------------------
(* What is cached was told, and what was told was given.                   *)
LEMMA CacheKept ==
  ASSUME Cached, \A m \in Members : granted[m] \subseteq granted'[m],
         cache' \in [Members -> (SUBSET KeysInPlay) \cup {None}],
         \A m \in Members : cache'[m] \in {None, cache[m]}
                            \/ (cache'[m] \in SUBSET KeysInPlay /\ cache'[m] \subseteq granted[m])
  PROVE  Cached'
BY DEF Cached

LEMMA WritesLeaveCache == ASSUME NEW q \in Askers, Writes(q) PROVE UNCHANGED cache
BY DEF Writes, R!HealRole, R!WriteRole, R!DeleteRole, R!ReplaceMemberRoles,
       R!SyncFromBetterAuthRole, R!CreateKey, R!WriteRoleString, R!RemoveMember

LEMMA LooksCache ==
  ASSUME Tables, Cached, Asked, NEW q \in Askers, Looks(q)
  PROVE  Cached'
<1>1. \A m \in Members : granted[m] \subseteq granted'[m]
  BY LooksStay DEF TablesStay
<1>2. CASE UNCHANGED cache
  BY <1>1, <1>2, CacheKept DEF Cached
<1>3. CASE R!PutCached(q)
  <2>1. req[q] # R!Idle
    BY <1>3 DEF R!PutCached, R!At
  <2>2. req[q].held \in SUBSET KeysInPlay /\ req[q].held \subseteq granted[req[q].on] /\ req[q].on \in Members
    BY <2>1, AtWork
  <2>3. UNCHANGED cache \/ cache' = [cache EXCEPT ![req[q].on] = req[q].held]
    BY <1>3 DEF R!PutCached
  <2>4. CASE cache' = [cache EXCEPT ![req[q].on] = req[q].held]
    BY <2>2, <2>4, <1>1, CacheKept DEF Cached
  <2>5. QED
    BY <1>2, <2>3, <2>4
<1>4. CASE R!InvalidateMember(q)
  <2>1. req[q].on \in Members
    BY <1>4, AtWork DEF R!InvalidateMember, R!At
  <2>2. CASE cache' = [cache EXCEPT ![req[q].on] = None]
    BY <2>1, <2>2, <1>1, CacheKept DEF Cached
  <2>3. QED
    BY <1>2, <1>4, <2>2 DEF R!InvalidateMember
<1>5. CASE R!InvalidateAll(q)
  <2>1. PICK kept : cache' = [m \in Members |-> IF m \in kept THEN cache[m] ELSE None]
    BY <1>5 DEF R!InvalidateAll
  <2>2. QED
    BY <2>1, <1>1, CacheKept DEF Cached
<1>6. CASE ~(R!PutCached(q) \/ R!InvalidateMember(q) \/ R!InvalidateAll(q))
  BY <1>2, <1>6 DEF Looks, R!ListPermissions, R!Respond, R!UseKey, R!RequirePermission,
        R!BeginCreateRole, R!BeginUpdateRole, R!BeginDeleteRole, R!BeginSetMemberRoles,
        R!BeginCreateKey, R!ResolveKey
<1>7. QED
  BY <1>3, <1>4, <1>5, <1>6

--------------------------------------------------------------------------------
(* A role and a key give what the one who wrote them had been told.        *)
LEMMA AuthorsKept ==
  ASSUME Tables, R!AuthorsGiveWhatTheyHeld, UNCHANGED <<rolePerm, apiKey, author>>,
         \A m \in Members : granted[m] \subseteq granted'[m]
  PROVE  R!AuthorsGiveWhatTheyHeld'
<1>1. \A r \in CustomRoles : rolePerm[r] # None => author[r] \in Members
  BY DEF Tables
<1>2. \A k \in ApiKeys : apiKey[k] # None => apiKey[k].member \in Members
  BY DEF Tables, R!ApiKeyRow
<1>3. QED
  BY <1>1, <1>2 DEF R!AuthorsGiveWhatTheyHeld

LEMMA WritesAuthored ==
  ASSUME Tables, Asked, R!AuthorsGiveWhatTheyHeld, NEW q \in Askers, Writes(q),
         \A m \in Members : granted[m] \subseteq granted'[m]
  PROVE  R!AuthorsGiveWhatTheyHeld'
<1>1. \A r \in CustomRoles : rolePerm[r] # None =>
        author[r] \in Members /\ rolePerm[r] \subseteq granted'[author[r]]
  BY DEF Tables, R!AuthorsGiveWhatTheyHeld
<1>2. \A k \in ApiKeys : apiKey[k] # None =>
        apiKey[k].member \in Members /\ apiKey[k].permissions \subseteq granted'[apiKey[k].member]
  <2>1. \A k \in ApiKeys : apiKey[k] # None => apiKey[k].member \in Members
    BY DEF Tables, R!ApiKeyRow
  <2>2. QED
    BY <2>1 DEF R!AuthorsGiveWhatTheyHeld
<1>3. CASE UNCHANGED <<rolePerm, apiKey, author>>
  BY <1>3, AuthorsKept
<1>4. CASE R!WriteRole(q) /\ ~UNCHANGED <<rolePerm, author>>
  <2>1. req[q] # R!Idle /\ req[q].target \in CustomRoles
    BY <1>4, AtWork DEF R!WriteRole, R!At, Formed
  <2>2. req[q].asks \subseteq granted'[req[q].on]
    BY <1>4, <2>1, AtWork DEF R!WriteRole, R!AssertMemberMayGrant
  <2>3. /\ rolePerm' = [rolePerm EXCEPT ![req[q].target] = req[q].asks]
        /\ author' = [author EXCEPT ![req[q].target] = req[q].on] /\ UNCHANGED apiKey
    BY <1>4 DEF R!WriteRole
  <2>4. \A r \in CustomRoles : rolePerm'[r] # None => rolePerm'[r] \subseteq granted'[author'[r]]
    BY <1>1, <2>1, <2>2, <2>3 DEF Tables, R!RolePermissionRow
  <2>5. QED
    BY <1>2, <2>3, <2>4 DEF R!AuthorsGiveWhatTheyHeld
<1>5. CASE R!DeleteRole(q)
  <2>1. req[q].target \in CustomRoles
    BY <1>5, AtWork DEF R!DeleteRole, R!At, Formed
  <2>2. /\ rolePerm' = [rolePerm EXCEPT ![req[q].target] = None] /\ UNCHANGED <<apiKey, author>>
    BY <1>5 DEF R!DeleteRole, R!history
  <2>3. \A r \in CustomRoles : rolePerm'[r] # None => rolePerm'[r] \subseteq granted'[author'[r]]
    BY <1>1, <2>1, <2>2 DEF Tables, R!RolePermissionRow
  <2>4. QED
    BY <1>2, <2>2, <2>3 DEF R!AuthorsGiveWhatTheyHeld
<1>6. CASE R!CreateKey(q) /\ ~UNCHANGED apiKey
  <2>1. req[q] # R!Idle /\ req[q].target \in ApiKeys
    BY <1>6, AtWork DEF R!CreateKey, R!At, Formed
  <2>2. req[q].asks \subseteq granted'[req[q].on]
    BY <1>6, <2>1, AtWork DEF R!CreateKey, R!AssertMemberMayGrant
  <2>3. /\ apiKey' = [apiKey EXCEPT ![req[q].target] =
                        [member |-> req[q].on, permissions |-> req[q].asks, revoked |-> FALSE]]
        /\ UNCHANGED <<rolePerm, author>>
    BY <1>6 DEF R!CreateKey, R!history
  <2>4. \A k \in ApiKeys : apiKey'[k] # None => apiKey'[k].permissions \subseteq granted'[apiKey'[k].member]
    BY <1>2, <2>1, <2>2, <2>3 DEF Tables
  <2>5. QED
    BY <1>1, <2>3, <2>4 DEF R!AuthorsGiveWhatTheyHeld
<1>7. CASE R!RemoveMember(q)
  <2>1. /\ \A k \in ApiKeys : apiKey'[k] = None \/ apiKey'[k] = apiKey[k]
        /\ UNCHANGED <<rolePerm, author>>
    BY <1>7 DEF R!RemoveMember, R!history
  <2>2. QED
    BY <1>1, <1>2, <2>1 DEF R!AuthorsGiveWhatTheyHeld
<1>8. CASE \/ R!HealRole(q) \/ R!ReplaceMemberRoles(q) \/ R!SyncFromBetterAuthRole(q) \/ R!WriteRoleString(q)
           \/ (R!WriteRole(q) /\ UNCHANGED <<rolePerm, author>>)
           \/ (R!CreateKey(q) /\ UNCHANGED apiKey)
  BY <1>3, <1>8 DEF R!HealRole, R!ReplaceMemberRoles, R!SyncFromBetterAuthRole, R!WriteRoleString,
        R!WriteRole, R!CreateKey, R!history
<1>9. QED
  BY <1>4, <1>5, <1>6, <1>7, <1>8 DEF Writes

--------------------------------------------------------------------------------
(* The built-in role: what each step does to the writers of a membership.  *)
Only(q) == \A p \in Askers : p # q => req'[p] = req[p]

LEMMA MovesOnly == ASSUME Asked, NEW q \in Askers, Moves(q) PROVE Only(q)
BY DEF Moves, Asked, Only

\* The membership is not the one the step is about, or only gains a writer that read its string.
LEMMA UntouchedOrderly ==
  ASSUME NEW m \in Members, Orderly(m), NEW q \in Askers, Only(q),
         role'[m] = role[m], memberRole'[m] \cap R!SystemRoles \subseteq memberRole[m],
         raced \subseteq raced',
         q \in R!Setting(m) => req[q].op # "syncRole",
         q \in R!Setting(m)' => R!Exists(m) /\ req'[q].seen = R!PrimarySystemRole(role[m]),
         None \notin RoleStrings
  PROVE  Orderly(m)'
<1>1. \A p \in Askers : p # q => (p \in R!Setting(m)' <=> p \in R!Setting(m))
  BY DEF Only, R!Setting
<1>2. /\ \A p \in R!Setting(m) : p # q => p \in R!Setting(m)' /\ req'[p].op = req[p].op
      /\ \A p \in R!Setting(m)' : p # q => p \in R!Setting(m) /\ req'[p].seen = req[p].seen
      /\ R!Setting(m)' \subseteq Askers /\ R!Setting(m) \subseteq Askers
  BY <1>1 DEF Only, R!Setting
<1>3. R!PrimarySystemRole(role[m])' = R!PrimarySystemRole(role[m]) /\ (R!Exists(m)' <=> R!Exists(m))
  BY DEF R!PrimarySystemRole, R!SystemRoles, R!Exists
<1>4. role'[m] = None => R!Setting(m)' = {}
  BY <1>2 DEF Orderly, R!Exists
<1>5. ASSUME R!Exists(m), m \notin raced'
      PROVE  \A p \in R!Setting(m)' : req'[p].seen = R!PrimarySystemRole(role[m])
  BY <1>2, <1>5 DEF Orderly
<1>6. ASSUME R!Exists(m), m \notin raced', \A p \in R!Setting(m)' : req'[p].op # "syncRole"
      PROVE  memberRole'[m] \cap R!SystemRoles \subseteq {R!PrimarySystemRole(role[m])}
  <2>1. \A p \in R!Setting(m) : req[p].op # "syncRole"
    BY <1>2, <1>6
  <2>2. QED
    BY <2>1, <1>6 DEF Orderly
<1>7. R!SystemRoles' = R!SystemRoles
  BY DEF R!SystemRoles
<1>8. QED
  BY <1>3, <1>4, <1>5, <1>6, <1>7 DEF Orderly

\* The one writer of a membership writes the row its string names, and is done.
LEMMA WrittenOrderly ==
  ASSUME NEW q \in Askers, NEW m \in Members, Orderly(m), R!Exists(m), q \in R!Setting(m), Only(q),
         role'[m] = role[m], memberRole'[m] \cap R!SystemRoles \subseteq {req[q].seen},
         R!Race(q, m), q \notin R!Setting(m)', None \notin RoleStrings, raced \subseteq Members
  PROVE  Orderly(m)'
<1>1. R!PrimarySystemRole(role[m])' = R!PrimarySystemRole(role[m]) /\ (R!Exists(m)' <=> R!Exists(m))
      /\ R!SystemRoles' = R!SystemRoles /\ role'[m] # None
  BY DEF R!PrimarySystemRole, R!SystemRoles, R!Exists
<1>2. ASSUME m \notin raced'
      PROVE  /\ R!Setting(m)' = {}
             /\ memberRole'[m] \cap R!SystemRoles \subseteq {R!PrimarySystemRole(role[m])}
  <2>1. m \notin raced /\ R!Setting(m) \ {q} = {}
    BY <1>2 DEF R!Race
  <2>2. R!Setting(m)' = {}
    BY <2>1 DEF R!Setting, Only
  <2>3. req[q].seen = R!PrimarySystemRole(role[m])
    BY <2>1 DEF Orderly
  <2>4. QED
    BY <2>2, <2>3
<1>3. QED
  BY <1>1, <1>2 DEF Orderly

LEMMA RaceGrows == ASSUME NEW q, NEW m, R!Race(q, m) PROVE raced \subseteq raced'
BY DEF R!Race

LEMMA LooksOrderly ==
  ASSUME Tables, Asked, NEW q \in Askers, Looks(q), Moves(q), NEW m \in Members, Orderly(m)
  PROVE  Orderly(m)'
<1>1. TablesStay /\ Only(q) /\ None \notin RoleStrings
  BY LooksStay, MovesOnly, RolesAssumption
<1>2. q \notin R!Setting(m)
  BY DEF Looks, R!Setting, R!At, R!ListPermissions, R!PutCached, R!InvalidateMember, R!InvalidateAll,
        R!Respond, R!UseKey, R!RequirePermission, R!BeginCreateRole, R!BeginUpdateRole,
        R!BeginDeleteRole, R!BeginSetMemberRoles, R!BeginCreateKey, R!ResolveKey, R!ForMember, R!Begin
<1>3. q \in R!Setting(m)' => R!Exists(m) /\ req'[q].seen = R!PrimarySystemRole(role[m])
  <2> SUFFICES ASSUME q \in R!Setting(m)'
               PROVE  R!Exists(m) /\ req'[q].seen = R!PrimarySystemRole(role[m])
    OBVIOUS
  <2>1. req'[q] # R!Idle /\ req'[q].on = m /\ req'[q].seen # None /\ req'[q].stage \in {"heal", "write"}
    BY DEF R!Setting, R!Idle
  <2>2. CASE R!ListPermissions(q)
    <3>1. req[q] # R!Idle /\ req[q] \in R!Request
      BY <2>2 DEF R!ListPermissions, R!At, Asked, Carries
    <3>2. req'[q].on = req[q].on
      BY <2>2, <3>1 DEF R!ListPermissions, R!Request, Asked
    <3>3. \/ req'[q].stage = "put"
          \/ R!Exists(m) /\ req'[q].seen = R!PrimarySystemRole(role[m])
      BY <2>1, <2>2, <3>1, <3>2 DEF R!ListPermissions, R!Request, Asked
    <3>4. QED
      BY <2>1, <3>3
  <2>3. CASE R!BeginSetMemberRoles(q)
    BY <2>1, <2>3 DEF R!BeginSetMemberRoles, R!Begin, Asked
  <2>4. CASE R!InvalidateMember(q) \/ R!InvalidateAll(q) \/ R!Respond(q)
    BY <2>1, <2>4 DEF R!InvalidateMember, R!InvalidateAll, R!Respond, R!End, Asked
  <2>5. CASE R!PutCached(q)
    <3>1. req[q] # R!Idle /\ req[q] \in R!Request
      BY <2>5 DEF R!PutCached, R!At, Asked, Carries
    <3>2. req'[q].stage = R!Told(req[q].op)
      BY <2>5, <3>1 DEF R!PutCached, R!GoTo, R!Request, Asked
    <3>3. QED
      BY <2>1, <3>2 DEF R!Told
  <2>6. CASE R!UseKey(q)
    <3>1. req[q] # R!Idle /\ req[q] \in R!Request
      BY <2>6 DEF R!UseKey, R!At, Asked, Carries
    <3>2. req'[q] = R!Idle \/ req'[q].stage = "done"
      BY <2>6, <3>1 DEF R!UseKey, R!End, R!Request, Asked
    <3>3. QED
      BY <2>1, <3>2
  <2>7. CASE R!BeginDeleteRole(q)
    BY <2>1, <2>7 DEF R!BeginDeleteRole, R!Begin, Asked
  <2>8. CASE \/ R!RequirePermission(q) \/ R!BeginCreateRole(q) \/ R!BeginUpdateRole(q)
             \/ R!BeginCreateKey(q) \/ R!ResolveKey(q)
    <3>1. \E op, n, target, asks : R!ForMember(q, op, n, target, asks)
      BY <2>8 DEF R!RequirePermission, R!BeginCreateRole, R!BeginUpdateRole, R!BeginCreateKey, R!ResolveKey
    <3>2. req'[q].seen = None
      BY <3>1 DEF R!ForMember, R!Begin, Asked
    <3>3. QED
      BY <2>1, <3>2
  <2>9. QED
    BY <2>2, <2>3, <2>4, <2>5, <2>6, <2>7, <2>8 DEF Looks
<1>4. QED
  BY <1>1, <1>2, <1>3, UntouchedOrderly DEF TablesStay

LEMMA WritesOrderly ==
  ASSUME Tables, Asked, NEW q \in Askers, Writes(q), Moves(q), NEW m \in Members, Orderly(m)
  PROVE  Orderly(m)'
<1>o. /\ Only(q) /\ None \notin RoleStrings /\ Gone \notin RoleStrings /\ Gone # None
      /\ CustomRoles \cap R!SystemRoles = {} /\ raced \subseteq Members /\ None \notin R!SystemRoles
  BY MovesOnly, RolesAssumption, BuiltInRoles DEF Tables
<1>1. CASE R!HealRole(q) \/ R!ReplaceMemberRoles(q) \/ R!SyncFromBetterAuthRole(q)
  <2>1. req[q] # R!Idle
    BY <1>1 DEF R!HealRole, R!ReplaceMemberRoles, R!SyncFromBetterAuthRole, R!At
  <2>2. req[q].on \in Members /\ Formed(req[q])
    BY <2>1, AtWork
  <2>3. q \in R!Setting(req[q].on) /\ req[q].seen \in R!SystemRoles
    BY <1>1, <2>1, <2>2, AtWork DEF R!Setting, R!HealRole, R!ReplaceMemberRoles,
          R!SyncFromBetterAuthRole, R!At, Formed
  <2>4. \A n : q \in R!Setting(n) => n = req[q].on
    BY DEF R!Setting
  <2>5. R!End(q) \/ R!GoTo(q, "list") \/ R!GoTo(q, "forget")
    BY <1>1 DEF R!HealRole, R!ReplaceMemberRoles, R!SyncFromBetterAuthRole
  <2>6. req'[q] = R!Idle \/ req'[q].stage \in {"list", "forget"}
    <3>1. CASE R!End(q)
      BY <3>1 DEF R!End, Asked
    <3>2. CASE R!GoTo(q, "list")
      BY <3>2, <2>1 DEF R!GoTo, Asked, Carries, R!Request
    <3>3. CASE R!GoTo(q, "forget")
      BY <3>3, <2>1 DEF R!GoTo, Asked, Carries, R!Request
    <3>4. QED
      BY <2>5, <3>1, <3>2, <3>3
  <2>7. \A n : q \notin R!Setting(n)'
    BY <2>6 DEF R!Setting, R!Idle
  <2>8. role' = role
    BY <1>1 DEF R!HealRole, R!ReplaceMemberRoles, R!SyncFromBetterAuthRole
  <2>9. \/ R!Race(q, req[q].on)
        \/ UNCHANGED raced
    BY <1>1 DEF R!HealRole, R!ReplaceMemberRoles, R!SyncFromBetterAuthRole
  <2>10. raced \subseteq raced'
    BY <2>9, RaceGrows
  <2>11. CASE m # req[q].on
    <3>1. memberRole'[m] = memberRole[m]
      BY <1>1, <2>11 DEF R!HealRole, R!ReplaceMemberRoles, R!SyncFromBetterAuthRole,
            R!ReplaceSystemMemberRole, Tables, R!MemberRoleRow
    <3>2. QED
      BY <1>o, <2>4, <2>7, <2>8, <2>10, <2>11, <3>1, UntouchedOrderly
  <2>12. CASE m = req[q].on /\ ~R!Exists(m)
    <3>1. role'[m] = None => R!Setting(m) = {}
      BY <2>8 DEF Orderly
    <3>2. role'[m] # None
      BY <2>3, <2>12, <3>1
    <3>3. ~R!Exists(m)'
      BY <2>8, <2>12 DEF R!Exists
    <3>4. QED
      BY <3>2, <3>3 DEF Orderly
  <2>13. CASE /\ m = req[q].on /\ R!Exists(m) /\ R!ReplaceMemberRoles(q)
              /\ UNCHANGED <<memberRole, raced>>
    <3>1. req[q].op # "syncRole"
      BY <2>13 DEF R!ReplaceMemberRoles
    <3>2. QED
      BY <1>o, <2>7, <2>8, <2>13, <3>1, UntouchedOrderly
  <2>14. CASE /\ m = req[q].on /\ R!Exists(m) /\ R!Race(q, m)
              /\ \/ R!ReplaceSystemMemberRole(m, req[q].seen)
                 \/ /\ memberRole' = [memberRole EXCEPT ![m] = {req[q].seen} \cup ({req[q].target} \ {None})]
                    /\ req[q].op = "setMemberRoles"
    <3>1. req[q].op = "setMemberRoles" => {req[q].target} \ {None} \subseteq CustomRoles
      BY <2>2 DEF Formed
    <3>2. memberRole'[m] \cap R!SystemRoles \subseteq {req[q].seen}
      BY <1>o, <2>14, <3>1 DEF Tables, R!MemberRoleRow, R!ReplaceSystemMemberRole
    <3>3. QED
      BY <1>o, <2>3, <2>7, <2>8, <2>14, <3>2, WrittenOrderly
  <2>15. CASE m = req[q].on /\ R!Exists(m) /\ R!HealRole(q)
    BY <2>14, <2>15 DEF R!HealRole
  <2>16. CASE m = req[q].on /\ R!Exists(m) /\ R!SyncFromBetterAuthRole(q)
    BY <2>14, <2>16 DEF R!SyncFromBetterAuthRole
  <2>17. CASE m = req[q].on /\ R!Exists(m) /\ R!ReplaceMemberRoles(q)
    BY <2>13, <2>14, <2>17 DEF R!ReplaceMemberRoles
  <2>18. QED
    BY <1>1, <2>11, <2>12, <2>15, <2>16, <2>17
<1>2. CASE R!WriteRole(q) \/ R!CreateKey(q) \/ R!DeleteRole(q)
  <2>1. req[q] # R!Idle /\ (q \in R!Setting(m) => req[q].op # "syncRole")
    BY <1>2 DEF R!WriteRole, R!CreateKey, R!DeleteRole, R!At, R!Setting
  <2>2. req'[q] = R!Idle \/ req'[q].stage = "flush"
    BY <1>2, <2>1 DEF R!WriteRole, R!CreateKey, R!DeleteRole, R!End, R!GoTo, Asked, Carries, R!Request
  <2>3. q \notin R!Setting(m)'
    BY <2>2 DEF R!Setting, R!Idle
  <2>4. UNCHANGED <<role, raced>> /\ memberRole'[m] \subseteq memberRole[m]
    BY <1>2 DEF R!WriteRole, R!CreateKey, R!DeleteRole, R!history
  <2>5. QED
    BY <1>o, <2>1, <2>3, <2>4, UntouchedOrderly
<1>3. CASE R!WriteRoleString(q)
  <2>1. PICK n \in Members, s \in RoleStrings :
          /\ R!Begin(q, "syncRole", n, None, {}, "write", R!PrimarySystemRole(s), {})
          /\ role' = [role EXCEPT ![n] = s] /\ R!Race(q, n)
    BY <1>3 DEF R!WriteRoleString
  <2>2. req[q] = R!Idle /\ memberRole' = memberRole
    BY <1>3, <2>1 DEF R!Begin, R!WriteRoleString
  <2>3. q \notin R!Setting(m)
    BY <2>2 DEF R!Setting
  <2>4. /\ req'[q].on = n /\ req'[q].seen = R!PrimarySystemRole(s) /\ req'[q].op = "syncRole"
    BY <2>1 DEF R!Begin, Asked
  <2>5. CASE m # n
    <3>1. q \notin R!Setting(m)'
      BY <2>4, <2>5 DEF R!Setting
    <3>2. role'[m] = role[m]
      BY <2>1, <2>5 DEF Tables
    <3>3. QED
      BY <1>o, <2>1, <2>2, <2>3, <3>1, <3>2, RaceGrows, UntouchedOrderly
  <2>6. CASE m = n
    <3>1. role'[m] = s
      BY <2>1, <2>6 DEF Tables
    <3>2. R!PrimarySystemRole(role[m])' = R!PrimarySystemRole(s)
      BY <3>1 DEF R!PrimarySystemRole, R!SystemRoles
    <3>3. ASSUME m \notin raced' PROVE \A p \in R!Setting(m)' : p = q
      <4>1. R!Setting(m) = {}
        BY <2>1, <2>3, <2>6, <3>3, <1>o DEF R!Race
      <4>2. QED
        BY <4>1, <1>o DEF R!Setting, Only
    <3>4. ASSUME m \notin raced' PROVE q \in R!Setting(m)'
      <4>1. req'[q] # R!Idle /\ req'[q].stage = "write"
        BY <2>1 DEF R!Begin, Asked, R!Idle
      <4>2. R!PrimarySystemRole(s) # None
        BY BuiltInRoles
      <4>3. QED
        BY <4>1, <4>2, <2>4, <2>6 DEF R!Setting, R!Idle
    <3>5. role'[m] # None
      BY <1>o, <3>1
    <3>6. QED
      BY <2>4, <3>2, <3>3, <3>4, <3>5 DEF Orderly
  <2>7. QED
    BY <2>5, <2>6
<1>4. CASE R!RemoveMember(q)
  <2>1. PICK n \in Members :
          /\ R!Begin(q, "removed", n, None, {}, "forget", None, {})
          /\ role' = [role EXCEPT ![n] = Gone] /\ memberRole' = [memberRole EXCEPT ![n] = {}]
    BY <1>4 DEF R!RemoveMember
  <2>2. req[q] = R!Idle /\ raced' = raced /\ req'[q].seen = None
    BY <1>4, <2>1 DEF R!Begin, R!RemoveMember, R!history, Asked
  <2>3. q \notin R!Setting(m) /\ q \notin R!Setting(m)'
    BY <2>2 DEF R!Setting
  <2>4. CASE m # n
    BY <1>o, <2>1, <2>2, <2>3, <2>4, UntouchedOrderly DEF Tables, R!MemberRoleRow
  <2>5. CASE m = n
    BY <1>o, <2>1, <2>5 DEF Tables, Orderly, R!Exists
  <2>6. QED
    BY <2>4, <2>5
<1>5. QED
  BY <1>1, <1>2, <1>3, <1>4 DEF Writes

--------------------------------------------------------------------------------
(* The steps of no request.                                                *)
LEMMA ByItself ==
  ASSUME RoleInv,
         \/ \E m \in Members : R!ExpireCached(m)
         \/ \E m \in Members, s \in RoleStrings : R!AcceptInvitation(m, s)
         \/ \E k \in ApiKeys : R!RevokeKey(k)
  PROVE  RoleInv'
<1>o. None \notin RoleStrings
  BY RolesAssumption
<1>1. UNCHANGED <<memberRole, rolePerm, req, granted, author, raced>> /\ Counts
  BY ChangeCounts DEF RoleInv, R!ExpireCached, R!AcceptInvitation, R!RevokeKey, R!tables, R!history, Counts
<1>2. role' = role \/ \E m \in Members, s \in RoleStrings :
                         role[m] = None /\ role' = [role EXCEPT ![m] = s]
  BY DEF R!ExpireCached, R!AcceptInvitation, R!RevokeKey, R!tables
<1>3. apiKey' = apiKey \/ \E k \in ApiKeys : apiKey[k] # None /\ apiKey' = [apiKey EXCEPT ![k].revoked = TRUE]
  BY DEF R!ExpireCached, R!AcceptInvitation, R!RevokeKey, R!tables
<1>4. cache' = cache \/ \E m \in Members : cache' = [cache EXCEPT ![m] = None]
  BY DEF R!ExpireCached, R!AcceptInvitation, R!RevokeKey
<1>5. /\ role' \in [Members -> RoleStrings \cup {None, Gone}]
      /\ \A m \in Members : ~R!Exists(m)' => ~R!Exists(m)
  BY <1>2 DEF RoleInv, Tables, R!Exists
<1>6. apiKey' \in [ApiKeys -> R!ApiKeyRow \cup {None}]
  <2>1. apiKey \in [ApiKeys -> R!ApiKeyRow \cup {None}]
    BY DEF RoleInv, Tables
  <2>2. \A row \in R!ApiKeyRow : [row EXCEPT !.revoked = TRUE] \in R!ApiKeyRow
    BY DEF R!ApiKeyRow
  <2>3. ASSUME NEW k \in ApiKeys, apiKey[k] # None, apiKey' = [apiKey EXCEPT ![k].revoked = TRUE]
        PROVE  apiKey' \in [ApiKeys -> R!ApiKeyRow \cup {None}]
    <3>1. apiKey' = [apiKey EXCEPT ![k] = [apiKey[k] EXCEPT !.revoked = TRUE]]
      BY <2>3
    <3>2. [apiKey[k] EXCEPT !.revoked = TRUE] \in R!ApiKeyRow
      BY <2>1, <2>2, <2>3
    <3>3. QED
      BY <2>1, <3>1, <3>2
  <2>4. QED
    BY <1>3, <2>1, <2>3
<1>7. Tables'
  BY <1>1, <1>5, <1>6 DEF RoleInv, Tables, RolesExist, R!MemberRoleRow, R!RolePermissionRow,
        R!ApiKeyRow, R!RoleIds, R!SystemRoles, Counts
<1>8. Given'
  <2>1. \A m \in Members : R!ListMemberPermissions(m)' = R!ListMemberPermissions(m)
    BY <1>1 DEF R!ListMemberPermissions, R!RolePermissions
  <2>2. QED
    BY <1>1, <2>1, GivenStays DEF RoleInv
<1>9. Cached'
  BY <1>1, <1>4 DEF RoleInv, Cached
<1>10. Asked'
  BY <1>1 DEF RoleInv, Asked, Carries, Formed, R!Request, R!RoleIds, R!SystemRoles, R!Idle
<1>11. R!AuthorsGiveWhatTheyHeld'
  <2>1. \A k \in ApiKeys : apiKey'[k] # None =>
          apiKey[k] # None /\ apiKey'[k].permissions = apiKey[k].permissions
          /\ apiKey'[k].member = apiKey[k].member
    BY <1>3 DEF RoleInv, Tables, R!ApiKeyRow
  <2>2. QED
    BY <1>1, <2>1 DEF RoleInv, R!AuthorsGiveWhatTheyHeld
<1>12. ASSUME NEW m \in Members PROVE Orderly(m)'
  <2>1. Orderly(m) /\ Tables
    BY DEF RoleInv
  <2>2. R!Setting(m)' = R!Setting(m) /\ R!SystemRoles' = R!SystemRoles
    BY <1>1 DEF R!Setting, R!Idle, R!SystemRoles
  <2>3. CASE role'[m] = role[m]
    BY <1>1, <2>1, <2>2, <2>3 DEF Orderly, R!Exists, R!PrimarySystemRole
  <2>4. CASE role'[m] # role[m]
    <3>1. role[m] = None /\ role'[m] \in RoleStrings
      BY <1>2, <2>1, <2>4 DEF Tables
    <3>2. R!Setting(m) = {} /\ memberRole[m] = {}
      BY <1>o, <2>1, <3>1 DEF Orderly, Tables, R!Exists
    <3>3. QED
      BY <1>o, <1>1, <2>2, <3>1, <3>2 DEF Orderly
  <2>5. QED
    BY <2>3, <2>4
<1>13. QED
  BY <1>7, <1>8, <1>9, <1>10, <1>11, <1>12 DEF RoleInv

--------------------------------------------------------------------------------
LEMMA RoleInvStep == RoleInv /\ [R!Next]_rVars => RoleInv'
<1> SUFFICES ASSUME RoleInv, [R!Next]_rVars PROVE RoleInv'
  OBVIOUS
<1>o. /\ Tables /\ Given /\ Cached /\ Asked /\ R!AuthorsGiveWhatTheyHeld
      /\ \A m \in Members : Orderly(m)
  BY DEF RoleInv
<1>1. ASSUME NEW q \in Askers, Looks(q) PROVE RoleInv'
  <2>1. TablesStay /\ Counts /\ Moves(q) /\ Cached'
    BY <1>o, <1>1, LooksStay, LooksMove, LooksCache
  <2>2. Tables'
    BY <1>o, <2>1 DEF TablesStay, Counts, Tables, RolesExist, R!MemberRoleRow, R!RolePermissionRow,
          R!ApiKeyRow, R!Exists, R!RoleIds, R!SystemRoles
  <2>3. \A m \in Members : R!ListMemberPermissions(m)' = R!ListMemberPermissions(m)
    BY <2>1 DEF TablesStay, R!ListMemberPermissions, R!RolePermissions
  <2>4. Given' /\ \A m \in Members : granted[m] \subseteq granted'[m]
    BY <1>o, <2>1, <2>3, GivenStays DEF TablesStay
  <2>5. Asked' /\ R!AuthorsGiveWhatTheyHeld'
    BY <1>o, <2>1, <2>4, MovesTold, AuthorsKept DEF TablesStay
  <2>6. \A m \in Members : Orderly(m)'
    BY <1>o, <1>1, <2>1, LooksOrderly
  <2>7. QED
    BY <2>1, <2>2, <2>4, <2>5, <2>6 DEF RoleInv
<1>2. ASSUME NEW q \in Askers, Writes(q) PROVE RoleInv'
  <2>1. Tables' /\ Moves(q) /\ UNCHANGED cache
    BY <1>o, <1>2, WritesType, WritesMove, WritesLeaveCache
  <2>2. Given' /\ \A m \in Members : granted[m] \subseteq granted'[m]
    BY <1>o, <1>2, <2>1, WritesGive
  <2>3. Cached'
    BY <1>o, <2>1, <2>2 DEF Cached
  <2>4. Asked' /\ R!AuthorsGiveWhatTheyHeld'
    BY <1>o, <1>2, <2>1, <2>2, MovesTold, WritesAuthored
  <2>5. \A m \in Members : Orderly(m)'
    BY <1>o, <1>2, <2>1, WritesOrderly
  <2>6. QED
    BY <2>1, <2>2, <2>3, <2>4, <2>5 DEF RoleInv
<1>3. CASE UNCHANGED rVars
  BY <1>o, <1>3 DEF rVars, RoleInv, Tables, RolesExist, R!MemberRoleRow, R!RolePermissionRow,
        R!ApiKeyRow, R!Exists, R!RoleIds, R!SystemRoles, Given, R!ListMemberPermissions,
        R!RolePermissions, Cached, Asked, Carries, Formed, R!Request, R!Idle,
        R!AuthorsGiveWhatTheyHeld, Orderly, R!Setting, R!PrimarySystemRole
<1>4. QED
  BY <1>1, <1>2, <1>3, RolesNext, ByItself

LEMMA RoleInvInit == R!Init => RoleInv
<1> SUFFICES ASSUME R!Init PROVE RoleInv
  OBVIOUS
<1>1. Tables
  BY RolesAssumption DEF R!Init, Tables, RolesExist, R!MemberRoleRow, R!RolePermissionRow
<1>2. Given
  BY DEF R!Init, Given, R!ListMemberPermissions
<1>3. Cached
  BY DEF R!Init, Cached
<1>4. Asked
  BY DEF R!Init, Asked
<1>5. R!AuthorsGiveWhatTheyHeld
  BY DEF R!Init, R!AuthorsGiveWhatTheyHeld
<1>6. \A m \in Members : Orderly(m)
  BY DEF R!Init, Orderly, R!Setting
<1>7. QED
  BY <1>1, <1>2, <1>3, <1>4, <1>5, <1>6 DEF RoleInv

LEMMA RoleInvSays == RoleInv => R!TypeOK /\ R!OneBuiltInRole /\ R!AuthorsGiveWhatTheyHeld
<1> SUFFICES ASSUME RoleInv PROVE R!TypeOK /\ R!OneBuiltInRole
  BY DEF RoleInv
<1>1. R!TypeOK
  BY DEF RoleInv, R!TypeOK, Tables, Given, Cached, Asked
<1>2. ASSUME NEW m \in Members, R!Exists(m), m \notin raced, R!Setting(m) = {}
      PROVE  memberRole[m] \cap R!SystemRoles \subseteq {R!PrimarySystemRole(role[m])}
  BY <1>2 DEF RoleInv, Orderly
<1>3. QED
  BY <1>1, <1>2 DEF RoleInv, R!OneBuiltInRole, Tables

--------------------------------------------------------------------------------
(* PlatformRoles.  A step moves at most one request.                       *)
Asks(a) ==
  /\ a \in P!Ask /\ AskFormed(a)
  /\ ~P!IsBreakGlassAdmin(a.by) => a.held \subseteq heldOnce[a.by]

AskMoves(q) == \E a : ask' = [ask EXCEPT ![q] = a] /\ (a = None \/ Asks(a))

LEMMA ConsoleRoles ==
  /\ "superadmin" \in P!PlatformRoleIds /\ "superadmin" \notin ComposedRoles
  /\ BuiltIn \subseteq P!PlatformRoleIds /\ ComposedRoles \subseteq P!PlatformRoleIds
  /\ None \notin Accounts
BY ConsoleAssumption DEF P!PlatformRoleIds

LEMMA AskAtWork ==
  ASSUME ConsoleInv, NEW q \in Requests, ask[q] # None
  PROVE  /\ Asks(ask[q]) /\ ask[q] \in P!Ask /\ AskFormed(ask[q])
         /\ ask[q].by \in Accounts /\ ask[q].held \in SUBSET ConsoleKeysInPlay
         /\ ask[q].keys \in SUBSET ConsoleKeysInPlay
         /\ ask[q].roles \in SUBSET P!PlatformRoleIds
BY DEF ConsoleInv, P!PrTypeOK, ConsoleRows, ConsoleWitnessed, Asks, P!Ask

\* A request that goes to another stage, with what it held or what it was told just now.
LEMMA AskGoes ==
  ASSUME ConsoleInv, NEW q \in Requests, ask[q] # None,
         NEW at \in {"get", "list", "put", "held", "write", "forget", "flush"},
         at \in {"get", "list", "put"} => ~P!IsBreakGlassAdmin(ask[q].by),
         NEW told \in SUBSET ConsoleKeysInPlay,
         ~P!IsBreakGlassAdmin(ask[q].by) => told \subseteq heldOnce[ask[q].by],
         ask' = [ask EXCEPT ![q] = [ask[q] EXCEPT !.stage = at, !.held = told]]
  PROVE  AskMoves(q)
<1> DEFINE a == [ask[q] EXCEPT !.stage = at, !.held = told]
<1>1. Asks(ask[q])
  BY AskAtWork
<1>2. Asks(a)
  BY <1>1 DEF Asks, P!Ask, AskFormed
<1>3. ask' = [ask EXCEPT ![q] = a]
  OBVIOUS
<1> HIDE DEF a
<1>4. QED
  BY <1>2, <1>3 DEF AskMoves

LEMMA AskGoesOn ==
  ASSUME ConsoleInv, NEW q \in Requests, ask[q] # None,
         NEW at \in {"get", "list", "put", "held", "write", "forget", "flush"},
         at \in {"get", "list", "put"} => ~P!IsBreakGlassAdmin(ask[q].by), P!AskGoTo(q, at)
  PROVE  AskMoves(q)
<1>1. Asks(ask[q]) /\ ask[q].held \in SUBSET ConsoleKeysInPlay
  BY AskAtWork
<1>2. [ask[q] EXCEPT !.stage = at] = [ask[q] EXCEPT !.stage = at, !.held = ask[q].held]
  BY <1>1 DEF Asks, P!Ask
<1>3. ask' = [ask EXCEPT ![q] = [ask[q] EXCEPT !.stage = at, !.held = ask[q].held]]
  BY <1>2 DEF P!AskGoTo
<1>4. QED
  BY <1>1, <1>3, AskGoes DEF Asks

LEMMA AskEnds == ASSUME NEW q \in Requests, P!AskEnd(q) PROVE AskMoves(q)
BY DEF P!AskEnd, AskMoves

LEMMA AskBegins ==
  ASSUME ConsoleInv, NEW q \in Requests, NEW op \in {"compose", "deleteRole", "setRoles"},
         NEW u \in Accounts, NEW user \in Accounts \cup {None},
         NEW roles \in SUBSET P!PlatformRoleIds, NEW keys \in SUBSET ConsoleKeysInPlay,
         op \in {"compose", "deleteRole"} => \E r \in ComposedRoles : roles = {r},
         op = "setRoles" => user \in Accounts,
         P!AskBegin(q, op, u, user, roles, keys)
  PROVE  AskMoves(q) /\ begun' \in 0 .. MaxConsoleChanges
<1> DEFINE at == IF op = "deleteRole" THEN "write"
                 ELSE IF P!IsBreakGlassAdmin(u) THEN "held" ELSE "get"
           told == IF P!IsBreakGlassAdmin(u) THEN ConsoleKeysInPlay ELSE {}
           a == [op |-> op, by |-> u, user |-> user, roles |-> roles, keys |-> keys,
                 stage |-> at, held |-> told]
<1>1. at \in {"get", "held", "write"} /\ (at = "get" => ~P!IsBreakGlassAdmin(u))
  OBVIOUS
<1>2. told \in SUBSET ConsoleKeysInPlay /\ (~P!IsBreakGlassAdmin(u) => told \subseteq heldOnce[u])
  OBVIOUS
<1>3. ask' = [ask EXCEPT ![q] = a] /\ begun' = begun + 1 /\ begun < MaxConsoleChanges
  BY DEF P!AskBegin
<1> HIDE DEF at, told
<1>4. a \in P!Ask
  BY <1>1, <1>2 DEF P!Ask
<1>5. Asks(a)
  BY <1>1, <1>2, <1>4 DEF Asks, AskFormed
<1> HIDE DEF a
<1>6. begun' \in 0 .. MaxConsoleChanges
  BY <1>3, ConsoleAssumption DEF ConsoleInv, P!PrTypeOK
<1>7. QED
  BY <1>3, <1>5, <1>6 DEF AskMoves

LEMMA ConsoleLists ==
  ASSUME ConsoleInv, NEW u \in Accounts
  PROVE  /\ P!ListPlatformPermissions(u) \in SUBSET ConsoleKeysInPlay
         /\ P!ListPlatformPermissions(u) \subseteq heldOnce[u]
<1>1. P!ListPlatformPermissions(u) \subseteq heldOnce[u]
  BY DEF ConsoleInv, ConsoleWitnessed
<1>2. heldOnce[u] \subseteq ConsoleKeysInPlay
  BY DEF ConsoleInv, P!PrTypeOK
<1>3. QED
  BY <1>1, <1>2

LEMMA KeysTyped ==
  ASSUME P!PrTypeOK, NEW r \in P!PlatformRoleIds PROVE P!KeysOf(r) \subseteq ConsoleKeysInPlay
<1>1. CASE r \in BuiltIn
  BY <1>1 DEF P!KeysOf
<1>2. CASE r \notin BuiltIn
  <2>1. r \in ComposedRoles
    BY <1>2 DEF P!PlatformRoleIds
  <2>2. QED
    BY <1>2, <2>1 DEF P!KeysOf, P!PrTypeOK
<1>3. QED
  BY <1>1, <1>2

LEMMA AllAskMove ==
  ASSUME ConsoleInv, NEW q \in Requests,
         \/ P!GetUserCache(q) \/ P!ListUserPermissions(q) \/ P!PutUserCache(q)
         \/ P!BeginCompose(q) \/ P!ComposeRole(q) \/ P!BeginDeleteRole(q) \/ P!DeleteRole(q)
         \/ P!FlushUserCaches(q) \/ P!BeginSetPlatformRoles(q) \/ P!CheckSetPlatformRoles(q)
         \/ P!ReplacePlatformRoles(q) \/ P!ForgetUser(q)
  PROVE  AskMoves(q) /\ begun' \in 0 .. MaxConsoleChanges
<1>b. begun \in 0 .. MaxConsoleChanges
  BY DEF ConsoleInv, P!PrTypeOK
<1>1. CASE P!GetUserCache(q)
  <2>1. ask[q] # None /\ ask[q].stage = "get" /\ begun' = begun
    BY <1>1 DEF P!GetUserCache, P!AskAt
  <2>2. ~P!IsBreakGlassAdmin(ask[q].by) /\ ask[q].by \in Accounts
    BY <2>1, AskAtWork DEF AskFormed
  <2>3. CASE P!AskGoTo(q, "list")
    BY <1>b, <2>1, <2>2, <2>3, AskGoesOn
  <2>4. CASE /\ userCache[ask[q].by] # None
             /\ ask' = [ask EXCEPT ![q].stage = "held", ![q].held = userCache[ask[q].by]]
    <3>1. /\ userCache[ask[q].by] \in SUBSET ConsoleKeysInPlay
          /\ userCache[ask[q].by] \subseteq heldOnce[ask[q].by]
      BY <2>2, <2>4 DEF ConsoleInv, P!PrTypeOK, ConsoleWitnessed
    <3>2. ask' = [ask EXCEPT ![q] = [ask[q] EXCEPT !.stage = "held", !.held = userCache[ask[q].by]]]
      BY <2>4
    <3>3. QED
      BY <1>b, <2>1, <3>1, <3>2, AskGoes
  <2>5. QED
    BY <1>1, <2>3, <2>4 DEF P!GetUserCache
<1>2. CASE P!ListUserPermissions(q)
  <2>1. ask[q] # None /\ ask[q].stage = "list" /\ begun' = begun
    BY <1>2 DEF P!ListUserPermissions, P!AskAt
  <2>2. ~P!IsBreakGlassAdmin(ask[q].by) /\ ask[q].by \in Accounts
    BY <2>1, AskAtWork DEF AskFormed
  <2>3. ask' = [ask EXCEPT ![q] = [ask[q] EXCEPT !.stage = "put",
                                       !.held = P!ListPlatformPermissions(ask[q].by)]]
    BY <1>2 DEF P!ListUserPermissions
  <2>4. QED
    BY <1>b, <2>1, <2>2, <2>3, AskGoes, ConsoleLists
<1>3. CASE P!PutUserCache(q) \/ P!DeleteRole(q)
  <2>1. ask[q] # None /\ begun' = begun /\ (P!AskGoTo(q, "held") \/ P!AskGoTo(q, "flush"))
    BY <1>3 DEF P!PutUserCache, P!DeleteRole, P!AskAt
  <2>2. QED
    BY <1>b, <2>1, AskGoesOn
<1>4. CASE P!ComposeRole(q) \/ P!CheckSetPlatformRoles(q) \/ P!ReplacePlatformRoles(q)
  <2>1. ask[q] # None /\ begun' = begun
    BY <1>4 DEF P!ComposeRole, P!CheckSetPlatformRoles, P!ReplacePlatformRoles, P!AskAt
  <2>2. P!AskEnd(q) \/ P!AskGoTo(q, "flush") \/ P!AskGoTo(q, "write") \/ P!AskGoTo(q, "forget")
    BY <1>4 DEF P!ComposeRole, P!CheckSetPlatformRoles, P!ReplacePlatformRoles
  <2>3. QED
    BY <1>b, <2>1, <2>2, AskGoesOn, AskEnds
<1>5. CASE P!FlushUserCaches(q) \/ P!ForgetUser(q)
  BY <1>5, <1>b, AskEnds DEF P!FlushUserCaches, P!ForgetUser
<1>6. CASE P!BeginCompose(q)
  <2>1. PICK u \in Accounts, r \in ComposedRoles, keys \in SUBSET ConsoleKeysInPlay :
          P!AskBegin(q, "compose", u, None, {r}, keys)
    BY <1>6 DEF P!BeginCompose
  <2>2. {r} \in SUBSET P!PlatformRoleIds
    BY ConsoleRoles
  <2>3. QED
    BY <2>1, <2>2, AskBegins
<1>7. CASE P!BeginDeleteRole(q)
  <2>1. PICK u \in Accounts, r \in ComposedRoles : P!AskBegin(q, "deleteRole", u, None, {r}, {})
    BY <1>7 DEF P!BeginDeleteRole
  <2>2. {r} \in SUBSET P!PlatformRoleIds /\ {} \in SUBSET ConsoleKeysInPlay
    BY ConsoleRoles
  <2>3. QED
    BY <2>1, <2>2, AskBegins
<1>8. CASE P!BeginSetPlatformRoles(q)
  <2>1. PICK u \in Accounts, v \in Accounts, roles \in SUBSET P!PlatformRoleIds :
          P!AskBegin(q, "setRoles", u, v, roles, UNION {P!KeysOf(r) : r \in roles})
    BY <1>8 DEF P!BeginSetPlatformRoles
  <2>2. UNION {P!KeysOf(r) : r \in roles} \in SUBSET ConsoleKeysInPlay
    BY KeysTyped DEF ConsoleInv
  <2>3. QED
    BY <2>1, <2>2, AskBegins
<1>9. QED
  BY <1>1, <1>2, <1>3, <1>4, <1>5, <1>6, <1>7, <1>8

AskSteps(q) ==
  \/ P!GetUserCache(q) \/ P!ListUserPermissions(q) \/ P!PutUserCache(q)
  \/ P!BeginCompose(q) \/ P!BeginDeleteRole(q) \/ P!FlushUserCaches(q)
  \/ P!BeginSetPlatformRoles(q) \/ P!ForgetUser(q)

LEMMA ConsoleNext ==
  P!PrNext <=>
    \/ \E q \in Requests : \/ AskSteps(q) \/ P!ComposeRole(q) \/ P!DeleteRole(q)
                           \/ P!CheckSetPlatformRoles(q) \/ P!ReplacePlatformRoles(q)
    \/ \E u \in Accounts : P!ExpireUserCache(u)
BY DEF P!PrNext, AskSteps

\* A step that moves one request keeps the rest told.
LEMMA AsksStay ==
  ASSUME ConsoleInv, NEW q \in Requests, AskMoves(q),
         \A u \in Accounts : heldOnce[u] \subseteq heldOnce'[u]
  PROVE  /\ ask' \in [Requests -> P!Ask \cup {None}]
         /\ \A p \in Requests : ask'[p] # None => AskFormed(ask[p])'
         /\ \A p \in Requests : ask'[p] # None /\ ~P!IsBreakGlassAdmin(ask'[p].by)
              => ask'[p].held \subseteq heldOnce'[ask'[p].by]
<1>1. PICK a : ask' = [ask EXCEPT ![q] = a] /\ (a = None \/ Asks(a))
  BY DEF AskMoves
<1>2. \A p \in Requests : ask'[p] # None => Asks(ask'[p]) /\ ask'[p] \in P!Ask
  BY <1>1, AskAtWork DEF ConsoleInv, P!PrTypeOK, Asks
<1>3. ask' \in [Requests -> P!Ask \cup {None}]
  BY <1>1 DEF ConsoleInv, P!PrTypeOK, Asks
<1>4. \A p \in Requests : ask'[p] # None => AskFormed(ask'[p])
  BY <1>2 DEF Asks
<1>5. \A p \in Requests : ask'[p] # None => AskFormed(ask[p])'
  BY <1>4 DEF AskFormed, P!IsBreakGlassAdmin
<1>6. \A p \in Requests : ask'[p] # None /\ ~P!IsBreakGlassAdmin(ask'[p].by)
         => ask'[p].held \subseteq heldOnce'[ask'[p].by]
  BY <1>2 DEF Asks, P!Ask
<1>7. QED
  BY <1>3, <1>5, <1>6

\* Every list, cached set and answer was held, when what was held is kept and added to.
LEMMA WitnessesStay ==
  ASSUME ConsoleInv, NEW q \in Requests, AskMoves(q), begun' \in 0 .. MaxConsoleChanges,
         UNCHANGED <<platformRole, composed, composer, heldOnce>>,
         overtaken' \in BOOLEAN,
         userCache' \in [Accounts -> (SUBSET ConsoleKeysInPlay) \cup {None}],
         \A u \in Accounts : userCache'[u] \in {None, userCache[u]} \/ userCache'[u] \subseteq heldOnce[u]
  PROVE  (P!PrTypeOK /\ ConsoleRows /\ ConsoleWitnessed /\ P!ComposersGiveWhatTheyHeld)'
<1>1. /\ ask' \in [Requests -> P!Ask \cup {None}]
      /\ \A p \in Requests : ask'[p] # None => AskFormed(ask[p])'
      /\ \A p \in Requests : ask'[p] # None /\ ~P!IsBreakGlassAdmin(ask'[p].by)
           => ask'[p].held \subseteq heldOnce'[ask'[p].by]
  BY AsksStay
<1>2. P!PrTypeOK'
  BY <1>1 DEF ConsoleInv, P!PrTypeOK, P!UserPlatformRoleRow, P!PlatformRoleIds, P!Ask
<1>3. ConsoleRows'
  BY <1>1 DEF ConsoleInv, ConsoleRows
<1>4. \A u \in Accounts : P!ListPlatformPermissions(u)' = P!ListPlatformPermissions(u)
  BY DEF P!ListPlatformPermissions, P!KeysOf, P!PlatformSystemRoles
<1>5. \A u \in Accounts : userCache'[u] # None => userCache'[u] \subseteq heldOnce'[u]
  BY DEF ConsoleInv, ConsoleWitnessed
<1>6. ConsoleWitnessed'
  BY <1>1, <1>4, <1>5 DEF ConsoleInv, ConsoleWitnessed, P!IsBreakGlassAdmin
<1>7. P!ComposersGiveWhatTheyHeld'
  BY DEF ConsoleInv, P!ComposersGiveWhatTheyHeld, P!IsBreakGlassAdmin
<1>8. QED
  BY <1>2, <1>3, <1>6, <1>7

LEMMA AskStepsKeep ==
  ASSUME ConsoleInv, NEW q \in Requests, AskSteps(q) \/ P!CheckSetPlatformRoles(q)
  PROVE  (P!PrTypeOK /\ ConsoleRows /\ ConsoleWitnessed /\ P!ComposersGiveWhatTheyHeld)'
<1>1. AskMoves(q) /\ begun' \in 0 .. MaxConsoleChanges
  BY AllAskMove DEF AskSteps
<1>2. UNCHANGED <<platformRole, composed, composer, heldOnce>>
  BY DEF AskSteps, P!GetUserCache, P!ListUserPermissions, P!PutUserCache, P!BeginCompose,
         P!BeginDeleteRole, P!FlushUserCaches, P!BeginSetPlatformRoles, P!ForgetUser,
         P!CheckSetPlatformRoles, P!history
<1>3. overtaken' \in BOOLEAN
  <2>1. CASE P!CheckSetPlatformRoles(q)
    <3>1. overtaken' = overtaken \/ overtaken' \in BOOLEAN
      BY <2>1 DEF P!CheckSetPlatformRoles
    <3>2. QED
      BY <3>1 DEF ConsoleInv, P!PrTypeOK
  <2>2. CASE AskSteps(q)
    <3>1. overtaken' = overtaken
      BY <2>2 DEF AskSteps, P!GetUserCache, P!ListUserPermissions, P!PutUserCache, P!BeginCompose,
         P!BeginDeleteRole, P!FlushUserCaches, P!BeginSetPlatformRoles, P!ForgetUser, P!history
    <3>2. QED
      BY <3>1 DEF ConsoleInv, P!PrTypeOK
  <2>3. QED
    BY <2>1, <2>2
<1>c. userCache \in [Accounts -> (SUBSET ConsoleKeysInPlay) \cup {None}]
  BY DEF ConsoleInv, P!PrTypeOK
<1>4. CASE UNCHANGED userCache
  BY <1>c, <1>1, <1>2, <1>3, <1>4, WitnessesStay
<1>5. CASE P!PutUserCache(q) /\ userCache' = [userCache EXCEPT ![ask[q].by] = ask[q].held]
  <2>1. ask[q] # None /\ ask[q].stage = "put"
    BY <1>5 DEF P!PutUserCache, P!AskAt
  <2>2. /\ ask[q].held \in SUBSET ConsoleKeysInPlay /\ ask[q].held \subseteq heldOnce[ask[q].by]
        /\ ask[q].by \in Accounts
    BY <2>1, AskAtWork DEF Asks, AskFormed
  <2>3. userCache' \in [Accounts -> (SUBSET ConsoleKeysInPlay) \cup {None}]
    BY <1>c, <1>5, <2>2
  <2>4. \A u \in Accounts : userCache'[u] = userCache[u] \/ userCache'[u] \subseteq heldOnce[u]
    BY <1>c, <1>5, <2>2
  <2>5. QED
    BY <1>1, <1>2, <1>3, <2>3, <2>4, WitnessesStay
<1>6. CASE P!FlushUserCaches(q) \/ (P!ForgetUser(q) /\ ~UNCHANGED userCache)
  <2>1. userCache' \in [Accounts -> (SUBSET ConsoleKeysInPlay) \cup {None}]
    BY <1>c, <1>6 DEF P!FlushUserCaches, P!ForgetUser
  <2>2. \A u \in Accounts : userCache'[u] \in {None, userCache[u]}
    BY <1>c, <1>6 DEF P!FlushUserCaches, P!ForgetUser
  <2>3. QED
    BY <1>1, <1>2, <1>3, <2>1, <2>2, WitnessesStay
<1>7. \/ UNCHANGED userCache
      \/ P!PutUserCache(q) /\ userCache' = [userCache EXCEPT ![ask[q].by] = ask[q].held]
      \/ P!FlushUserCaches(q) \/ P!ForgetUser(q)
  BY DEF AskSteps, P!GetUserCache, P!ListUserPermissions, P!PutUserCache, P!BeginCompose,
         P!BeginDeleteRole, P!BeginSetPlatformRoles, P!CheckSetPlatformRoles
<1>8. QED
  BY <1>4, <1>5, <1>6, <1>7

LEMMA ExpireKeeps ==
  ASSUME ConsoleInv, NEW u \in Accounts, P!ExpireUserCache(u) PROVE ConsoleInv'
<1>1. /\ userCache' = [userCache EXCEPT ![u] = None]
      /\ UNCHANGED <<platformRole, composed, ask, begun, heldOnce, composer, overtaken>>
  BY DEF P!ExpireUserCache, P!history
<1>2. P!PrTypeOK'
  BY <1>1 DEF ConsoleInv, P!PrTypeOK, P!UserPlatformRoleRow, P!PlatformRoleIds, P!Ask
<1>3. ConsoleRows'
  BY <1>1 DEF ConsoleInv, ConsoleRows, AskFormed, P!IsBreakGlassAdmin
<1>4. \A v \in Accounts : P!ListPlatformPermissions(v)' = P!ListPlatformPermissions(v)
  BY <1>1 DEF P!ListPlatformPermissions, P!KeysOf, P!PlatformSystemRoles
<1>5. \A v \in Accounts : userCache'[v] # None => userCache'[v] \subseteq heldOnce'[v]
  BY <1>1 DEF ConsoleInv, ConsoleWitnessed, P!PrTypeOK
<1>6. ConsoleWitnessed'
  BY <1>1, <1>4, <1>5 DEF ConsoleInv, ConsoleWitnessed, P!IsBreakGlassAdmin
<1>7. P!ComposersGiveWhatTheyHeld' /\ SuperadminKept'
  BY <1>1 DEF ConsoleInv, P!ComposersGiveWhatTheyHeld, P!IsBreakGlassAdmin, SuperadminKept,
              Replacing, P!Superadmins
<1>8. QED
  BY <1>2, <1>3, <1>6, <1>7 DEF ConsoleInv

\* What is held now is remembered, when every role that is held exists.
LEMMA ConsoleRemembers ==
  ASSUME ConsoleInv, P!AskRemember,
         platformRole' \in P!UserPlatformRoleRow,
         composed' \in [ComposedRoles -> (SUBSET ConsoleKeysInPlay) \cup {None}],
         \A u \in Accounts : \A r \in platformRole'[u] \cap ComposedRoles : composed'[r] # None
  PROVE  /\ heldOnce' \in [Accounts -> SUBSET ConsoleKeysInPlay]
         /\ \A u \in Accounts : heldOnce[u] \subseteq heldOnce'[u]
         /\ \A u \in Accounts : P!ListPlatformPermissions(u)' \subseteq heldOnce'[u]
<1>1. ASSUME NEW u \in Accounts, NEW r \in platformRole'[u]
      PROVE  /\ P!KeysOf(r)' = IF r \in BuiltIn THEN P!KeysOf(r) ELSE composed'[r]
             /\ P!KeysOf(r)' \subseteq ConsoleKeysInPlay
  <2>1. r \in BuiltIn \/ r \in ComposedRoles
    BY <1>1 DEF P!UserPlatformRoleRow, P!PlatformRoleIds
  <2>2. CASE r \in BuiltIn
    BY <2>2 DEF P!KeysOf, P!PlatformSystemRoles
  <2>3. CASE r \in ComposedRoles /\ r \notin BuiltIn
    <3>1. composed'[r] # None /\ composed'[r] \subseteq ConsoleKeysInPlay
      BY <1>1, <2>3
    <3>2. QED
      BY <2>3, <3>1 DEF P!KeysOf
  <2>4. QED
    BY <2>1, <2>2, <2>3
<1>2. \A u \in Accounts :
        P!ListPlatformPermissions(u)' = UNION {P!KeysOf(r)' : r \in platformRole'[u]}
  BY DEF P!ListPlatformPermissions, P!KeysOf, P!PlatformSystemRoles
<1>3. heldOnce' = [u \in Accounts |->
                    heldOnce[u] \cup UNION {IF r \in BuiltIn THEN P!KeysOf(r)
                                            ELSE composed'[r] : r \in platformRole'[u]}]
  BY DEF P!AskRemember
<1>4. \A u \in Accounts :
        UNION {IF r \in BuiltIn THEN P!KeysOf(r) ELSE composed'[r] : r \in platformRole'[u]}
          = P!ListPlatformPermissions(u)'
  BY <1>1, <1>2
<1>5. \A u \in Accounts : heldOnce'[u] = heldOnce[u] \cup P!ListPlatformPermissions(u)'
  BY <1>3, <1>4
<1>6. \A u \in Accounts : P!ListPlatformPermissions(u)' \subseteq ConsoleKeysInPlay
  BY <1>1, <1>2
<1>7. \A u \in Accounts : heldOnce'[u] \in SUBSET ConsoleKeysInPlay
  BY <1>5, <1>6 DEF ConsoleInv, P!PrTypeOK
<1>8. heldOnce' = [u \in Accounts |-> heldOnce'[u]]
  BY <1>3
<1>9. heldOnce' \in [Accounts -> SUBSET ConsoleKeysInPlay]
  BY <1>7, <1>8
<1>10. QED
  BY <1>5, <1>9

\* The rows a write leaves behind, and what was held by then.
LEMMA ConsoleWrites ==
  ASSUME ConsoleInv, NEW q \in Requests,
         P!ComposeRole(q) \/ P!DeleteRole(q) \/ P!ReplacePlatformRoles(q)
  PROVE  /\ platformRole' \in P!UserPlatformRoleRow
         /\ composed' \in [ComposedRoles -> (SUBSET ConsoleKeysInPlay) \cup {None}]
         /\ composer' \in [ComposedRoles -> Accounts \cup {None}]
         /\ \A u \in Accounts : \A r \in platformRole'[u] \cap ComposedRoles : composed'[r] # None
         /\ \A r \in ComposedRoles : composed'[r] # None => composer'[r] # None
         /\ \A r \in ComposedRoles : composed'[r] # None /\ ~P!IsBreakGlassAdmin(composer'[r])
              => composed'[r] \subseteq heldOnce[composer'[r]]
<1>1. ask[q] # None
  BY DEF P!ComposeRole, P!DeleteRole, P!ReplacePlatformRoles, P!AskAt
<1>2. /\ Asks(ask[q]) /\ AskFormed(ask[q]) /\ ask[q].by \in Accounts
      /\ ask[q].keys \in SUBSET ConsoleKeysInPlay /\ ask[q].roles \in SUBSET P!PlatformRoleIds
  BY <1>1, AskAtWork
<1>3. /\ platformRole \in P!UserPlatformRoleRow
      /\ composed \in [ComposedRoles -> (SUBSET ConsoleKeysInPlay) \cup {None}]
      /\ composer \in [ComposedRoles -> Accounts \cup {None}]
      /\ \A u \in Accounts : \A r \in platformRole[u] \cap ComposedRoles : composed[r] # None
      /\ \A r \in ComposedRoles : composed[r] # None => composer[r] # None
      /\ \A r \in ComposedRoles : composed[r] # None /\ ~P!IsBreakGlassAdmin(composer[r])
           => composed[r] \subseteq heldOnce[composer[r]]
  BY DEF ConsoleInv, P!PrTypeOK, ConsoleRows, P!ComposersGiveWhatTheyHeld
<1>4. CASE UNCHANGED <<platformRole, composed, composer>>
  BY <1>3, <1>4 DEF P!UserPlatformRoleRow, P!PlatformRoleIds
<1>5. CASE P!ComposeRole(q) /\ P!AssertMayGrant(q, ask[q].keys)
  <2> DEFINE r == CHOOSE x \in ask[q].roles : TRUE
  <2>1. \E c \in ComposedRoles : ask[q].roles = {c}
    BY <1>2, <1>5 DEF P!ComposeRole, AskFormed
  <2>2. r \in ComposedRoles
    BY <2>1
  <2>3. /\ composed' = [composed EXCEPT ![r] = ask[q].keys]
        /\ composer' = [composer EXCEPT ![r] = ask[q].by] /\ platformRole' = platformRole
    BY <1>5 DEF P!ComposeRole
  <2>4. ask[q].keys # None /\ ask[q].by # None
    BY <1>2, ConsoleAssumption
  <2>5. ~P!IsBreakGlassAdmin(ask[q].by) => ask[q].keys \subseteq heldOnce[ask[q].by]
    BY <1>2, <1>5 DEF P!AssertMayGrant, Asks
  <2> HIDE DEF r
  <2>6. /\ platformRole' \in P!UserPlatformRoleRow
        /\ composed' \in [ComposedRoles -> (SUBSET ConsoleKeysInPlay) \cup {None}]
        /\ composer' \in [ComposedRoles -> Accounts \cup {None}]
    BY <1>2, <1>3, <2>2, <2>3 DEF P!UserPlatformRoleRow, P!PlatformRoleIds
  <2>7. \A c \in ComposedRoles : /\ c = r => composed'[c] = ask[q].keys /\ composer'[c] = ask[q].by
                                 /\ c # r => composed'[c] = composed[c] /\ composer'[c] = composer[c]
    BY <1>3, <2>2, <2>3
  <2>8. QED
    BY <1>3, <2>3, <2>4, <2>5, <2>6, <2>7
<1>6. CASE P!DeleteRole(q)
  <2>1. /\ composed' = [r \in ComposedRoles |-> IF r \in ask[q].roles THEN None ELSE composed[r]]
        /\ platformRole' = [u \in Accounts |-> platformRole[u] \ ask[q].roles]
        /\ composer' = composer
    BY <1>6 DEF P!DeleteRole, P!history
  <2>2. /\ platformRole' \in P!UserPlatformRoleRow
        /\ composed' \in [ComposedRoles -> (SUBSET ConsoleKeysInPlay) \cup {None}]
    BY <1>3, <2>1 DEF P!UserPlatformRoleRow, P!PlatformRoleIds
  <2>3. \A u \in Accounts : \A r \in platformRole'[u] \cap ComposedRoles : composed'[r] # None
    BY <1>3, <2>1
  <2>4. \A r \in ComposedRoles : composed'[r] # None => composed'[r] = composed[r]
    BY <2>1
  <2>5. QED
    BY <1>3, <2>1, <2>2, <2>3, <2>4
<1>7. CASE P!ReplacePlatformRoles(q) /\ \A r \in ask[q].roles \cap ComposedRoles : composed[r] # None
  <2>1. /\ platformRole' = [platformRole EXCEPT ![ask[q].user] = ask[q].roles]
        /\ UNCHANGED <<composed, composer>>
    BY <1>7 DEF P!ReplacePlatformRoles
  <2>2. platformRole' \in P!UserPlatformRoleRow
    BY <1>2, <1>3, <2>1 DEF P!UserPlatformRoleRow, P!PlatformRoleIds
  <2>3. \A u \in Accounts : platformRole'[u] = platformRole[u] \/ platformRole'[u] = ask[q].roles
    BY <1>3, <2>1 DEF P!UserPlatformRoleRow
  <2>4. QED
    BY <1>3, <1>7, <2>1, <2>2, <2>3
<1>8. CASE P!ComposeRole(q) /\ ~P!AssertMayGrant(q, ask[q].keys)
  BY <1>4, <1>8 DEF P!ComposeRole
<1>9. CASE P!ReplacePlatformRoles(q) /\ ~\A r \in ask[q].roles \cap ComposedRoles : composed[r] # None
  BY <1>4, <1>9 DEF P!ReplacePlatformRoles
<1>10. QED
  BY <1>5, <1>6, <1>7, <1>8, <1>9

LEMMA ConsoleWritesKeep ==
  ASSUME ConsoleInv, NEW q \in Requests,
         P!ComposeRole(q) \/ P!DeleteRole(q) \/ P!ReplacePlatformRoles(q)
  PROVE  (P!PrTypeOK /\ ConsoleRows /\ ConsoleWitnessed /\ P!ComposersGiveWhatTheyHeld)'
<1>1. /\ platformRole' \in P!UserPlatformRoleRow
      /\ composed' \in [ComposedRoles -> (SUBSET ConsoleKeysInPlay) \cup {None}]
      /\ composer' \in [ComposedRoles -> Accounts \cup {None}]
      /\ \A u \in Accounts : \A r \in platformRole'[u] \cap ComposedRoles : composed'[r] # None
      /\ \A r \in ComposedRoles : composed'[r] # None => composer'[r] # None
      /\ \A r \in ComposedRoles : composed'[r] # None /\ ~P!IsBreakGlassAdmin(composer'[r])
           => composed'[r] \subseteq heldOnce[composer'[r]]
  BY ConsoleWrites
<1>2. AskMoves(q) /\ begun' \in 0 .. MaxConsoleChanges /\ UNCHANGED <<userCache, overtaken>>
  BY AllAskMove DEF P!ComposeRole, P!DeleteRole, P!ReplacePlatformRoles, P!history
<1>3. /\ heldOnce' \in [Accounts -> SUBSET ConsoleKeysInPlay]
      /\ \A u \in Accounts : heldOnce[u] \subseteq heldOnce'[u]
      /\ \A u \in Accounts : P!ListPlatformPermissions(u)' \subseteq heldOnce'[u]
  <2>1. CASE P!ComposeRole(q) \/ P!ReplacePlatformRoles(q)
    BY <1>1, <2>1, ConsoleRemembers DEF P!ComposeRole, P!ReplacePlatformRoles
  <2>2. CASE P!DeleteRole(q)
    <3>1. heldOnce' = heldOnce
      BY <2>2 DEF P!DeleteRole, P!history
    <3>2. \A u \in Accounts : \A r \in platformRole'[u] :
            r \in platformRole[u] /\ (r \in BuiltIn \/ composed'[r] = composed[r])
      BY <2>2, <1>1 DEF P!DeleteRole, ConsoleInv, P!PrTypeOK, P!UserPlatformRoleRow, P!PlatformRoleIds
    <3>3. \A u \in Accounts : \A r \in platformRole'[u] : P!KeysOf(r)' = P!KeysOf(r)
      BY <3>2 DEF P!KeysOf, P!PlatformSystemRoles
    <3>4. \A u \in Accounts :
            P!ListPlatformPermissions(u)' = UNION {P!KeysOf(r) : r \in platformRole'[u]}
      BY <3>3 DEF P!ListPlatformPermissions, P!KeysOf, P!PlatformSystemRoles
    <3>5. \A u \in Accounts : P!ListPlatformPermissions(u)' \subseteq P!ListPlatformPermissions(u)
      BY <3>2, <3>4 DEF P!ListPlatformPermissions
    <3>6. QED
      BY <3>1, <3>5 DEF ConsoleInv, ConsoleWitnessed, P!PrTypeOK
  <2>3. QED
    BY <2>1, <2>2
<1>4. /\ ask' \in [Requests -> P!Ask \cup {None}]
      /\ \A p \in Requests : ask'[p] # None => AskFormed(ask[p])'
      /\ \A p \in Requests : ask'[p] # None /\ ~P!IsBreakGlassAdmin(ask'[p].by)
           => ask'[p].held \subseteq heldOnce'[ask'[p].by]
  BY <1>2, <1>3, AsksStay
<1>5. P!PrTypeOK'
  BY <1>1, <1>2, <1>3, <1>4 DEF ConsoleInv, P!PrTypeOK, P!UserPlatformRoleRow, P!PlatformRoleIds, P!Ask
<1>6. ConsoleRows'
  BY <1>1, <1>4 DEF ConsoleRows
<1>7. \A u \in Accounts : userCache'[u] # None => userCache'[u] \subseteq heldOnce'[u]
  BY <1>2, <1>3 DEF ConsoleInv, ConsoleWitnessed
<1>8. ConsoleWitnessed'
  BY <1>3, <1>4, <1>7 DEF ConsoleWitnessed, P!IsBreakGlassAdmin
<1>9. \A r \in ComposedRoles : composed'[r] # None => composer'[r] \in Accounts
  BY <1>1
<1>10. P!ComposersGiveWhatTheyHeld'
  BY <1>1, <1>3, <1>9 DEF P!ComposersGiveWhatTheyHeld, P!IsBreakGlassAdmin
<1>11. QED
  BY <1>5, <1>6, <1>8, <1>10

--------------------------------------------------------------------------------
(* The last superadmin.                                                    *)
LEMMA NobodyReplaces ==
  ASSUME ConsoleInv, NEW q \in Requests, AskMoves(q),
         q \in Replacing' => q \in Replacing /\ ask'[q].roles = ask[q].roles /\ ask'[q].user = ask[q].user,
         \A u \in Accounts : "superadmin" \in platformRole[u] => "superadmin" \in platformRole'[u],
         overtaken' = overtaken
  PROVE  SuperadminKept'
<1>1. \A p \in Requests : p # q => ask'[p] = ask[p]
  BY DEF AskMoves, ConsoleInv, P!PrTypeOK
<1>2. /\ Replacing' \subseteq Replacing
      /\ \A p \in Replacing' : ask'[p].roles = ask[p].roles /\ ask'[p].user = ask[p].user
  BY <1>1 DEF Replacing
<1>3. P!Superadmins \subseteq P!Superadmins'
  BY DEF P!Superadmins
<1>4. QED
  BY <1>2, <1>3 DEF ConsoleInv, SuperadminKept

LEMMA SameCount == ASSUME NEW S PROVE P!Cardinality(S) = Cardinality(S)
BY DEF P!Cardinality, Cardinality

LEMMA SuperadminStays ==
  ASSUME ConsoleInv, NEW q \in Requests,
         \/ AskSteps(q) \/ P!ComposeRole(q) \/ P!DeleteRole(q)
         \/ P!CheckSetPlatformRoles(q) \/ P!ReplacePlatformRoles(q)
  PROVE  SuperadminKept'
<1>o. /\ AskMoves(q) /\ SuperadminKept /\ platformRole \in P!UserPlatformRoleRow
      /\ "superadmin" \notin ComposedRoles
  BY AllAskMove, ConsoleRoles DEF AskSteps, ConsoleInv, P!PrTypeOK
<1>a. \A p \in Requests : p # q => ask'[p] = ask[p]
  BY <1>o DEF AskMoves, ConsoleInv, P!PrTypeOK
<1>t. ask \in [Requests -> P!Ask \cup {None}]
  BY DEF ConsoleInv, P!PrTypeOK
<1>1. CASE AskSteps(q)
  <2>1. UNCHANGED <<platformRole, overtaken>>
    BY <1>1 DEF AskSteps, P!GetUserCache, P!ListUserPermissions, P!PutUserCache, P!BeginCompose,
         P!BeginDeleteRole, P!FlushUserCaches, P!BeginSetPlatformRoles, P!ForgetUser, P!history
  <2>2. q \notin Replacing'
    <3>1. CASE P!GetUserCache(q) \/ P!ListUserPermissions(q) \/ P!PutUserCache(q)
      <4>1. ask[q] # None
        BY <3>1 DEF P!GetUserCache, P!ListUserPermissions, P!PutUserCache, P!AskAt
      <4>2. ask'[q].stage \in {"held", "list", "put"}
        BY <1>t, <3>1, <4>1 DEF P!GetUserCache, P!ListUserPermissions, P!PutUserCache, P!AskGoTo, P!Ask
      <4>3. QED
        BY <4>2 DEF Replacing
    <3>2. CASE P!FlushUserCaches(q) \/ P!ForgetUser(q)
      BY <1>t, <3>2 DEF P!FlushUserCaches, P!ForgetUser, P!AskEnd, Replacing
    <3>3. CASE P!BeginCompose(q) \/ P!BeginDeleteRole(q) \/ P!BeginSetPlatformRoles(q)
      <4>1. \E op, u, v, roles, keys : P!AskBegin(q, op, u, v, roles, keys)
        BY <3>3 DEF P!BeginCompose, P!BeginDeleteRole, P!BeginSetPlatformRoles
      <4>2. ask'[q].op = "setRoles" => ask'[q].stage \in {"held", "get"}
        BY <1>t, <4>1 DEF P!AskBegin
      <4>3. QED
        BY <4>2 DEF Replacing
    <3>4. QED
      BY <1>1, <3>1, <3>2, <3>3 DEF AskSteps
  <2>3. QED
    BY <1>o, <2>1, <2>2, NobodyReplaces
<1>2. CASE P!ComposeRole(q) \/ P!DeleteRole(q)
  <2>1. overtaken' = overtaken /\ ask[q] # None /\ ask[q].op \in {"compose", "deleteRole"}
    BY <1>2 DEF P!ComposeRole, P!DeleteRole, P!AskAt, P!history
  <2>2. \E r \in ComposedRoles : ask[q].roles = {r}
    BY <2>1, AskAtWork DEF AskFormed
  <2>3. \A u \in Accounts : "superadmin" \in platformRole[u] => "superadmin" \in platformRole'[u]
    BY <1>o, <1>2, <2>2 DEF P!ComposeRole, P!DeleteRole
  <2>4. ask'[q] = None \/ ask'[q].stage = "flush"
    BY <1>2, <1>t, <2>1 DEF P!ComposeRole, P!DeleteRole, P!AskEnd, P!AskGoTo, P!Ask
  <2>5. q \notin Replacing'
    BY <2>4 DEF Replacing
  <2>6. QED
    BY <1>o, <2>1, <2>3, <2>5, NobodyReplaces
<1>3. CASE P!CheckSetPlatformRoles(q)
  <2>1. ask[q] # None /\ ask[q].op = "setRoles" /\ ask[q].stage = "held" /\ platformRole' = platformRole
    BY <1>3 DEF P!CheckSetPlatformRoles, P!AskAt
  <2>2. CASE P!AskEnd(q) /\ UNCHANGED overtaken
    <3>1. q \notin Replacing'
      BY <1>t, <2>2 DEF P!AskEnd, Replacing
    <3>2. QED
      BY <1>o, <2>1, <2>2, <3>1, NobodyReplaces
  <2>3. CASE /\ P!AssertNotLastSuperadmin(ask[q].user, ask[q].roles) /\ P!AskGoTo(q, "write")
             /\ overtaken' = (overtaken \/ \E p \in Requests :
                               ask[p] # None /\ ask[p].op = "setRoles" /\ P!AskAt(p, "write"))
    <3> SUFFICES ASSUME ~overtaken', \E u \in Accounts : "superadmin" \in FirstPlatformRoles[u]
                 PROVE  /\ P!Superadmins' # {}
                        /\ \A p, r \in Replacing' : p = r
                        /\ \A p \in Replacing' : \/ "superadmin" \in ask'[p].roles
                                                 \/ \E v \in P!Superadmins' : v # ask'[p].user
      BY DEF SuperadminKept
    <3>1. ~overtaken /\ Replacing = {}
      BY <2>3 DEF Replacing, P!AskAt
    <3>2. P!Superadmins' = P!Superadmins /\ P!Superadmins # {}
      BY <1>o, <2>1, <3>1 DEF SuperadminKept, P!Superadmins
    <3>3. Replacing' \subseteq {q}
      BY <1>a, <3>1 DEF Replacing
    <3>4. ask'[q].roles = ask[q].roles /\ ask'[q].user = ask[q].user
      BY <1>t, <2>1, <2>3 DEF P!AskGoTo, P!Ask
    <3>5. "superadmin" \in ask[q].roles \/ \E v \in P!Superadmins : v # ask[q].user
      <4>1. CASE "superadmin" \notin platformRole[ask[q].user]
        BY <3>2, <4>1 DEF P!Superadmins
      <4>2. CASE Cardinality(P!Superadmins) > 1
        <5>1. IsFiniteSet(P!Superadmins)
          BY Inside, ConsoleAssumption DEF P!Superadmins
        <5>2. QED
          BY <4>2, <5>1, AnotherOwner
      <4>3. \/ "superadmin" \in ask[q].roles \/ "superadmin" \notin platformRole[ask[q].user]
            \/ Cardinality(P!Superadmins) > 1
        BY <2>3, SameCount DEF P!AssertNotLastSuperadmin
      <4>4. QED
        BY <4>1, <4>2, <4>3
    <3>6. QED
      BY <3>2, <3>3, <3>4, <3>5
  <2>4. QED
    BY <1>3, <2>2, <2>3 DEF P!CheckSetPlatformRoles
<1>4. CASE P!ReplacePlatformRoles(q)
  <2>1. ask[q] # None /\ ask[q].op = "setRoles" /\ ask[q].stage = "write" /\ overtaken' = overtaken
    BY <1>4 DEF P!ReplacePlatformRoles, P!AskAt
  <2>2. ask[q].user \in Accounts
    BY <2>1, AskAtWork DEF AskFormed
  <2>3. ask'[q] = None \/ ask'[q].stage = "forget"
    BY <1>4, <1>t, <2>1 DEF P!ReplacePlatformRoles, P!AskEnd, P!AskGoTo, P!Ask
  <2>4. q \notin Replacing' /\ q \in Replacing
    BY <2>1, <2>3 DEF Replacing
  <2>5. CASE platformRole' = platformRole
    BY <1>o, <2>1, <2>4, <2>5, NobodyReplaces
  <2>6. CASE platformRole' = [platformRole EXCEPT ![ask[q].user] = ask[q].roles]
    <3> SUFFICES ASSUME ~overtaken, \E u \in Accounts : "superadmin" \in FirstPlatformRoles[u]
                 PROVE  P!Superadmins' # {} /\ Replacing' = {}
      BY <2>1 DEF SuperadminKept
    <3>1. Replacing' = {}
      <4>1. \A p \in Replacing : p = q
        BY <1>o, <2>4 DEF SuperadminKept
      <4>2. QED
        BY <1>a, <2>4, <4>1 DEF Replacing
    <3>2. "superadmin" \in ask[q].roles \/ \E v \in P!Superadmins : v # ask[q].user
      BY <1>o, <2>4 DEF SuperadminKept
    <3>3. CASE "superadmin" \in ask[q].roles
      <4>1. ask[q].user \in P!Superadmins'
        BY <1>o, <2>2, <2>6, <3>3 DEF P!Superadmins, P!UserPlatformRoleRow
      <4>2. QED
        BY <3>1, <4>1
    <3>4. CASE \E v \in P!Superadmins : v # ask[q].user
      <4>1. PICK v \in P!Superadmins : v # ask[q].user
        BY <3>4
      <4>2. v \in P!Superadmins'
        BY <1>o, <2>6, <4>1 DEF P!Superadmins, P!UserPlatformRoleRow
      <4>3. QED
        BY <3>1, <4>2
    <3>5. P!Superadmins' # {}
      BY <3>2, <3>3, <3>4
    <3>6. QED
      BY <3>1, <3>5
  <2>7. QED
    BY <1>4, <2>5, <2>6 DEF P!ReplacePlatformRoles
<1>5. QED
  BY <1>1, <1>2, <1>3, <1>4

--------------------------------------------------------------------------------
LEMMA ConsoleInvStep == ConsoleInv /\ [P!PrNext]_pVars => ConsoleInv'
<1> SUFFICES ASSUME ConsoleInv, [P!PrNext]_pVars PROVE ConsoleInv'
  OBVIOUS
<1>1. ASSUME NEW q \in Requests, AskSteps(q) \/ P!CheckSetPlatformRoles(q) PROVE ConsoleInv'
  <2>1. (P!PrTypeOK /\ ConsoleRows /\ ConsoleWitnessed /\ P!ComposersGiveWhatTheyHeld)'
    BY <1>1, AskStepsKeep
  <2>2. QED
    BY <1>1, <2>1, SuperadminStays DEF ConsoleInv
<1>2. ASSUME NEW q \in Requests, P!ComposeRole(q) \/ P!DeleteRole(q) \/ P!ReplacePlatformRoles(q)
      PROVE  ConsoleInv'
  <2>1. (P!PrTypeOK /\ ConsoleRows /\ ConsoleWitnessed /\ P!ComposersGiveWhatTheyHeld)'
    BY <1>2, ConsoleWritesKeep
  <2>2. QED
    BY <1>2, <2>1, SuperadminStays DEF ConsoleInv
<1>3. CASE UNCHANGED pVars
  <2>1. UNCHANGED <<platformRole, composed, userCache, ask, begun, heldOnce, composer, overtaken>>
    BY <1>3 DEF pVars
  <2>2. P!PrTypeOK'
    BY <2>1 DEF ConsoleInv, P!PrTypeOK, P!UserPlatformRoleRow, P!PlatformRoleIds, P!Ask
  <2>3. ConsoleRows'
    BY <2>1 DEF ConsoleInv, ConsoleRows, AskFormed, P!IsBreakGlassAdmin
  <2>4. \A u \in Accounts : P!ListPlatformPermissions(u)' = P!ListPlatformPermissions(u)
    BY <2>1 DEF P!ListPlatformPermissions, P!KeysOf, P!PlatformSystemRoles
  <2>5. ConsoleWitnessed'
    BY <2>1, <2>4 DEF ConsoleInv, ConsoleWitnessed, P!IsBreakGlassAdmin
  <2>6. P!ComposersGiveWhatTheyHeld' /\ SuperadminKept'
    BY <2>1 DEF ConsoleInv, P!ComposersGiveWhatTheyHeld, P!IsBreakGlassAdmin, SuperadminKept,
          Replacing, P!Superadmins
  <2>7. QED
    BY <2>2, <2>3, <2>5, <2>6 DEF ConsoleInv
<1>4. QED
  BY <1>1, <1>2, <1>3, ConsoleNext, ExpireKeeps

LEMMA ConsoleInvInit == P!PrInit => ConsoleInv
<1> SUFFICES ASSUME P!PrInit PROVE ConsoleInv
  OBVIOUS
<1>1. \A u \in Accounts : FirstPlatformRoles[u] \subseteq BuiltIn /\ platformRole[u] = FirstPlatformRoles[u]
  BY ConsoleAssumption DEF P!PrInit
<1>2. \A u \in Accounts : \A r \in FirstPlatformRoles[u] :
        P!KeysOf(r) = P!PlatformSystemRoles[r] \cap ConsoleKeysInPlay
  BY <1>1 DEF P!KeysOf
<1>3. \A u \in Accounts : P!ListPlatformPermissions(u) = heldOnce[u] /\ heldOnce[u] \subseteq ConsoleKeysInPlay
  BY <1>1, <1>2 DEF P!PrInit, P!ListPlatformPermissions
<1>4. P!PrTypeOK
  <2>1. heldOnce \in [Accounts -> SUBSET ConsoleKeysInPlay]
    BY <1>3 DEF P!PrInit
  <2>2. platformRole \in P!UserPlatformRoleRow
    BY ConsoleAssumption DEF P!PrInit, P!UserPlatformRoleRow, P!PlatformRoleIds
  <2>3. begun \in 0 .. MaxConsoleChanges
    BY ConsoleAssumption DEF P!PrInit
  <2>4. QED
    BY <2>1, <2>2, <2>3 DEF P!PrInit, P!PrTypeOK
<1>5. ConsoleRows
  BY <1>1, ConsoleAssumption DEF P!PrInit, ConsoleRows
<1>6. ConsoleWitnessed
  BY <1>3 DEF P!PrInit, ConsoleWitnessed
<1>7. P!ComposersGiveWhatTheyHeld
  BY DEF P!PrInit, P!ComposersGiveWhatTheyHeld
<1>8. SuperadminKept
  BY <1>1 DEF P!PrInit, SuperadminKept, Replacing, P!Superadmins
<1>9. QED
  BY <1>4, <1>5, <1>6, <1>7, <1>8 DEF ConsoleInv

LEMMA ConsoleInvSays == ConsoleInv => P!PrTypeOK /\ P!SuperadminRemains /\ P!ComposersGiveWhatTheyHeld
BY DEF ConsoleInv, SuperadminKept, P!SuperadminRemains

--------------------------------------------------------------------------------
(* Requests of the API.  Every route belongs to a scope, and only those of *)
(* a workspace look at grants on one resource.                             *)
Scopes == {"session", "workspace", "console", "apiKey"}

LEMMA RouteType ==
  ASSUME NEW r \in A!Routes
  PROVE  r.scope \in Scopes /\ r.onResource \in BOOLEAN /\ (r.onResource => r.scope = "workspace")
<1> DEFINE Scoped(x) ==
      /\ x.scope \in Scopes /\ x.onResource \in BOOLEAN
      /\ x.onResource => x.scope = "workspace"
<1>1. ASSUME NEW key, NEW ops, NEW on \in BOOLEAN, NEW scope \in Scopes,
             on => scope = "workspace"
      PROVE  \A x \in A!Route(scope, key, on, ops) : Scoped(x)
  BY <1>1 DEF A!Route, Scopes
<1>2. ASSUME NEW key, NEW ops
      PROVE  /\ \A x \in A!SignedIn(ops) : Scoped(x)
             /\ \A x \in A!Open(ops) : Scoped(x)
             /\ \A x \in A!Asking(key, ops) : Scoped(x)
             /\ \A x \in A!AskingOnResource(key, ops) : Scoped(x)
             /\ \A x \in A!AskingConsole(key, ops) : Scoped(x)
             /\ \A x \in A!AskingKey(key, ops) : Scoped(x)
  BY <1>1 DEF A!SignedIn, A!Open, A!Asking, A!AskingOnResource, A!AskingConsole,
              A!AskingKey, Scopes
<1> HIDE DEF Scoped
<1>3. /\ \A x \in A!AccountRoutes : Scoped(x)
      /\ \A x \in A!PlanRoutes : Scoped(x)
      /\ \A x \in A!ProjectRoutes : Scoped(x)
      /\ \A x \in A!BillingRoutes : Scoped(x)
      /\ \A x \in A!UsageRoutes : Scoped(x)
      /\ \A x \in A!ModelRoutes : Scoped(x)
      /\ \A x \in A!PromoRoutes : Scoped(x)
  BY <1>2, Zenon DEF A!AccountRoutes, A!PlanRoutes, A!ProjectRoutes,
     A!BillingRoutes, A!UsageRoutes, A!ModelRoutes, A!PromoRoutes
<1>4. \A x \in A!WorkspaceRoutes : Scoped(x)
  BY <1>2 DEF A!WorkspaceRoutes
<1>5. \A x \in A!KnowledgeRoutes : Scoped(x)
  BY <1>2 DEF A!KnowledgeRoutes
<1>6. /\ \A x \in A!ChatRoutes : Scoped(x)
      /\ \A x \in A!AttachmentRoutes : Scoped(x)
      /\ \A x \in A!SpeechRoutes : Scoped(x)
      /\ \A x \in A!WebhookRoutes : Scoped(x)
      /\ \A x \in A!PublicApiRoutes : Scoped(x)
  BY <1>2 DEF A!ChatRoutes, A!AttachmentRoutes, A!SpeechRoutes, A!WebhookRoutes,
              A!PublicApiRoutes
<1>7. /\ \A x \in A!AgentRoutes : Scoped(x)
      /\ \A x \in A!AgentRunRoutes : Scoped(x)
      /\ \A x \in A!ConnectionRoutes : Scoped(x)
  BY <1>2 DEF A!AgentRoutes, A!AgentRunRoutes, A!ConnectionRoutes
<1>8. \A x \in A!AdminRoutes : Scoped(x)
  BY <1>2 DEF A!AdminRoutes
<1>9. \A x \in A!AdminSettingsRoutes : Scoped(x)
  BY <1>2 DEF A!AdminSettingsRoutes
<1>10. Scoped(r)
  BY <1>3, <1>4, <1>5, <1>6, <1>7, <1>8, <1>9 DEF A!Routes
<1>11. QED
  BY <1>10 DEF Scoped

Platform(c, key) ==
  \/ c.console = "breakGlass"
  \/ c.console # None /\ key \in A!PlatformSystemRoles[c.console]

(* Whether the last guard of a route lets a caller through.                *)
Permitted(r, c) ==
  CASE r.scope = "workspace" /\ ~r.onResource -> r.asks \in A!WorkspaceSystemRoles[c.role]
    [] r.scope = "workspace" /\ r.onResource ->
         A!DecideResourcePermission(r.asks \in A!WorkspaceSystemRoles[c.role], c.effects)
    [] r.scope = "console" -> Platform(c, r.asks)
    [] r.scope = "apiKey" -> c.key # None /\ r.asks \in c.key
    [] OTHER -> TRUE

(* Where a request stands says which guards it has passed, and the answer  *)
(* which one refused it.                                                   *)
OnItsWay(r, c, at, answer) ==
  /\ at \in {"session", "scope", "gate", "permission", "over"}
  /\ answer \in A!Statuses \cup {None}
  /\ at = "session" => r.scope # "apiKey"
  /\ at = "scope" => r.scope \in {"workspace", "apiKey"}
  /\ at = "gate" => r.scope = "console"
  /\ at = "permission" =>
       /\ r.scope # "session"
       /\ r.scope = "workspace" => c.role # None /\ r.asks # A!NoKey
       /\ r.scope = "apiKey" => c.key # None
  /\ at = "over" =>
       /\ answer \in A!Statuses
       /\ answer \in {"ok", "forbidden"} /\ r.scope = "workspace" => c.role # None
       /\ answer = "ok" => Permitted(r, c) \/ (r.scope = "workspace" /\ r.asks = A!NoKey)
       /\ answer = "forbidden" =>
            /\ r.scope = "workspace" => r.asks # A!NoKey
            /\ \/ r.scope # "session" /\ ~Permitted(r, c)
               \/ r.scope = "console" /\ ~Platform(c, <<"admin.console", "access">>)
       /\ answer = "notFound" => r.scope # "workspace" \/ c.role = None

ReqInv ==
  \/ request = None /\ stage = None /\ status = None
  \/ \E r \in A!Routes, c \in Callers :
       request = [route |-> r, caller |-> c] /\ OnItsWay(r, c, stage, status)

LEMMA ReqInvInit == A!ArInit => ReqInv
BY DEF A!ArInit, ReqInv

LEMMA ReqInvStep == ReqInv /\ [A!ArNext]_aVars => ReqInv'
<1> SUFFICES ASSUME ReqInv, [A!ArNext]_aVars PROVE ReqInv'
  OBVIOUS
<1>1. CASE UNCHANGED aVars
  BY <1>1 DEF aVars, ReqInv
<1>2. CASE A!Receive
  <2>1. PICK r \in A!Routes, c \in Callers :
          /\ request' = [route |-> r, caller |-> c] /\ status' = status
          /\ stage' = IF r.scope = "apiKey" THEN "scope" ELSE "session"
    BY <1>2 DEF A!Receive
  <2>2. status \in A!Statuses \cup {None}
    BY DEF ReqInv, OnItsWay
  <2>3. OnItsWay(r, c, stage', status')
    BY <2>1, <2>2 DEF OnItsWay
  <2>4. QED
    BY <2>1, <2>3 DEF ReqInv
<1>3. ASSUME \/ A!RequireAuth \/ A!WorkspaceScope \/ A!ApiKeyWorkspaceScope
             \/ A!RequirePermission \/ A!RequireResourcePermission
             \/ A!RequireAdminConsole \/ A!RequireConsolePermission
      PROVE  ReqInv'
  <2>1. stage \in {"session", "scope", "gate", "permission"}
    BY <1>3 DEF A!RequireAuth, A!WorkspaceScope, A!ApiKeyWorkspaceScope, A!RequirePermission,
       A!RequireResourcePermission, A!RequireAdminConsole, A!RequireConsolePermission
  <2>2. PICK r \in A!Routes, c \in Callers :
          request = [route |-> r, caller |-> c] /\ OnItsWay(r, c, stage, status)
    BY <2>1, CallersAssumption DEF ReqInv
  <2>4. A!route = r /\ A!by = c
    BY <2>2 DEF A!route, A!by
  <2>5. r.scope \in Scopes /\ r.onResource \in BOOLEAN
        /\ (r.onResource => r.scope = "workspace")
    BY RouteType
  <2>6. ASSUME A!RequireAuth PROVE request' = request /\ OnItsWay(r, c, stage', status')
    BY <2>2, <2>4, <2>5, <2>6 DEF A!RequireAuth, A!Refuse, A!Pass, A!Serve, OnItsWay, Permitted,
       A!Statuses, Scopes
  <2>7. ASSUME A!WorkspaceScope PROVE request' = request /\ OnItsWay(r, c, stage', status')
    BY <2>2, <2>4, <2>5, <2>7 DEF A!WorkspaceScope, A!Refuse, A!Pass, A!Serve, OnItsWay,
       A!Statuses, Scopes
  <2>8. ASSUME A!ApiKeyWorkspaceScope PROVE request' = request /\ OnItsWay(r, c, stage', status')
    BY <2>2, <2>4, <2>5, <2>8 DEF A!ApiKeyWorkspaceScope, A!Refuse, A!Pass, A!Serve, OnItsWay,
       A!Statuses, Scopes
  <2>9. ASSUME A!RequirePermission PROVE request' = request /\ OnItsWay(r, c, stage', status')
    BY <2>2, <2>4, <2>5, <2>9 DEF A!RequirePermission, A!Refuse, A!Pass, A!Serve, OnItsWay,
       A!Statuses, Scopes, Permitted
  <2>10. ASSUME A!RequireResourcePermission PROVE request' = request /\ OnItsWay(r, c, stage', status')
    BY <2>2, <2>4, <2>5, <2>10 DEF A!RequireResourcePermission, A!Refuse, A!Pass, A!Serve,
       OnItsWay, A!Statuses, Scopes, Permitted, A!DecideOnResource
  <2>11. ASSUME A!RequireAdminConsole PROVE request' = request /\ OnItsWay(r, c, stage', status')
    BY <2>2, <2>4, <2>5, <2>11 DEF A!RequireAdminConsole, A!RequirePlatformPermission, A!Refuse,
       A!Pass, A!Serve, OnItsWay, A!Statuses, Scopes, Platform
  <2>12. ASSUME A!RequireConsolePermission PROVE request' = request /\ OnItsWay(r, c, stage', status')
    BY <2>2, <2>4, <2>5, <2>12 DEF A!RequireConsolePermission, A!RequirePlatformPermission,
       A!Refuse, A!Pass, A!Serve, OnItsWay, A!Statuses, Scopes, Permitted, Platform
  <2>13. request' = request /\ OnItsWay(r, c, stage', status')
    BY <1>3, <2>6, <2>7, <2>8, <2>9, <2>10, <2>11, <2>12
  <2>14. QED
    BY <2>2, <2>13 DEF ReqInv
<1>4. QED
  BY <1>1, <1>2, <1>3 DEF A!ArNext

(* What the guards let through and what they refuse is what the document   *)
(* says, for every row of it.                                              *)
LEMMA AnswersAreDocumented ==
  ASSUME NEW r \in A!Routes, NEW c \in Callers, NEW d \in A!RouteDocs, r.op = d.op,
         request = [route |-> r, caller |-> c], stage = "over", OnItsWay(r, c, stage, status)
  PROVE  LET holds == IF d.access = A!AnyMember THEN c.role # None ELSE A!Holds(d.access) IN
         /\ status = "ok" => holds \/ (r.onResource /\ c.effects = {"allow"})
         /\ status = "forbidden" =>
              \/ ~holds
              \/ r.onResource /\ "deny" \in c.effects
              \/ r.scope = "console" /\ ~A!Holds(<<"admin.console", "access">>)
<1>1. A!route = r /\ A!by = c
  BY DEF A!route, A!by
<1>2. r.scope \in Scopes /\ r.onResource \in BOOLEAN /\ (r.onResource => r.scope = "workspace")
  BY RouteType
<1>3. A!Fits(r, d)
  BY TablesAssumption DEF A!TablesAgree
<1>4. c.role \in DOMAIN A!WorkspaceSystemRoles \cup {None} /\ c.effects \subseteq {"allow", "deny"}
  BY CallersAssumption DEF A!Caller
<1>5. CASE d.access = A!AnyMember
  <2>1. r.scope = "workspace" /\ (r.asks = A!NoKey \/ \A name \in DOMAIN A!WorkspaceSystemRoles :
                                    r.asks \in A!WorkspaceSystemRoles[name])
    BY <1>3, <1>5 DEF A!Fits
  <2>2. status = "ok" => c.role # None
    BY <2>1 DEF OnItsWay
  <2>3. status = "forbidden" => r.onResource /\ "deny" \in c.effects
    BY <1>2, <1>4, <2>1 DEF OnItsWay, Permitted, A!DecideResourcePermission
  <2>4. QED
    BY <1>5, <2>2, <2>3
<1>6. CASE d.access # A!AnyMember
  <2>1. r.scope # "session" /\ r.asks # A!NoKey /\ r.asks = d.access
    BY <1>3, <1>6 DEF A!Fits
  <2>2. CASE r.scope = "workspace"
    <3>1. A!Holds(d.access) <=> c.role # None /\ r.asks \in A!WorkspaceSystemRoles[c.role]
      BY <1>1, <2>1, <2>2 DEF A!Holds
    <3>2. CASE r.onResource
      BY <1>4, <1>6, <2>1, <2>2, <3>1, <3>2 DEF OnItsWay, Permitted, A!DecideResourcePermission
    <3>3. CASE ~r.onResource
      BY <1>6, <2>1, <2>2, <3>1, <3>3 DEF OnItsWay, Permitted
    <3>4. QED
      BY <1>2, <3>2, <3>3
  <2>3. CASE r.scope = "console"
    <3>1. /\ A!Holds(d.access) <=> Platform(c, r.asks)
          /\ A!Holds(<<"admin.console", "access">>) <=> Platform(c, <<"admin.console", "access">>)
      BY <1>1, <2>1, <2>3 DEF A!Holds, Platform
    <3>2. QED
      BY <1>6, <2>1, <2>3, <3>1 DEF OnItsWay, Permitted
  <2>4. CASE r.scope = "apiKey"
    <3>1. A!Holds(d.access) <=> c.key # None /\ r.asks \in c.key
      BY <1>1, <2>1, <2>4 DEF A!Holds
    <3>2. QED
      BY <1>6, <2>1, <2>4, <3>1 DEF OnItsWay, Permitted
  <2>5. QED
    BY <1>2, <2>1, <2>2, <2>3, <2>4 DEF Scopes
<1>7. QED
  BY <1>5, <1>6

LEMMA ReqInvSays == ReqInv => A!ArTypeOK /\ A!DocumentedAccess /\ A!ViewersOnlyLook
<1> SUFFICES ASSUME ReqInv PROVE A!ArTypeOK /\ A!DocumentedAccess /\ A!ViewersOnlyLook
  OBVIOUS
<1>1. A!ArTypeOK
  <2>1. CASE request = None /\ stage = None /\ status = None
    BY <2>1, CallersAssumption DEF A!ArTypeOK
  <2>2. ASSUME NEW r \in A!Routes, NEW c \in Callers, request = [route |-> r, caller |-> c],
               OnItsWay(r, c, stage, status)
        PROVE  A!ArTypeOK
    BY <2>2, CallersAssumption DEF A!ArTypeOK, OnItsWay
  <2>3. QED
    BY <2>1, <2>2 DEF ReqInv
<1>2. CASE stage # "over"
  BY <1>1, <1>2 DEF A!DocumentedAccess, A!ViewersOnlyLook
<1>3. CASE stage = "over"
  <2>1. PICK r \in A!Routes, c \in Callers :
          request = [route |-> r, caller |-> c] /\ OnItsWay(r, c, stage, status)
    BY <1>3, CallersAssumption DEF ReqInv
  <2>2. A!route = r /\ A!by = c
    BY <2>1 DEF A!route, A!by
  <2>3. A!DocumentedAccess
    BY <1>3, <2>1, <2>2, AnswersAreDocumented DEF A!DocumentedAccess
  <2>4. A!ViewersOnlyLook
    <3> SUFFICES ASSUME r.scope = "workspace", status # "unauthorized"
                 PROVE  /\ c.role = None => status = "notFound"
                        /\ c.role = "viewer" /\ ~A!Reads(r.op) /\ "allow" \notin c.effects
                             => status = "forbidden"
      BY <2>2 DEF A!ViewersOnlyLook
    <3>1. status \in {"ok", "forbidden", "notFound"}
      BY <1>3, <2>1 DEF OnItsWay, A!Statuses
    <3>2. c.role = None => status = "notFound"
      BY <1>3, <2>1, <3>1 DEF OnItsWay
    <3>3. ASSUME c.role = "viewer", ~A!Reads(r.op), "allow" \notin c.effects
          PROVE  status = "forbidden"
      <4>1. r.asks # A!NoKey /\ r.asks \notin A!WorkspaceSystemRoles["viewer"]
        BY <3>3, TablesAssumption DEF A!TablesAgree
      <4>2. ~Permitted(r, c)
        <5>1. r.onResource \in BOOLEAN
          BY RouteType
        <5>2. QED
          BY <3>3, <4>1, <5>1 DEF Permitted, A!DecideResourcePermission
      <4>3. c.role # None
        BY <3>3, CallersAssumption
      <4>4. QED
        BY <1>3, <2>1, <3>1, <4>1, <4>2, <4>3 DEF OnItsWay
    <3>4. QED
      BY <3>2, <3>3
  <2>5. QED
    BY <1>1, <2>3, <2>4
<1>4. QED
  BY <1>2, <1>3

--------------------------------------------------------------------------------
(* The whole: a step of one part leaves the others where they are.         *)
LEMMA AccessInvInit == MCInit => AccessInv
BY WsInvInit, RoleInvInit, ConsoleInvInit DEF MCInit, AccessInv

LEMMA AccessInvStep == AccessInv /\ [MCNext]_mcVars => AccessInv'
<1> SUFFICES ASSUME AccessInv, [MCNext]_mcVars PROVE AccessInv'
  OBVIOUS
<1>1. [WsNext]_wsVars
  BY DEF MCNext, mcVars
<1>2. [R!Next]_rVars
  BY DEF MCNext, mcVars
<1>3. [P!PrNext]_pVars
  BY DEF MCNext, mcVars
<1>4. QED
  BY <1>1, <1>2, <1>3, WsInvStep, RoleInvStep, ConsoleInvStep DEF AccessInv

(* A workspace keeps an owner and the console a superadmin, and no plan is *)
(* exceeded by more than the requests that overlapped its check, whatever  *)
(* the order of the database's statements.                                 *)
THEOREM AccessMembershipHolds == MCSpec => []MembershipHolds
<1>1. AccessInv => MembershipHolds
  BY WsInvSays, RoleInvSays, ConsoleInvSays DEF AccessInv, MembershipHolds
<1>2. QED
  BY <1>1, AccessInvInit, AccessInvStep, PTL DEF MCSpec

(* A membership holds exactly the built-in role its string names, unless   *)
(* two writers of it overlapped or one is on its way.                      *)
THEOREM AccessOneBuiltInRole == MCSpec => []OneBuiltInRole
<1>1. AccessInv => OneBuiltInRole
  BY RoleInvSays DEF AccessInv, OneBuiltInRole
<1>2. QED
  BY <1>1, AccessInvInit, AccessInvStep, PTL DEF MCSpec

(* Nobody composes a role or an API key, in a workspace or in the console, *)
(* that gives what they themselves never held, whatever a cache answered.  *)
THEOREM AccessGiveOnlyWhatWasHeld == MCSpec => []GiveOnlyWhatWasHeld
<1>1. AccessInv => GiveOnlyWhatWasHeld
  BY RoleInvSays, ConsoleInvSays DEF AccessInv, GiveOnlyWhatWasHeld
<1>2. QED
  BY <1>1, AccessInvInit, AccessInvStep, PTL DEF MCSpec

(* Whoever calls: what the API document says an operation needs is what    *)
(* its route asks, nobody outside a workspace is told of it, and a viewer  *)
(* changes nothing in one (app.ts and the guards of src/api/middleware).   *)
(* That the two tables agree row by row is evaluated (TablesAssumption);   *)
(* what the guards make of them is proved here, for every set of callers.  *)
THEOREM AccessRoutesAreGuarded == MCSpec => []RoutesAreGuarded
<1>1. MCInit => ReqInv
  BY ReqInvInit DEF MCInit
<1>2. ReqInv /\ [MCNext]_mcVars => ReqInv'
  <2>1. [MCNext]_mcVars => [A!ArNext]_aVars
    BY DEF MCNext, mcVars
  <2>2. QED
    BY <2>1, ReqInvStep
<1>3. ReqInv => RoutesAreGuarded
  BY ReqInvSays DEF RoutesAreGuarded
<1>4. QED
  BY <1>1, <1>2, <1>3, PTL DEF MCSpec
================================================================================
