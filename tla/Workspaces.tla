------------------------------- MODULE Workspaces ------------------------------
(***************************************************************************)
(* One workspace's members, invitations, counted resources and projects:   *)
(* workspace.service.ts, project.service.ts and the guards of              *)
(* billing.service.ts, which count first and act later.  Membership rows   *)
(* are Better Auth's; its calls are modelled by the rows they leave.       *)
(***************************************************************************)
EXTENDS Integers, FiniteSets

CONSTANTS Users, Requests, PlanNames, FreePlan,
          SeatLimit,      \* seatLimit of each plan, None for no limit
          ResourceLimit,  \* agentLimit of each plan, None for no limit
          MaxChanges, None

ASSUME LimitAssumption ==
  /\ FreePlan \in PlanNames
  /\ SeatLimit \in [PlanNames -> Nat \cup {None}]
  /\ ResourceLimit \in [PlanNames -> Nat \cup {None}]
  /\ None \notin Nat \cup PlanNames /\ IsFiniteSet(Users) /\ IsFiniteSet(Requests)
  /\ MaxChanges \in Nat

VARIABLES member,    \* member.role by user, None for no membership
          pending,   \* users with a pending invitation
          plan,      \* the subscription's plan, None before provisioning
          agents,    \* how many agents (or knowledge bases) there are
          project,   \* one project: None, "active", "archived"
          call,      \* what each request has checked and is about to do
          started,   \* how many requests have begun
          seatPeak,  \* history: the highest seat limit so far, None if unlimited
          agentPeak, \* history: the same for agents
          overlapped \* history: two requests that guard the last owner overlapped

wsVars == <<member, pending, plan, agents, project, call, started, seatPeak,
            agentPeak, overlapped>>

Roles == {"owner", "member"}

MemberRow == [Users -> Roles \cup {None}]
ProjectRow == {None, "active", "archived"}
Call ==
  [op : {"create", "invite", "setRole", "remove", "createAgent", "editProject",
         "removeProject"},
   on : Users \cup {None}, to : Roles \cup {None}, stage : {"hook", "act"}]

WsTypeOK ==
  /\ member \in MemberRow /\ pending \subseteq Users
  /\ plan \in PlanNames \cup {None} /\ agents \in Nat /\ project \in ProjectRow
  /\ call \in [Requests -> Call \cup {None}] /\ started \in 0 .. MaxChanges
  /\ seatPeak \in Nat \cup {None} /\ agentPeak \in Nat \cup {None}
  /\ overlapped \in BOOLEAN

WsInit ==
  /\ member = [u \in Users |-> None] /\ pending = {} /\ plan = None
  /\ agents = 0 /\ project = None /\ call = [q \in Requests |-> None]
  /\ started = 0 /\ overlapped = FALSE
  /\ seatPeak = SeatLimit[FreePlan] /\ agentPeak = ResourceLimit[FreePlan]

--------------------------------------------------------------------------------
(* getPlan: a workspace whose billing rows are missing is on the free plan.*)
GetPlan == IF plan = None THEN FreePlan ELSE plan

MembersNow == {u \in Users : member[u] # None}
Owners == {u \in Users : member[u] = "owner"}
SeatsUsed == Cardinality(MembersNow) + Cardinality(pending)

Below(used, limit) == limit = None \/ used < limit

\* Mutant: pending invitations do not count.
SeatAvailable_MembersOnly == Below(Cardinality(MembersNow), SeatLimit[GetPlan])

(* assertSeatAvailable: members and pending invitations under the limit.   *)
SeatAvailable == Below(SeatsUsed, SeatLimit[GetPlan])

(* assertWithinPlanLimit.                                                  *)
WithinPlanLimit == Below(agents, ResourceLimit[GetPlan])

(* assertNotLastOwner.                                                     *)
NotLastOwner(u) == member[u] = "owner" => Cardinality(Owners) > 1

Open(q, op, u, to, stage) ==
  /\ call[q] = None /\ started < MaxChanges /\ started' = started + 1
  /\ call' = [call EXCEPT ![q] = [op |-> op, on |-> u, to |-> to, stage |-> stage]]

Doing(q, op, stage) == call[q] # None /\ call[q].op = op /\ call[q].stage = stage
Close(q) == call' = [call EXCEPT ![q] = None]

Guarding ==
  {q \in Requests : call[q] # None /\ call[q].op \in {"setRole", "remove"}}

peaks == <<seatPeak, agentPeak>>

--------------------------------------------------------------------------------
(* workspaceService.create: Better Auth writes the workspace and its       *)
(* owner, then provisionWorkspace writes the billing rows.                 *)
CreateWorkspace(q) ==
  /\ MembersNow = {} /\ pending = {} /\ plan = None
  /\ \E u \in Users : /\ Open(q, "create", u, None, "act")
                      /\ member' = [member EXCEPT ![u] = "owner"]
  /\ UNCHANGED <<pending, plan, agents, project, peaks, overlapped>>

ProvisionWorkspace(q) ==
  /\ Doing(q, "create", "act")
  /\ plan' = IF plan = None THEN FreePlan ELSE plan
  /\ Close(q)
  /\ UNCHANGED <<member, pending, agents, project, started, peaks, overlapped>>

(* workspaceService.invite: the seat is checked by the service, and again  *)
(* by beforeCreateInvitation inside Better Auth, which then inserts.       *)
Invite(q) ==
  /\ Owners # {} /\ SeatAvailable
  /\ \E u \in Users \ (MembersNow \cup pending) : Open(q, "invite", u, None, "hook")
  /\ UNCHANGED <<member, pending, plan, agents, project, peaks, overlapped>>

BeforeCreateInvitation(q) ==
  /\ Doing(q, "invite", "hook")
  /\ IF SeatAvailable THEN call' = [call EXCEPT ![q].stage = "act"] ELSE Close(q)
  /\ UNCHANGED <<member, pending, plan, agents, project, started, peaks, overlapped>>

CreateInvitation(q) ==
  /\ Doing(q, "invite", "act")
  /\ pending' = IF member[call[q].on] = None THEN pending \cup {call[q].on} ELSE pending
  /\ Close(q)
  /\ UNCHANGED <<member, plan, agents, project, started, peaks, overlapped>>

(* cancelInvitation, and the invited person's answer.                      *)
CancelInvitation(u) ==
  /\ u \in pending /\ pending' = pending \ {u}
  /\ UNCHANGED <<member, plan, agents, project, call, started, peaks, overlapped>>

AcceptInvitation(u, r) ==
  /\ u \in pending /\ pending' = pending \ {u}
  /\ member' = [member EXCEPT ![u] = r]
  /\ UNCHANGED <<plan, agents, project, call, started, peaks, overlapped>>

(* updateMemberRole and removeMember: find the member, refuse the last     *)
(* owner, then call Better Auth.                                           *)
UpdateMemberRole(q) ==
  /\ \E u \in MembersNow, r \in Roles :
       NotLastOwner(u) /\ Open(q, "setRole", u, r, "act")
  /\ overlapped' = (overlapped \/ Guarding # {})
  /\ UNCHANGED <<member, pending, plan, agents, project, peaks>>

WriteMemberRole(q) ==
  LET u == call[q].on IN
  /\ Doing(q, "setRole", "act")
  /\ member' = [member EXCEPT ![u] = IF @ = None THEN None ELSE call[q].to]
  /\ Close(q)
  /\ UNCHANGED <<pending, plan, agents, project, started, peaks, overlapped>>

RemoveMember(q) ==
  /\ \E u \in MembersNow : NotLastOwner(u) /\ Open(q, "remove", u, None, "act")
  /\ overlapped' = (overlapped \/ Guarding # {})
  /\ UNCHANGED <<member, pending, plan, agents, project, peaks>>

DeleteMember(q) ==
  /\ Doing(q, "remove", "act")
  /\ member' = [member EXCEPT ![call[q].on] = None]
  /\ Close(q)
  /\ UNCHANGED <<pending, plan, agents, project, started, peaks, overlapped>>

(* changePlan: an administrator's write; seats already used stay used.     *)
Higher(peak, limit) ==
  IF peak = None \/ limit = None THEN None ELSE IF limit > peak THEN limit ELSE peak

ChangePlan(p) ==
  /\ plan # None /\ p # plan /\ started < MaxChanges /\ started' = started + 1
  /\ plan' = p
  /\ seatPeak' = Higher(seatPeak, SeatLimit[p])
  /\ agentPeak' = Higher(agentPeak, ResourceLimit[p])
  /\ UNCHANGED <<member, pending, agents, project, call, overlapped>>

(* agentService.create and knowledgeService.create under their plan limit. *)
CreateAgent(q) ==
  /\ MembersNow # {} /\ WithinPlanLimit
  /\ Open(q, "createAgent", None, None, "act")
  /\ UNCHANGED <<member, pending, plan, agents, project, peaks, overlapped>>

InsertAgent(q) ==
  /\ Doing(q, "createAgent", "act")
  /\ agents' = agents + 1
  /\ Close(q)
  /\ UNCHANGED <<member, pending, plan, project, started, peaks, overlapped>>

DeleteAgent ==
  /\ agents > 0 /\ agents' = agents - 1
  /\ UNCHANGED <<member, pending, plan, project, call, started, peaks, overlapped>>

--------------------------------------------------------------------------------
(* Projects.  create inserts under a unique slug; archive and restore set  *)
(* one column; update and remove act on the archived_at they read.         *)
CreateProject ==
  /\ MembersNow # {} /\ project = None /\ started < MaxChanges
  /\ started' = started + 1 /\ project' = "active"
  /\ UNCHANGED <<member, pending, plan, agents, call, peaks, overlapped>>

ArchiveProject ==
  /\ project = "active" /\ project' = "archived"
  /\ UNCHANGED <<member, pending, plan, agents, call, started, peaks, overlapped>>

RestoreProject ==
  /\ project = "archived" /\ project' = "active"
  /\ UNCHANGED <<member, pending, plan, agents, call, started, peaks, overlapped>>

UpdateProject(q) ==
  /\ project = "active" /\ Open(q, "editProject", None, None, "act")
  /\ UNCHANGED <<member, pending, plan, agents, project, peaks, overlapped>>

(* The write names only the fields of the form; a project that is gone by  *)
(* then answers that it was not found.                                     *)
WriteProject(q) ==
  /\ Doing(q, "editProject", "act") /\ Close(q)
  /\ UNCHANGED <<member, pending, plan, agents, project, started, peaks, overlapped>>

RemoveProject(q) ==
  /\ project = "archived" /\ Open(q, "removeProject", None, None, "act")
  /\ UNCHANGED <<member, pending, plan, agents, project, peaks, overlapped>>

DeleteProject(q) ==
  /\ Doing(q, "removeProject", "act") /\ project' = None /\ Close(q)
  /\ UNCHANGED <<member, pending, plan, agents, started, peaks, overlapped>>

--------------------------------------------------------------------------------
WsNext ==
  \/ \E q \in Requests :
       \/ CreateWorkspace(q) \/ ProvisionWorkspace(q) \/ Invite(q)
       \/ BeforeCreateInvitation(q) \/ CreateInvitation(q) \/ UpdateMemberRole(q)
       \/ WriteMemberRole(q) \/ RemoveMember(q) \/ DeleteMember(q)
       \/ CreateAgent(q) \/ InsertAgent(q) \/ UpdateProject(q) \/ WriteProject(q)
       \/ RemoveProject(q) \/ DeleteProject(q)
  \/ \E u \in Users : CancelInvitation(u)
  \/ \E u \in Users, r \in Roles : AcceptInvitation(u, r)
  \/ \E p \in PlanNames : ChangePlan(p)
  \/ DeleteAgent \/ CreateProject \/ ArchiveProject \/ RestoreProject

WsSpec == WsInit /\ [][WsNext]_wsVars

--------------------------------------------------------------------------------
(* The seat guard counts before it acts, so requests that overlap can pass *)
(* it together; all of them together pass the limit by one row less than   *)
(* there are requests, and never by more: pending invitations count, and   *)
(* accepting one takes no further seat.  A plan changed downwards keeps    *)
(* what was used under the higher one.                                     *)
SeatOvershoot ==
  seatPeak # None => SeatsUsed <= seatPeak + Cardinality(Requests) - 1

(* The same for the resources a plan counts.                               *)
ResourceOvershoot ==
  agentPeak # None => agents <= agentPeak + Cardinality(Requests) - 1

PlanLimitsHold == SeatOvershoot /\ ResourceOvershoot

(* A workspace that has members has an owner, unless two requests that     *)
(* demote or remove somebody overlapped.                                   *)
OwnerRemains == MembersNow # {} /\ ~overlapped => Owners # {}
================================================================================
