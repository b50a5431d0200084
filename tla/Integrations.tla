------------------------------- MODULE Integrations ------------------------------
(***************************************************************************)
(* Connections to outside services, owned by a workspace or by the whole   *)
(* deployment, and the runs that name one (integration.service.ts,         *)
(* connection-scope.ts, tools/integrations.ts).  A name comes from the     *)
(* model and may be spelt like the id of another workspace's row, so ids   *)
(* and names are sequences of parts and composing one is concatenation.    *)
(***************************************************************************)
EXTENDS Integers, Sequences, FiniteSets

CONSTANTS Workspaces,
          Slug,      \* the one slug connections are saved under
          Savers, Runs, Checks,
          MaxSaves,  \* bound: saves that begin
          None

VARIABLES integration, \* the integration rows, by id
          saving,      \* saves in progress, with what each found
          used,        \* the row and key each run last called with
          keys,        \* history: the key last given for each row
          checking,    \* the owner whose row each check found, or None
          tested,      \* <<who asked, whose key was used>> of the last check
          vanished,    \* history: a row was removed during its owner's check
          saves

intVars == <<integration, saving, used, keys, checking, tested, vanished, saves>>

Owners == Workspaces \cup {None}  \* None: the whole deployment

(* composeConnectionId and rowId: a platform-wide id is the slug itself.   *)
ComposeConnectionId(workspace, name) == <<workspace>> \o name
RowId(owner, name) == IF owner = None THEN name ELSE ComposeConnectionId(owner, name)

Slugs == {<<Slug>>}
Names == Slugs \cup {RowId(w, <<Slug>>) : w \in Workspaces}
Ids == {RowId(o, <<Slug>>) : o \in Owners}
Kinds == {"http_api", "email"}

IntegrationRow == [owner : Owners, kind : Kinds, enabled : BOOLEAN, secret : Nat]
Save == [owner : Owners, found : BOOLEAN, kind : Kinds, enabled : BOOLEAN,
         secret : Nat]
Use == [by : Workspaces, id : Ids, row : IntegrationRow, owned : BOOLEAN]

IntTypeOK ==
  /\ integration \in [Ids -> IntegrationRow \cup {None}]
  /\ saving \in [Savers -> Save \cup {None}]
  /\ used \in [Runs -> Use \cup {None}]
  /\ checking \in [Checks -> Owners \cup {"idle"}]
  /\ tested \in (Owners \X Owners) \cup {None} /\ vanished \in BOOLEAN
  /\ keys \in [Ids -> Nat] /\ saves \in 0 .. MaxSaves

IntInit ==
  /\ integration = [i \in Ids |-> None] /\ saving = [s \in Savers |-> None]
  /\ used = [r \in Runs |-> None] /\ keys = [i \in Ids |-> 0]
  /\ checking = [k \in Checks |-> "idle"] /\ tested = None /\ vanished = FALSE
  /\ saves = 0

--------------------------------------------------------------------------------
(* save: a workspace may not bring its own mail; whether the id is taken   *)
(* is read before the row is written.  A secret of 0 is one left out.      *)
BeginSave(s, owner, kind, enabled, given) ==
  /\ saving[s] = None /\ saves < MaxSaves /\ saves' = saves + 1
  /\ owner # None => kind # "email"
  /\ saving' = [saving EXCEPT ![s] =
       [owner |-> owner, found |-> integration[RowId(owner, <<Slug>>)] # None,
        kind |-> kind, enabled |-> enabled, secret |-> IF given THEN saves + 1 ELSE 0]]
  /\ UNCHANGED <<integration, used, keys, checking, tested, vanished>>

(* An omitted secret keeps the stored one.                                 *)
Saved(row, save) ==
  [owner |-> save.owner, kind |-> save.kind, enabled |-> save.enabled,
   secret |-> IF save.secret = 0 /\ row # None THEN row.secret ELSE save.secret]

(* An update of a row that is gone and an insert of one that is there are  *)
(* both refused.                                                           *)
FinishSave(s) ==
  /\ saving[s] # None /\ saving' = [saving EXCEPT ![s] = None]
  /\ LET save == saving[s]  id == RowId(save.owner, <<Slug>>) IN
     IF save.found = (integration[id] # None)
       THEN /\ integration' = [integration EXCEPT ![id] = Saved(@, save)]
            /\ keys' = IF save.secret = 0 THEN keys
                       ELSE [keys EXCEPT ![id] = save.secret]
       ELSE UNCHANGED <<integration, keys>>
  /\ UNCHANGED <<used, checking, tested, vanished, saves>>

(* remove deletes by id and owner.                                         *)
RemoveIntegration(owner) ==
  LET id == RowId(owner, <<Slug>>) IN
  /\ integration[id] # None /\ integration[id].owner = owner
  /\ integration' = [integration EXCEPT ![id] = None]
  /\ keys' = [keys EXCEPT ![id] = 0]
  /\ vanished' = (vanished \/ \E k \in Checks : checking[k] = owner)
  /\ UNCHANGED <<saving, used, checking, tested, saves>>

--------------------------------------------------------------------------------
(* connectionCandidateIds: what a name may mean, most specific first.      *)
ConnectionCandidateIds(workspace, name) == {ComposeConnectionId(workspace, name), name}

(* canWorkspaceUse, which listResolvable asks for in its query as well.    *)
CanWorkspaceUse(row, workspace) == row.owner \in {workspace, None}

ListResolvable(workspace, name) ==
  {i \in Ids \cap ConnectionCandidateIds(workspace, name) :
     IF integration[i] = None THEN FALSE
     ELSE CanWorkspaceUse(integration[i], workspace)}

(* chooseConnection: the workspace's own row wins.                         *)
Wins(id, usable) ==
  integration[id].owner # None \/ \A i \in usable : integration[i].owner = None

(* requireIntegration: the row has to be of the kind the tool asks for,    *)
(* and on; the call that follows uses the key it read.                     *)
RequireIntegration(r, workspace, name, kind) ==
  \E id \in ListResolvable(workspace, name) :
    /\ Wins(id, ListResolvable(workspace, name))
    /\ integration[id].kind = kind /\ integration[id].enabled
    /\ used' = [used EXCEPT ![r] =
         [by |-> workspace, id |-> id, row |-> integration[id],
          owned |-> name = <<Slug>> /\ integration[RowId(workspace, name)] # None]]
    /\ UNCHANGED <<integration, saving, keys, checking, tested, vanished, saves>>

(* check: the owner's row is looked up, and an email connection has nothing *)
(* to call ...                                                             *)
BeginCheck(k, owner) ==
  LET row == integration[RowId(owner, <<Slug>>)] IN
  /\ checking[k] = "idle" /\ row # None /\ row.owner = owner /\ row.kind # "email"
  /\ checking' = [checking EXCEPT ![k] = owner]
  /\ UNCHANGED <<integration, saving, used, keys, tested, vanished, saves>>

(* ... then the name is resolved as a run resolves it, the host is called  *)
(* with that row's key and the outcome goes on that row.                   *)
Resolvable(owner) ==
  IF owner = None
    THEN {i \in {<<Slug>>} : integration[i] # None}
    ELSE ListResolvable(owner, <<Slug>>)

FinishCheck(k) ==
  LET owner == checking[k] IN
  /\ owner # "idle" /\ checking' = [checking EXCEPT ![k] = "idle"]
  /\ \/ \E id \in Resolvable(owner) :
          /\ Wins(id, Resolvable(owner)) /\ tested' = <<owner, integration[id].owner>>
     \/ Resolvable(owner) = {} /\ UNCHANGED tested
  /\ UNCHANGED <<integration, saving, used, keys, vanished, saves>>

IntNext ==
  \/ \E k \in Checks : FinishCheck(k) \/ \E o \in Owners : BeginCheck(k, o)
  \/ \E s \in Savers : FinishSave(s)
  \/ \E s \in Savers, o \in Owners, kind \in Kinds, enabled \in BOOLEAN, given \in BOOLEAN :
       BeginSave(s, o, kind, enabled, given)
  \/ \E o \in Owners : RemoveIntegration(o)
  \/ \E r \in Runs, w \in Workspaces, name \in Names, kind \in Kinds :
       RequireIntegration(r, w, name, kind)

--------------------------------------------------------------------------------
(* However a run spells a name, what it calls with is its workspace's row  *)
(* or the deployment's, its own when it has one; no workspace owns a       *)
(* connection that sends mail; a row keeps the key it was last given; and  *)
(* a check uses the key of the one who asked, unless the row vanished.     *)
UsesItsOwnKeys ==
  /\ IntTypeOK
  /\ \A r \in Runs :
       used[r] # None =>
         /\ used[r].row.owner \in {used[r].by, None}
         /\ used[r].owned => used[r].row.owner = used[r].by
         /\ used[r].row.kind = "email" => used[r].row.owner = None
  /\ \A i \in Ids : integration[i] # None => integration[i].secret = keys[i]
  /\ tested # None /\ ~vanished => tested[1] = tested[2]
================================================================================
