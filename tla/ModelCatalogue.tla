------------------------------ MODULE ModelCatalogue -----------------------------
(***************************************************************************)
(* One model of one provider: the row an administrator or an import writes *)
(* over its built-in definition, the snapshot of the catalogue each        *)
(* process keeps for TTL_MS, what a plan may run, and the choice of a      *)
(* workspace (ai/catalogue.ts, provider.service.ts, model.service.ts); and *)
(* the provider's stored key, the copy in each snapshot, and the checks an *)
(* administrator asks for, which call the provider with the snapshot's key *)
(* and write their verdict on the row.                                     *)
(***************************************************************************)
EXTENDS Integers, FiniteSets

CONSTANTS Processes,   \* the API and the worker, each with its own snapshot
          Editors,     \* administrators' patches and imports in progress
          MaxWrites,   \* bound: writes to the model's row
          MaxExpiries, \* bound: snapshots that pass their TTL
          Checks,      \* checks of a key in progress
          MaxKeys,     \* bound: keys an administrator stores
          None

VARIABLES model,    \* the provider_model row, None when the built-in answers
          snapshot, \* each process's snapshot, None when it was cleared
          loading,  \* what a load in flight has read, None when there is none
          editing,  \* the patch or import each editor works on
          wanted,   \* history: whether an administrator wants it offered
          overlapped, \* history: a patch or an import overlapped another write
          expired,  \* history: processes whose snapshot expired since the last write
          writer,   \* history: the process that wrote last, None if it had a load
                    \* in flight
          access,   \* the plan's list and default: plan_model_access
          default,  \* it is the platform's default
          chosen,   \* the workspace chose this model
          writes, expiries

catVars == <<model, snapshot, loading, editing, wanted, overlapped, expired, writer,
             access, default, chosen, writes, expiries>>

VARIABLES credential, \* the provider_credential row: its key and the last verdict
          cached,     \* the key in each process's snapshot, None when it was cleared
          valid,      \* keys the provider accepts
          checking,   \* the key each check calls with
          verdict,    \* history: the key the stored verdict is about
          overtaken,  \* history: a check began or ended with a key that was not stored
          saved       \* keys stored so far

keyVars == <<credential, cached, valid, checking, verdict, overtaken, saved>>

Tiers == {"economy", "premium"}
ProviderModelRow == [enabled : BOOLEAN, tier : Tiers]
Snapshot == [model : ProviderModelRow, fresh : BOOLEAN]
Edit == [kind : {"patch", "import"}, row : ProviderModelRow]

(* A plan's list for the capability: silent, this model, or only others;   *)
(* and whether its default is this model.                                  *)
Access == [allowed : {"silent", "listed", "others"}, default : BOOLEAN]

CatTypeOK ==
  /\ model \in ProviderModelRow \cup {None}
  /\ snapshot \in [Processes -> Snapshot \cup {None}]
  /\ loading \in [Processes -> ProviderModelRow \cup {None}]
  /\ editing \in [Editors -> Edit \cup {None}]
  /\ wanted \in BOOLEAN /\ overlapped \in BOOLEAN
  /\ expired \subseteq Processes /\ writer \in Processes \cup {None}
  /\ access \in Access /\ default \in BOOLEAN /\ chosen \in BOOLEAN
  /\ writes \in 0 .. MaxWrites /\ expiries \in 0 .. MaxExpiries

BuiltIn == [enabled |-> TRUE, tier |-> "economy"]

CatInit ==
  /\ model = None
  /\ snapshot = [p \in Processes |-> None] /\ loading = [p \in Processes |-> None]
  /\ editing = [e \in Editors |-> None] /\ wanted = TRUE /\ overlapped = FALSE
  /\ expired = {} /\ writer = None
  /\ access = [allowed |-> "silent", default |-> FALSE] /\ default = FALSE /\ chosen = FALSE
  /\ writes = 0 /\ expiries = 0

--------------------------------------------------------------------------------
(* load: the row over the built-in definition.                             *)
Merged == IF model = None THEN BuiltIn ELSE model

(* current: a snapshot past its TTL, or none, starts one load.             *)
BeginLoad(p) ==
  /\ loading[p] = None
  /\ IF snapshot[p] = None THEN TRUE ELSE ~snapshot[p].fresh
  /\ loading' = [loading EXCEPT ![p] = Merged]
  /\ UNCHANGED <<model, snapshot, editing, wanted, overlapped, expired, writer,
                 access, default, chosen, writes, expiries>>

FinishLoad(p) ==
  /\ loading[p] # None /\ loading' = [loading EXCEPT ![p] = None]
  /\ snapshot' = [snapshot EXCEPT ![p] = [model |-> loading[p], fresh |-> TRUE]]
  /\ UNCHANGED <<model, editing, wanted, overlapped, expired, writer, access,
                 default, chosen, writes, expiries>>

SnapshotExpires(p) ==
  /\ IF snapshot[p] = None THEN FALSE ELSE snapshot[p].fresh
  /\ expiries < MaxExpiries /\ expiries' = expiries + 1
  /\ snapshot' = [snapshot EXCEPT ![p].fresh = FALSE]
  /\ expired' = expired \cup {p}
  /\ UNCHANGED <<model, loading, editing, wanted, overlapped, writer, access,
                 default, chosen, writes>>

(* What current returns without waiting, None when it has to load.         *)
Current(p) ==
  IF snapshot[p] = None THEN None
  ELSE IF snapshot[p].fresh THEN snapshot[p] ELSE None

--------------------------------------------------------------------------------
(* invalidateCatalogue: the writer's own snapshot is cleared; a load it    *)
(* has in flight is not.                                                   *)
InvalidateCatalogue(p) == snapshot' = [snapshot EXCEPT ![p] = None]

Written(p) ==
  /\ writes < MaxWrites /\ writes' = writes + 1 /\ InvalidateCatalogue(p)
  /\ expired' = {} /\ writer' = IF loading[p] = None THEN p ELSE None
  /\ UNCHANGED <<loading, access, default, chosen, expiries>>

(* A write while an editor is at work overtakes what that editor read.     *)
Overtakes(e) == overlapped' = (overlapped \/ \E d \in Editors \ {e} : editing[d] # None)

(* upsertModel from the form writes the whole row.                         *)
UpsertModel(p, row) ==
  /\ model' = row /\ wanted' = row.enabled /\ Overtakes(None) /\ Written(p)
  /\ UNCHANGED editing

(* removeModel: the built-in definition answers again.                     *)
RemoveModel(p) ==
  /\ model # None /\ model' = None /\ wanted' = TRUE /\ Overtakes(None) /\ Written(p)
  /\ UNCHANGED editing

(* patchModel starts from the snapshot, an import from the rows.           *)
BeginEdit(e, p, kind) ==
  /\ editing[e] = None /\ (kind = "patch" => Current(p) # None)
  /\ LET read == IF kind = "import" THEN Merged ELSE Current(p).model IN
     /\ editing' = [editing EXCEPT ![e] = [kind |-> kind, row |-> read]]
     /\ overlapped' = (overlapped \/ read # Merged)
  /\ UNCHANGED <<model, snapshot, loading, wanted, expired, writer, access, default, chosen,
                 writes, expiries>>

\* Mutant: an import offers every model it lists.
Imported_Offered(row, tier) == [enabled |-> TRUE, tier |-> tier]

(* importModels: new prices and the tier they give; a model that was off   *)
(* stays off.                                                              *)
Imported(row, tier) == [enabled |-> row.enabled, tier |-> tier]

(* The edit is written as a full row: a patch of the tier, or an import.   *)
FinishEdit(e, p, tier) ==
  /\ editing[e] # None /\ editing' = [editing EXCEPT ![e] = None]
  /\ model' = IF editing[e].kind = "import" THEN Imported(editing[e].row, tier)
              ELSE [editing[e].row EXCEPT !.tier = tier]
  /\ Overtakes(e) /\ Written(p) /\ UNCHANGED wanted

--------------------------------------------------------------------------------
(* assertAllowed, assertDefault: listed and default models are offered,    *)
(* and a default is on the list when there is one.                         *)
ValidAccess(p, next) ==
  /\ (next.allowed = "listed" \/ next.default) => Current(p).model.enabled
  /\ next.default => next.allowed # "others"

SetPlanModelAccess(p, next) ==
  /\ Current(p) # None /\ ValidAccess(p, next) /\ next # access /\ access' = next
  /\ UNCHANGED <<model, snapshot, loading, editing, wanted, overlapped, expired,
                 writer, default, chosen, writes, expiries>>

SetPlatformDefaults(p) ==
  /\ ~default /\ Current(p) # None /\ Current(p).model.enabled /\ default' = TRUE
  /\ UNCHANGED <<model, snapshot, loading, editing, wanted, overlapped, expired, writer,
                 access, chosen, writes, expiries>>

(* planAllowsModel: the list when there is one, else the tier.             *)
PlanAllowsModel(definition) ==
  IF access.allowed = "silent" THEN definition.tier = "economy"
  ELSE access.allowed = "listed"

(* assertSelectable, on the snapshot of the process that asks.             *)
AssertSelectable(p) ==
  /\ Current(p) # None /\ Current(p).model.enabled
  /\ PlanAllowsModel(Current(p).model)

(* updateSettings: the workspace chooses it.                               *)
UpdateSettings(p) ==
  /\ ~chosen /\ AssertSelectable(p) /\ chosen' = TRUE
  /\ UNCHANGED <<model, snapshot, loading, editing, wanted, overlapped, expired,
                 writer, access, default, writes, expiries>>

(* getSettings: the workspace's choice, else the plan's default, else the  *)
(* platform's.                                                             *)
Selected == chosen \/ access.default \/ default

(* resolveChatModel, resolveEmbeddingModel: a choice or a default is       *)
(* checked again on the way out.                                           *)
MayRun(p) == Selected /\ AssertSelectable(p)

CatNext ==
  \/ \E p \in Processes :
       \/ BeginLoad(p) \/ FinishLoad(p) \/ SnapshotExpires(p) \/ RemoveModel(p)
       \/ (\E row \in ProviderModelRow : UpsertModel(p, row))
       \/ (\E next \in Access : SetPlanModelAccess(p, next))
       \/ UpdateSettings(p) \/ SetPlatformDefaults(p)
  \/ \E e \in Editors, p \in Processes :
       \/ (\E kind \in {"patch", "import"} : BeginEdit(e, p, kind))
       \/ (\E tier \in Tiers : FinishEdit(e, p, tier))

--------------------------------------------------------------------------------
(* A process that answers from a snapshot behind the database has not let  *)
(* one expire since the last write.  What a run may resolve its plan       *)
(* allows, and an administrator offers, unless the process is behind.  A   *)
(* plan's default is one its list allows, and a model is offered exactly   *)
(* when an administrator wants it, unless edits overlapped.                *)
Behind(p) == Current(p).model # Merged

BehindByOneTtl ==
  /\ CatTypeOK
  /\ \A p \in Processes :
       /\ Current(p) # None /\ Behind(p) => p \notin expired
       /\ MayRun(p) =>
            /\ PlanAllowsModel(Current(p).model)
            /\ Behind(p) \/ overlapped \/ wanted
  /\ access.default => access.allowed # "others"
  /\ ~overlapped => Merged.enabled = wanted

(* The process that made a change sees it at once: its own snapshot is     *)
(* what the database holds (catalogue.ts).                                 *)
WriterSeesItsWrite ==
  writer # None /\ Current(writer) # None => ~Behind(writer)

--------------------------------------------------------------------------------
(* The key of the provider.                                                *)
Key == 1 .. MaxKeys
ProviderCredentialRow == [key : Key, lastCheckOk : BOOLEAN \cup {None}]
NoKey == 0  \* a snapshot taken while no key was stored

KeyTypeOK ==
  /\ credential \in ProviderCredentialRow \cup {None}
  /\ cached \in [Processes -> Key \cup {NoKey, None}]
  /\ valid \subseteq Key /\ checking \in [Checks -> Key \cup {None}]
  /\ verdict \in Key \cup {None} /\ overtaken \in BOOLEAN /\ saved \in 0 .. MaxKeys

KeyInit ==
  /\ credential = None /\ cached = [p \in Processes |-> None] /\ valid \in SUBSET Key
  /\ checking = [k \in Checks |-> None] /\ verdict = None /\ overtaken = FALSE
  /\ saved = 0

Stored == IF credential = None THEN NoKey ELSE credential.key

--------------------------------------------------------------------------------
(* A new key drops what the last check said about the old one.             *)
Saved(key) == [key |-> key, lastCheckOk |-> None]

SaveCredential(p) ==
  /\ saved < MaxKeys /\ saved' = saved + 1 /\ credential' = Saved(saved + 1)
  /\ cached' = [cached EXCEPT ![p] = None]
  /\ verdict' = IF credential'.lastCheckOk = None THEN None ELSE verdict
  /\ UNCHANGED <<valid, checking, overtaken>>

RemoveCredential(p) ==
  /\ credential # None /\ credential' = None /\ verdict' = None
  /\ cached' = [cached EXCEPT ![p] = None]
  /\ UNCHANGED <<valid, checking, overtaken, saved>>

(* load: a snapshot is taken where there is none, and runs out after its   *)
(* TTL.                                                                    *)
Load(p) ==
  /\ cached[p] = None /\ cached' = [cached EXCEPT ![p] = Stored]
  /\ UNCHANGED <<credential, valid, checking, verdict, overtaken, saved>>

Expire(p) ==
  /\ cached[p] # None /\ cached' = [cached EXCEPT ![p] = None]
  /\ UNCHANGED <<credential, valid, checking, verdict, overtaken, saved>>

--------------------------------------------------------------------------------
(* checkCredential: the row has to be there, the key called with is the    *)
(* snapshot's (requireCredential).                                         *)
BeginCheck(k, p) ==
  /\ checking[k] = None /\ credential # None /\ cached[p] \in Key
  /\ checking' = [checking EXCEPT ![k] = cached[p]]
  /\ overtaken' = (overtaken \/ cached[p] # credential.key)
  /\ UNCHANGED <<credential, cached, valid, verdict, saved>>

(* recordCheck: the answer goes on the provider's row, whatever key it has *)
(* by now; a key that is refused and a call that fails read the same.      *)
RecordCheck(k, answered) ==
  /\ checking[k] # None /\ checking' = [checking EXCEPT ![k] = None]
  /\ credential' = IF credential = None THEN None
                   ELSE [credential EXCEPT !.lastCheckOk =
                           answered /\ checking[k] \in valid]
  /\ verdict' = IF credential = None THEN verdict ELSE checking[k]
  /\ overtaken' = (overtaken \/ (credential # None /\ credential.key # checking[k]))
  /\ UNCHANGED <<cached, valid, saved>>

KeyNext ==
  \/ \E p \in Processes :
       \/ SaveCredential(p) \/ RemoveCredential(p) \/ Load(p) \/ Expire(p)
       \/ \E k \in Checks : BeginCheck(k, p)
  \/ \E k \in Checks, answered \in BOOLEAN : RecordCheck(k, answered)

--------------------------------------------------------------------------------
(* The verdict a screen shows is about the key that is stored, unless a    *)
(* check was overtaken by a new key or called with a stale snapshot's; and *)
(* a key shown as working is one the provider accepts.                     *)
VerdictIsAboutTheKey ==
  /\ KeyTypeOK
  /\ credential # None /\ credential.lastCheckOk # None /\ ~overtaken =>
       /\ verdict = credential.key
       /\ credential.lastCheckOk => credential.key \in valid
================================================================================
