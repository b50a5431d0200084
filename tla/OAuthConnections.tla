---------------------------- MODULE OAuthConnections ----------------------------
(***************************************************************************)
(* One account a workspace connected at an OAuth provider: the             *)
(* authorizations that grant it, the tool calls that renew its access      *)
(* token, and the provider, which may rotate the refresh token or withdraw *)
(* the grant (oauth.service.ts, oauth.repository.ts, pkce.ts).             *)
(***************************************************************************)
EXTENDS Integers, FiniteSets

CONSTANTS Callers,    \* tool calls that want an access token
          Users,
          States,     \* state parameters, one per authorization
          MaxTokens,  \* bound: refresh tokens the provider issues
          MaxLost,    \* bound: token requests whose answer is lost
          None

VARIABLES registered, \* the deployment's app for the provider is stored and on
          connection, \* the oauth_connection row
          created,    \* rows inserted so far: the next one's id
          provider,   \* the refresh tokens it issued, honours and has withdrawn,
                      \* and whether it replaces one each time it is used
          state,      \* the authorization kept under each state parameter
          caller,     \* where each call is, with the row it read
          refreshing, \* the refresh lock in Redis: its holder
          completed,  \* history: <<state, who started it, who completed it>>
          crossed,    \* history: a write landed between a call's read and its own
          unanswered, \* history: token requests that brought no answer
          misread     \* history: a refresh of the row's token was turned away
                      \* for another reason than the token

oauVars == <<registered, connection, created, provider, state, caller, refreshing,
             completed, crossed, unanswered, misread>>

Token == 1 .. MaxTokens
OAuthConnectionRow ==
  [id : Nat, refresh : Token \cup {None}, expiring : BOOLEAN,
   status : {"active", "expired", "revoked"},
   renewable : BOOLEAN]  \* history: it came with a refresh token

Authorization ==
  [at : {"none", "started", "taken", "exchanged", "done"}, by : Users \cup {None},
   refresh : Token \cup {None}]

Call == [at : {"idle", "read", "waiting", "exchanging", "answered", "refused"},
         row : OAuthConnectionRow \cup {None}, answer : Token \cup {None}]

OauTypeOK ==
  /\ registered \in BOOLEAN /\ connection \in OAuthConnectionRow \cup {None}
  /\ created \in Nat
  /\ provider \in [issued : 0 .. MaxTokens, honoured : SUBSET Token,
                   withdrawn : SUBSET Token, rotates : BOOLEAN]
  /\ state \in [States -> Authorization]
  /\ caller \in [Callers -> Call] /\ refreshing \in Callers \cup {None}
  /\ completed \subseteq States \X Users \X Users
  /\ crossed \in BOOLEAN /\ unanswered \in 0 .. MaxLost /\ misread \in BOOLEAN

Idle == [at |-> "idle", row |-> None, answer |-> None]
NoState == [at |-> "none", by |-> None, refresh |-> None]

OauInit ==
  /\ registered = TRUE /\ connection = None /\ created = 0
  /\ provider \in [issued : {0}, honoured : {{}}, withdrawn : {{}}, rotates : BOOLEAN]
  /\ state = [s \in States |-> NoState]
  /\ caller = [c \in Callers |-> Idle] /\ refreshing = None
  /\ completed = {} /\ crossed = FALSE /\ unanswered = 0 /\ misread = FALSE

(* Calls between their read and the write that rests on it.                *)
Refreshing == {c \in Callers : caller[c].at # "idle"}

--------------------------------------------------------------------------------
(* saveClient: an administrator switches the app on or off.                *)
SaveClient ==
  /\ registered' = ~registered
  /\ UNCHANGED <<connection, created, provider, state, caller, refreshing,
                 completed, crossed, unanswered, misread>>

(* start: the state is kept for ten minutes with the person who asked.     *)
Start(s, u) ==
  /\ state[s].at = "none" /\ registered
  /\ state' = [state EXCEPT ![s] = [NoState EXCEPT !.at = "started", !.by = u]]
  /\ UNCHANGED <<registered, connection, created, provider, caller, refreshing,
                 completed, crossed, unanswered, misread>>

(* stateBelongsTo, for one provider.                                       *)
StateBelongsTo(s, u) == state[s].by = u

(* complete, up to the exchange: the state is read and deleted in one      *)
(* step, whoever brings it.                                                *)
TakeState(s, u) ==
  /\ state[s].at = "started"
  /\ IF StateBelongsTo(s, u)
       THEN /\ state' = [state EXCEPT ![s].at = "taken"]
            /\ completed' = completed \cup {<<s, state[s].by, u>>}
       ELSE state' = [state EXCEPT ![s].at = "done"] /\ UNCHANGED completed
  /\ UNCHANGED <<registered, connection, created, provider, caller, refreshing,
                 crossed, unanswered, misread>>

(* The provider issues one more refresh token, in place of those given.    *)
Issue(replaced) ==
  /\ provider.issued < MaxTokens
  /\ provider' = [provider EXCEPT !.issued = @ + 1,
                    !.honoured = (@ \ replaced) \cup {provider.issued + 1}]

(* The code is exchanged and the profile read: the provider adds a grant,  *)
(* with a refresh token or without one.                                    *)
ExchangeCode(s, renewable) ==
  /\ state[s].at = "taken" /\ registered
  /\ IF renewable THEN Issue({}) ELSE UNCHANGED provider
  /\ state' = [state EXCEPT ![s].at = "exchanged",
                 ![s].refresh = IF renewable THEN provider'.issued ELSE None]
  /\ UNCHANGED <<registered, connection, created, caller, refreshing, completed,
                 crossed, unanswered, misread>>

(* complete throws after the state was taken: no app is registered, or the *)
(* provider will not say whose account it is.                              *)
CompleteFails(s) ==
  /\ state[s].at = "exchanged" \/ (state[s].at = "taken" /\ ~registered)
  /\ state' = [state EXCEPT ![s] = [NoState EXCEPT !.at = "done"]]
  /\ UNCHANGED <<registered, connection, created, provider, caller, refreshing,
                 completed, crossed, unanswered, misread>>

(* upsert: the same account keeps its id and takes the new tokens.         *)
Connect(s) ==
  /\ state[s].at = "exchanged"
  /\ state' = [state EXCEPT ![s] = [NoState EXCEPT !.at = "done"]]
  /\ connection' = [id |-> IF connection = None THEN created + 1 ELSE connection.id,
                    refresh |-> state[s].refresh, expiring |-> FALSE,
                    status |-> "active", renewable |-> state[s].refresh # None]
  /\ created' = IF connection = None THEN created + 1 ELSE created
  /\ misread' = FALSE
  /\ crossed' = (crossed \/ \E c \in Refreshing : TRUE)
  /\ UNCHANGED <<registered, provider, caller, refreshing, completed, unanswered>>

(* disconnect: the row goes; the grant at the provider stays.              *)
Disconnect ==
  /\ connection # None /\ connection' = None
  /\ UNCHANGED <<registered, created, provider, state, caller, refreshing,
                 completed, crossed, unanswered, misread>>

--------------------------------------------------------------------------------
(* The provider's side: access tokens run out, grants are withdrawn.       *)
AccessExpires ==
  /\ connection # None /\ ~connection.expiring
  /\ connection' = [connection EXCEPT !.expiring = TRUE]
  /\ UNCHANGED <<registered, created, provider, state, caller, refreshing,
                 completed, crossed, unanswered, misread>>

Withdraw ==
  /\ provider.honoured # {}
  /\ provider' = [provider EXCEPT !.honoured = {},
                    !.withdrawn = @ \cup provider.honoured]
  /\ UNCHANGED <<registered, connection, created, state, caller, refreshing,
                 completed, crossed, unanswered, misread>>

--------------------------------------------------------------------------------
(* needsRefresh: the token runs out within the margin.                     *)
NeedsRefresh(row) == row.expiring

(* accessTokenFor reads the row; a token that is still good is returned.   *)
ReadConnection(c) ==
  /\ caller[c].at = "idle" /\ connection # None /\ connection.status = "active"
  /\ NeedsRefresh(connection)
  /\ caller' = [caller EXCEPT ![c] = [Idle EXCEPT !.at = "read", !.row = connection]]
  /\ UNCHANGED <<registered, connection, created, provider, state, refreshing,
                 completed, crossed, unanswered, misread>>

(* SET NX: the winner goes on with the row it read before it had the lock. *)
TakeLock(c) ==
  /\ caller[c].at = "read"
  /\ IF refreshing = None
       THEN refreshing' = c /\ caller' = [caller EXCEPT ![c].at = "exchanging"]
       ELSE caller' = [caller EXCEPT ![c].at = "waiting"] /\ UNCHANGED refreshing
  /\ UNCHANGED <<registered, connection, created, provider, state, completed,
                 crossed, unanswered, misread>>

(* The loser reads again after a beat.  If the row still needs a refresh   *)
(* it refreshes too, with the row it read first.                           *)
ReRead(c) ==
  /\ caller[c].at = "waiting"
  /\ caller' = IF connection # None /\ ~NeedsRefresh(connection)
                 THEN [caller EXCEPT ![c] = Idle]
                 ELSE [caller EXCEPT ![c].at = "exchanging"]
  /\ UNCHANGED <<registered, connection, created, provider, state, refreshing,
                 completed, crossed, unanswered, misread>>

(* The provider's half of a refresh.                                       *)
Renew(token) ==
  /\ token \in provider.honoured
  /\ IF provider.rotates THEN Issue({token}) ELSE UNCHANGED provider

(* The provider answers: it renews, or says that the token is none of its  *)
(* own any more.                                                           *)
Exchange(c) ==
  /\ caller[c].at = "exchanging" /\ caller[c].row.refresh # None /\ registered
  /\ \/ /\ Renew(caller[c].row.refresh)
        /\ caller' = [caller EXCEPT ![c].at = "answered", ![c].answer =
                        IF provider.rotates THEN provider'.issued ELSE None]
     \/ /\ caller[c].row.refresh \notin provider.honoured
        /\ caller' = [caller EXCEPT ![c].at = "refused"]
        /\ UNCHANGED provider
  /\ UNCHANGED <<registered, connection, created, state, refreshing, completed,
                 crossed, unanswered, misread>>

(* Any other answer without a token, of a rate limit, an outage or another *)
(* client secret: exchange throws for it alike.                            *)
TurnedAway(c) ==
  /\ caller[c].at = "exchanging" /\ caller[c].row.refresh # None /\ registered
  /\ caller' = [caller EXCEPT ![c].at = "refused"] /\ misread' = TRUE
  /\ UNCHANGED <<registered, connection, created, provider, state, refreshing,
                 completed, crossed, unanswered>>

(* A time-out or a body that is not JSON: the caller cannot tell whether   *)
(* the provider renewed.                                                   *)
ExchangeFails(c) ==
  /\ caller[c].at = "exchanging" /\ caller[c].row.refresh # None /\ registered
  /\ unanswered < MaxLost /\ unanswered' = unanswered + 1
  /\ Renew(caller[c].row.refresh) \/ UNCHANGED provider
  /\ caller' = [caller EXCEPT ![c].at = "refused"]
  /\ UNCHANGED <<registered, connection, created, state, refreshing, completed, crossed,
                 misread>>

(* update writes by id: a row that was removed meanwhile takes nothing.    *)
UpdateRow(c, row) ==
  connection' = IF connection # None /\ connection.id = caller[c].row.id
                  THEN row ELSE connection

(* The call ends: the lock is deleted, whoever holds it, and any other     *)
(* call still under way rests on a row that has changed.                   *)
Return(c) ==
  /\ caller' = [caller EXCEPT ![c] = Idle] /\ refreshing' = None
  /\ crossed' = (crossed \/ Refreshing # {c})
  /\ UNCHANGED <<registered, created, provider, state, completed, unanswered,
                 misread>>

\* Mutant: a provider that does not rotate leaves the row without a token.
Refreshed_Overwrites(row, answer) ==
  [row EXCEPT !.refresh = answer, !.expiring = FALSE, !.status = "active"]

(* Only a new refresh token replaces the stored one.                       *)
Refreshed(row, answer) ==
  [row EXCEPT !.refresh = IF answer = None THEN @ ELSE answer,
              !.expiring = FALSE, !.status = "active"]

SaveRefreshed(c) ==
  /\ caller[c].at = "answered"
  /\ UpdateRow(c, Refreshed(connection, caller[c].answer)) /\ Return(c)

(* Any failure of the exchange is recorded as a revocation.                *)
SaveRefused(c) ==
  /\ caller[c].at = "refused"
  /\ UpdateRow(c, [connection EXCEPT !.status = "revoked"]) /\ Return(c)

(* No refresh token was ever issued: the connection cannot be renewed.     *)
SaveExpired(c) ==
  /\ caller[c].at = "exchanging" /\ caller[c].row.refresh = None
  /\ UpdateRow(c, [connection EXCEPT !.status = "expired"]) /\ Return(c)

(* The app was switched off: resolveClient throws and the row is left.     *)
NoClient(c) ==
  /\ caller[c].at = "exchanging" /\ caller[c].row.refresh # None /\ ~registered
  /\ UNCHANGED connection /\ Return(c)

(* The process dies; its lock stays until its thirty seconds are over.     *)
CallerDies(c) ==
  /\ caller[c].at \in {"exchanging", "answered"} /\ unanswered < MaxLost
  /\ caller' = [caller EXCEPT ![c] = Idle] /\ unanswered' = unanswered + 1
  /\ UNCHANGED <<registered, connection, created, provider, state, refreshing,
                 completed, crossed, misread>>

LockExpires ==
  /\ refreshing # None /\ caller[refreshing].at = "idle" /\ refreshing' = None
  /\ UNCHANGED <<registered, connection, created, provider, state, caller,
                 completed, crossed, unanswered, misread>>

OauNext ==
  \/ \E s \in States, u \in Users : Start(s, u) \/ TakeState(s, u)
  \/ \E s \in States :
       Connect(s) \/ CompleteFails(s) \/ \E renewable \in BOOLEAN : ExchangeCode(s, renewable)
  \/ SaveClient \/ Disconnect \/ AccessExpires \/ Withdraw \/ LockExpires
  \/ \E c \in Callers :
       \/ ReadConnection(c) \/ TakeLock(c) \/ ReRead(c) \/ Exchange(c)
       \/ TurnedAway(c) \/ ExchangeFails(c) \/ SaveRefreshed(c) \/ SaveRefused(c)
       \/ SaveExpired(c) \/ NoClient(c) \/ CallerDies(c)

--------------------------------------------------------------------------------
(* An authorization is completed by the person who started it.  While no   *)
(* two refreshes crossed and no answer was lost, a connection is shown as  *)
(* expired only when it never had a refresh token, and as revoked only     *)
(* when the provider no longer honours it or turned a refresh away for a   *)
(* reason of its own; and at rest an active one can still be renewed,      *)
(* unless its grant was withdrawn, whatever the provider answered.         *)
ConnectionTellsTheTruth ==
  /\ OauTypeOK
  /\ \A t \in completed : t[2] = t[3]
  /\ connection # None /\ ~crossed /\ unanswered = 0 =>
       /\ connection.status = "revoked" /\ ~misread =>
              connection.refresh \notin provider.honoured
       /\ connection.status = "expired" => ~connection.renewable
       /\ connection.status = "active" /\ connection.renewable /\ Refreshing = {} =>
              connection.refresh \in provider.honoured \cup provider.withdrawn

(* "A refusal here usually means somebody revoked access at the other end" *)
(* (oauth.service.ts, refresh): a connection nobody else refreshed, with   *)
(* every answer received, is shown as revoked only when it is.             *)
RevokedIsRevoked ==
  connection # None /\ connection.status = "revoked" /\ ~crossed /\ unanswered = 0 =>
    connection.refresh \notin provider.honoured

(* Two calls that refresh one connection at the same moment do not break   *)
(* it: with every answer received and about the token, a connection whose  *)
(* refresh token the provider honours is not marked revoked.               *)
RefreshesDoNotClash ==
  connection # None /\ connection.status = "revoked" /\ unanswered = 0 /\ ~misread =>
    connection.refresh \notin provider.honoured
================================================================================
