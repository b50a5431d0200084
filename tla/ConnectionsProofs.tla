--------------------------- MODULE ConnectionsProofs ---------------------------
(***************************************************************************)
(* Machine-checked theorems about what a flow is connected to, for every   *)
(* set of processes, people, saves, allowlists, tools and queries and      *)
(* every bound of MCConnections.  Its parts share no variables, so each    *)
(* has an inductive invariant of its own and keeps it while the others     *)
(* move.                                                                   *)
(***************************************************************************)
EXTENDS MCConnections, SequenceTheorems, WellFoundedInduction, TLAPS

(* OAUTH CONNECTIONS.  What is known of the tokens while callers refresh.  *)

(* The tokens of the provider: those issued, of which some are honoured or *)
(* withdrawn; a provider that does not rotate drops none.                  *)
Issued == 1 .. provider.issued
Alive == provider.honoured \cup provider.withdrawn

(* A token in the program is one the provider issued.                      *)
TokensAreIssued ==
  /\ Alive \subseteq Issued /\ (~provider.rotates => Issued \subseteq Alive)
  /\ connection # None => connection.refresh \in Issued \cup {None}
  /\ \A s \in Values : state[s].refresh \in Issued \cup {None}
  /\ \A c \in Actors :
       /\ caller[c].answer \in Issued \cup {None}
       /\ caller[c].row # None => caller[c].row.refresh \in Issued \cup {None}

(* A token that was issued and not stored yet is alive, is known in one    *)
(* place, and is not what anybody refreshes with.                          *)
Unused(t) ==
  /\ t \in Alive /\ (connection # None => connection.refresh # t)
  /\ \A c \in Actors : caller[c].row # None => caller[c].row.refresh # t

(* So is each token an authorization or a call is about to store.          *)
NewTokensAreUnused ==
  /\ \A s \in Values : state[s].refresh # None =>
       /\ Unused(state[s].refresh)
       /\ \A z \in Values \ {s} : state[z].refresh # state[s].refresh
       /\ \A c \in Actors : caller[c].answer # state[s].refresh
  /\ \A c \in Actors : caller[c].answer # None =>
       /\ Unused(caller[c].answer)
       /\ \A d \in Actors \ {c} : caller[d].answer # caller[c].answer

(* A call under way rests on an active row about to expire; unless a write *)
(* crossed it, the row is still that one.                                  *)
RowsAreCurrent ==
  \A c \in Actors : caller[c].at # "idle" =>
    /\ caller[c].row # None /\ caller[c].row.status = "active" /\ caller[c].row.expiring
    /\ ~crossed /\ connection # None => connection = caller[c].row

(* What the provider said to a call.                                       *)
AnswersHold ==
  \A c \in Actors :
    /\ caller[c].at = "refused" /\ ~crossed /\ unanswered = 0 /\ ~misread
         => caller[c].row.refresh \notin provider.honoured
    /\ caller[c].at = "answered" /\ caller[c].answer = None => ~provider.rotates

(* What the row says is so, or a call has the answer that will make it so. *)
RowTellsTheTruth ==
  connection # None =>
    /\ connection.renewable => connection.refresh # None
    /\ ~crossed /\ unanswered = 0 =>
         /\ connection.status = "revoked" /\ ~misread =>
              connection.refresh \notin provider.honoured
         /\ connection.status = "expired" => ~connection.renewable
         /\ connection.status = "active" /\ connection.renewable =>
              \/ connection.refresh \in Alive
              \/ \E c \in Actors : caller[c].at = "answered"

(* An authorization was completed by the person who started it.            *)
CompletedByTheirOwn == \A t \in completed : t[2] = t[3]

(* The inductive invariant.  RowTellsTheTruth alone is not one: that the   *)
(* next token is alive rests on its being known nowhere else.              *)
OauInv ==
  /\ O!OauTypeOK /\ CompletedByTheirOwn /\ TokensAreIssued /\ NewTokensAreUnused
  /\ RowsAreCurrent /\ AnswersHold /\ RowTellsTheTruth

--------------------------------------------------------------------------------

(* Nothing is connected at the start.                                      *)
LEMMA OauInvInit == MCInit => OauInv
<1> SUFFICES ASSUME MCInit PROVE OauInv
  OBVIOUS
<1> USE DEF MCInit, O!OauInit
<1>1. /\ provider.issued = 0 /\ provider.honoured = {} /\ provider.withdrawn = {}
      /\ provider \in [issued : 0 .. MaxTokens, honoured : SUBSET O!Token,
                       withdrawn : SUBSET O!Token, rotates : BOOLEAN]
  BY BoundsAssumption
<1>2. unanswered \in 0 .. MaxLost
  BY BoundsAssumption
<1>3. \A s \in Values : state[s] = O!NoState
  OBVIOUS
<1>4. \A c \in Actors : caller[c] = O!Idle
  OBVIOUS
<1>5. O!OauTypeOK
  <2>1. O!Idle \in O!Call
    BY DEF O!Idle, O!Call
  <2>2. O!NoState \in O!Authorization
    BY DEF O!NoState, O!Authorization
  <2> QED
    BY <1>1, <1>2, <2>1, <2>2 DEF O!OauTypeOK
<1>6. CompletedByTheirOwn /\ RowTellsTheTruth
  BY DEF CompletedByTheirOwn, RowTellsTheTruth
<1>7. RowsAreCurrent /\ AnswersHold
  BY <1>4 DEF RowsAreCurrent, AnswersHold, O!Idle
<1>8. Alive = {} /\ Issued = {}
  BY <1>1 DEF Alive, Issued
<1>9. TokensAreIssued
  BY <1>3, <1>4, <1>8 DEF TokensAreIssued, O!Idle, O!NoState
<1>10. NewTokensAreUnused
  BY <1>3, <1>4 DEF NewTokensAreUnused, O!Idle, O!NoState
<1> QED
  BY <1>5, <1>6, <1>7, <1>9, <1>10 DEF OauInv

--------------------------------------------------------------------------------
(* The provider's steps: one token at most is dropped, and what is added   *)
(* is new.                                                                 *)
ProviderType ==
  provider \in [issued : 0 .. MaxTokens, honoured : SUBSET O!Token,
                withdrawn : SUBSET O!Token, rotates : BOOLEAN]

(* The provider went on and dropped at most the token t.                   *)
Grows(t) ==
  /\ ProviderType' /\ provider'.rotates = provider.rotates
  /\ Issued \subseteq Issued' /\ Alive' \subseteq Issued' /\ Alive \ {t} \subseteq Alive'
  /\ provider'.honoured \subseteq provider.honoured \cup (Issued' \ Issued)
  /\ ~provider.rotates => Issued' \subseteq Alive'

(* What the invariant says of the shapes of the variables.                 *)
LEMMA OauFacts ==
  OauInv => /\ ProviderType /\ provider.issued \in Nat /\ None \notin Issued
            /\ connection \in O!OAuthConnectionRow \cup {None}
            /\ state \in [Values -> O!Authorization] /\ caller \in [Actors -> O!Call]
BY NoneAssumption DEF OauInv, O!OauTypeOK, ProviderType, Issued

(* A provider that heard nothing dropped nothing.                          *)
LEMMA StillGrows == OauInv /\ UNCHANGED provider => Grows(None)
<1> SUFFICES ASSUME OauInv, UNCHANGED provider PROVE Grows(None)
  OBVIOUS
<1>1. Issued' = Issued /\ Alive' = Alive
  BY DEF Issued, Alive
<1> QED
  BY <1>1, OauFacts DEF Grows, ProviderType, OauInv, TokensAreIssued

(* A withdrawn token is not honoured, and still counts.                    *)
LEMMA WithdrawGrows ==
  ASSUME OauInv, O!Withdraw
  PROVE  Grows(None)
<1>1. ProviderType
  BY OauFacts
<1>2. provider' = [provider EXCEPT !.honoured = {},
                     !.withdrawn = provider.withdrawn \cup provider.honoured]
  BY DEF O!Withdraw
<1>3. /\ provider'.issued = provider.issued /\ provider'.honoured = {}
      /\ provider'.withdrawn = provider.withdrawn \cup provider.honoured
      /\ provider'.rotates = provider.rotates
  BY <1>1, <1>2 DEF ProviderType
<1>4. ProviderType'
  BY <1>1, <1>2 DEF ProviderType
<1>5. Issued' = Issued /\ Alive' = Alive
  BY <1>3 DEF Issued, Alive
<1> QED
  BY <1>3, <1>4, <1>5 DEF Grows, OauInv, TokensAreIssued

(* A new token is alive and was never issued before.                       *)
LEMMA IssueGrows ==
  ASSUME OauInv, NEW t, NEW replaced, O!Issue(replaced),
         \/ replaced = {} /\ t = None
         \/ replaced = {t} /\ provider.rotates /\ t \in provider.honoured
  PROVE  /\ Grows(t) /\ provider'.issued = provider.issued + 1
         /\ provider'.issued \in Alive' /\ provider'.issued \notin Issued
         /\ provider'.issued \in Issued' /\ t \notin provider'.honoured
<1>0. ProviderType /\ provider.issued \in Nat /\ MaxTokens \in Nat
  BY OauFacts, BoundsAssumption
<1> DEFINE n == provider.issued + 1
<1>1. /\ provider.issued < MaxTokens
      /\ provider' = [provider EXCEPT !.issued = provider.issued + 1,
                        !.honoured = (provider.honoured \ replaced) \cup {n}]
  BY DEF O!Issue
<1>2. n \in O!Token /\ n \in 0 .. MaxTokens
  BY <1>0, <1>1 DEF O!Token
<1>3. /\ provider'.issued = n /\ provider'.withdrawn = provider.withdrawn
      /\ provider'.honoured = (provider.honoured \ replaced) \cup {n}
      /\ provider'.rotates = provider.rotates
  BY <1>0, <1>1 DEF ProviderType
<1>4. ProviderType'
  BY <1>0, <1>1, <1>2 DEF ProviderType
<1>5. Issued' = Issued \cup {n} /\ n \notin Issued
  BY <1>0, <1>3 DEF Issued
<1>6. Alive' = provider'.honoured \cup provider'.withdrawn
  BY DEF Alive
<1>7. Alive \subseteq Issued /\ (~provider.rotates => Issued \subseteq Alive)
  BY DEF OauInv, TokensAreIssued
<1>8. t = None \/ replaced = {t}
  OBVIOUS
<1>9. None \notin O!Token
  BY NoneAssumption DEF O!Token
<1> HIDE DEF n
<1>10. Alive \ {t} \subseteq Alive' /\ Alive' \subseteq Issued' /\ n \in Alive'
  BY <1>3, <1>5, <1>6, <1>7 DEF Alive
<1>11. provider'.honoured \subseteq provider.honoured \cup (Issued' \ Issued)
  BY <1>3, <1>5
<1>12. ~provider.rotates => Issued' \subseteq Alive'
  BY <1>3, <1>5, <1>6, <1>7 DEF Alive
<1>13. t \notin provider'.honoured
  <2>1. CASE replaced = {} /\ t = None
    BY <1>2, <1>3, <1>0, <1>9, <2>1 DEF ProviderType
  <2>2. CASE replaced = {t} /\ t \in provider.honoured
    <3>1. t # n
      BY <1>5, <1>7, <2>2 DEF Alive
    <3> QED
      BY <1>3, <2>2, <3>1
  <2> QED
    BY <2>1, <2>2
<1> QED
  BY <1>3, <1>4, <1>5, <1>10, <1>11, <1>12, <1>13 DEF Grows, n

(* A renewal drops the token it was asked with, or changes nothing.        *)
LEMMA RenewGrows ==
  ASSUME OauInv, NEW token, O!Renew(token)
  PROVE  /\ token \in provider.honoured
         /\ \/ /\ provider.rotates /\ Grows(token) /\ token \notin provider'.honoured
               /\ provider'.issued \in Alive' /\ provider'.issued \notin Issued
               /\ provider'.issued \in Issued'
            \/ ~provider.rotates /\ UNCHANGED provider
<1>1. token \in provider.honoured
  BY DEF O!Renew
<1>2. CASE provider.rotates
  <2>1. O!Issue({token})
    BY <1>2 DEF O!Renew
  <2> QED
    BY <1>1, <1>2, <2>1, IssueGrows
<1>3. CASE ~provider.rotates
  BY <1>1, <1>3 DEF O!Renew
<1>4. provider.rotates \in BOOLEAN
  BY OauFacts DEF ProviderType
<1> QED
  BY <1>2, <1>3, <1>4

--------------------------------------------------------------------------------
(* Steps of the authorizations and the lock that leave the row, the        *)
(* provider and the calls alone.                                           *)
LEMMA OauQuietBy ==
  ASSUME OauInv, UNCHANGED <<connection, created, provider, caller, crossed, unanswered,
                             misread>>,
         registered' \in BOOLEAN, refreshing' \in Actors \cup {None},
         state' \in [Values -> O!Authorization],
         \A z \in Values : state'[z].refresh \in {state[z].refresh, None},
         completed' \subseteq Values \X People \X People, CompletedByTheirOwn'
  PROVE  OauInv'
<1>1. O!OauTypeOK'
  BY DEF OauInv, O!OauTypeOK
<1>2. Issued' = Issued /\ Alive' = Alive
  BY DEF Issued, Alive
<1>3. \A t : Unused(t) => Unused(t)'
  BY <1>2 DEF Unused
<1>4. TokensAreIssued'
  BY <1>2 DEF OauInv, TokensAreIssued
<1>5. NewTokensAreUnused'
  BY <1>3 DEF OauInv, NewTokensAreUnused
<1>6. RowsAreCurrent' /\ AnswersHold'
  BY DEF OauInv, RowsAreCurrent, AnswersHold
<1>7. RowTellsTheTruth'
  BY <1>2 DEF OauInv, RowTellsTheTruth
<1> QED
  BY <1>1, <1>4, <1>5, <1>6, <1>7 DEF OauInv

(* The client, the lock, and authorizations up to their code.              *)
LEMMA OauQuiet ==
  ASSUME OauInv,
         \/ O!SaveClient \/ O!LockExpires
         \/ \E s \in Values : O!CompleteFails(s)
         \/ \E s \in Values, u \in People : O!Start(s, u) \/ O!TakeState(s, u)
  PROVE  OauInv'
<1> USE DEF CompletedByTheirOwn
<1>0. /\ state \in [Values -> O!Authorization] /\ registered \in BOOLEAN
      /\ refreshing \in Actors \cup {None} /\ completed \subseteq Values \X People \X People
      /\ \A t \in completed : t[2] = t[3]
  BY DEF OauInv, O!OauTypeOK
<1>1. CASE O!SaveClient
  BY <1>0, <1>1, OauQuietBy DEF O!SaveClient
<1>2. CASE O!LockExpires
  BY <1>0, <1>2, OauQuietBy DEF O!LockExpires
<1>3. ASSUME NEW s \in Values, O!CompleteFails(s)
      PROVE  OauInv'
  <2> DEFINE new == [O!NoState EXCEPT !.at = "done"]
  <2>1. new \in O!Authorization /\ new.refresh = None
    BY DEF O!NoState, O!Authorization
  <2>2. /\ state' = [state EXCEPT ![s] = new]
        /\ UNCHANGED <<registered, connection, created, provider, caller, refreshing,
                       completed, crossed, unanswered, misread>>
    BY <1>3 DEF O!CompleteFails
  <2> HIDE DEF new
  <2> QED
    BY <1>0, <2>1, <2>2, OauQuietBy
<1>4. ASSUME NEW s \in Values, NEW u \in People, O!Start(s, u)
      PROVE  OauInv'
  <2> DEFINE new == [O!NoState EXCEPT !.at = "started", !.by = u]
  <2>1. new \in O!Authorization /\ new.refresh = None
    BY DEF O!NoState, O!Authorization
  <2>2. /\ state' = [state EXCEPT ![s] = new]
        /\ UNCHANGED <<registered, connection, created, provider, caller, refreshing,
                       completed, crossed, unanswered, misread>>
    BY <1>4 DEF O!Start
  <2> HIDE DEF new
  <2> QED
    BY <1>0, <2>1, <2>2, OauQuietBy
<1>5. ASSUME NEW s \in Values, NEW u \in People, O!TakeState(s, u)
      PROVE  OauInv'
  <2>1. PICK stage \in {"taken", "done"} : state' = [state EXCEPT ![s].at = stage]
    BY <1>5 DEF O!TakeState
  <2> DEFINE new == [state[s] EXCEPT !.at = stage]
  <2>2. new \in O!Authorization /\ new.refresh = state[s].refresh
    BY <1>0 DEF O!Authorization
  <2>3. state' = [state EXCEPT ![s] = new]
    BY <2>1
  <2> HIDE DEF new
  <2>4. UNCHANGED <<registered, connection, created, provider, caller, refreshing,
                    crossed, unanswered, misread>>
    BY <1>5 DEF O!TakeState
  <2>5. \/ completed' = completed
        \/ state[s].by = u /\ completed' = completed \cup {<<s, state[s].by, u>>}
    BY <1>5 DEF O!TakeState, O!StateBelongsTo
  <2>6. /\ completed' \subseteq Values \X People \X People
        /\ \A t \in completed' : t[2] = t[3]
    BY <1>0, <2>5
  <2> QED
    BY <1>0, <2>2, <2>3, <2>4, <2>6, OauQuietBy
<1> QED
  BY <1>1, <1>2, <1>3, <1>4, <1>5

--------------------------------------------------------------------------------
(* The primed form of NewTokensAreUnused, token by token.                  *)
LEMMA UnusedNext ==
  ASSUME \A z \in Values : \A t : t = state'[z].refresh /\ t # None =>
           /\ Unused(t)'
           /\ \A y \in Values \ {z} : state'[y].refresh # t
           /\ \A c \in Actors : caller'[c].answer # t,
         \A c \in Actors : \A t : t = caller'[c].answer /\ t # None =>
           /\ Unused(t)'
           /\ \A d \in Actors \ {c} : caller'[d].answer # t
  PROVE  NewTokensAreUnused'
BY DEF NewTokensAreUnused, Unused

(* What is known of the row and the calls stays so while the provider      *)
(* drops nothing.                                                          *)
LEMMA TruthStays ==
  ASSUME OauInv, Grows(None), UNCHANGED <<connection, caller, crossed, unanswered,
                                          misread>>
  PROVE  AnswersHold' /\ RowTellsTheTruth'
<1>1. None \notin Issued /\ Alive \subseteq Issued
  BY OauFacts DEF OauInv, TokensAreIssued
<1>2. /\ Alive \subseteq Alive' /\ provider'.rotates = provider.rotates
      /\ \A t \in Issued \cup {None} :
           t \notin provider.honoured /\ t # None => t \notin provider'.honoured
  BY <1>1 DEF Grows
<1>3. None \notin provider'.honoured
  BY NoneAssumption DEF Grows, ProviderType, O!Token
<1>4. \A t \in Issued \cup {None} : t \notin provider.honoured => t \notin provider'.honoured
  BY <1>2, <1>3
<1>5. AnswersHold'
  BY <1>2, <1>4 DEF OauInv, AnswersHold, TokensAreIssued, RowsAreCurrent
<1>6. RowTellsTheTruth'
  BY <1>2, <1>4 DEF OauInv, RowTellsTheTruth, TokensAreIssued
<1> QED
  BY <1>5, <1>6

(* A code is exchanged: a token nobody knows goes to the authorization.    *)
LEMMA OauExchangeCode ==
  ASSUME OauInv, NEW s \in Values, NEW renewable \in BOOLEAN, O!ExchangeCode(s, renewable)
  PROVE  OauInv'
<1>0. PICK token : token = IF renewable THEN provider'.issued ELSE None
  OBVIOUS
<1> DEFINE new == [state[s] EXCEPT !.at = "exchanged", !.refresh = token]
<1>1. /\ UNCHANGED <<registered, connection, created, caller, refreshing, completed,
                     crossed, unanswered, misread>>
      /\ state' = [state EXCEPT ![s] = new]
  BY <1>0 DEF O!ExchangeCode
<1>2. IF renewable THEN O!Issue({}) ELSE UNCHANGED provider
  BY DEF O!ExchangeCode
<1>3. /\ Grows(None)
      /\ token # None => token \in Alive' /\ token \notin Issued /\ token \in Issued'
      /\ token \in Issued' \cup {None}
  BY <1>0, <1>2, IssueGrows, StillGrows
<1>4. token \in O!Token \cup {None}
  BY <1>3 DEF Grows, ProviderType, Alive
<1>5. state[s] \in O!Authorization /\ state \in [Values -> O!Authorization]
  BY OauFacts
<1>6. new \in O!Authorization /\ new.refresh = token
  BY <1>4, <1>5 DEF O!Authorization
<1> HIDE DEF new
<1>7. /\ state' \in [Values -> O!Authorization] /\ state'[s].refresh = token
      /\ \A z \in Values \ {s} : state'[z] = state[z]
  BY <1>1, <1>5, <1>6
<1>8. O!OauTypeOK'
  BY <1>1, <1>3, <1>7 DEF OauInv, O!OauTypeOK, Grows, ProviderType
<1>9. TokensAreIssued'
  BY <1>1, <1>3, <1>7 DEF OauInv, TokensAreIssued, Grows
<1>10. None \notin Issued /\ Alive \subseteq Issued
  BY OauFacts DEF OauInv, TokensAreIssued
<1>11. \A t \in Alive : Unused(t) => Unused(t)'
  BY <1>1, <1>3, <1>10 DEF Grows, Unused
<1>12. token # None => Unused(token)'
  BY <1>1, <1>3 DEF OauInv, TokensAreIssued, Unused
<1>13. NewTokensAreUnused'
  <2>1. ASSUME NEW z \in Values, NEW t, t = state'[z].refresh, t # None
        PROVE  /\ Unused(t)'
               /\ \A y \in Values \ {z} : state'[y].refresh # t
               /\ \A c \in Actors : caller'[c].answer # t
    <3>1. CASE z = s
      <4>1. t = token
        BY <1>7, <2>1, <3>1
      <4> QED
        BY <1>1, <1>3, <1>7, <1>12, <2>1, <3>1, <4>1 DEF OauInv, TokensAreIssued
    <3>2. CASE z # s
      <4>1. /\ state'[z] = state[z] /\ Unused(t)
            /\ \A y \in Values \ {z} : state[y].refresh # t
            /\ \A c \in Actors : caller[c].answer # t
        BY <1>7, <2>1, <3>2 DEF OauInv, NewTokensAreUnused, Unused
      <4>2. t \in Alive
        BY <4>1 DEF Unused
      <4>3. Unused(t)'
        BY <1>11, <4>1, <4>2
      <4>4. token # t
        BY <1>3, <1>10, <2>1, <4>2
      <4> QED
        BY <1>1, <1>7, <4>1, <4>3, <4>4
    <3> QED
      BY <3>1, <3>2
  <2>2. ASSUME NEW c \in Actors, NEW t, t = caller'[c].answer, t # None
        PROVE  /\ Unused(t)'
               /\ \A d \in Actors \ {c} : caller'[d].answer # t
    <3>1. Unused(t) /\ \A d \in Actors \ {c} : caller[d].answer # t
      BY <1>1, <2>2 DEF OauInv, NewTokensAreUnused, Unused
    <3>2. t \in Alive
      BY <3>1 DEF Unused
    <3> QED
      BY <1>1, <1>11, <3>1, <3>2
  <2> QED
    BY <2>1, <2>2, UnusedNext
<1>14. RowsAreCurrent' /\ CompletedByTheirOwn'
  BY <1>1 DEF OauInv, RowsAreCurrent, CompletedByTheirOwn
<1>15. AnswersHold' /\ RowTellsTheTruth'
  BY <1>1, <1>3, TruthStays DEF OauInv
<1> QED
  BY <1>8, <1>9, <1>13, <1>14, <1>15 DEF OauInv

(* A grant is withdrawn.                                                   *)
LEMMA OauWithdraw ==
  ASSUME OauInv, O!Withdraw
  PROVE  OauInv'
<1>1. /\ Grows(None)
      /\ UNCHANGED <<registered, connection, created, state, caller, refreshing,
                     completed, crossed, unanswered, misread>>
  BY WithdrawGrows DEF O!Withdraw
<1>2. O!OauTypeOK'
  BY <1>1 DEF OauInv, O!OauTypeOK, Grows, ProviderType
<1>3. TokensAreIssued'
  BY <1>1 DEF OauInv, TokensAreIssued, Grows
<1>4. None \notin Issued /\ Alive \subseteq Issued
  BY OauFacts DEF OauInv, TokensAreIssued
<1>5. \A t : Unused(t) => Unused(t)'
  BY <1>1, <1>4 DEF Grows, Unused
<1>6. NewTokensAreUnused'
  BY <1>1, <1>5 DEF OauInv, NewTokensAreUnused
<1>7. RowsAreCurrent' /\ CompletedByTheirOwn'
  BY <1>1 DEF OauInv, RowsAreCurrent, CompletedByTheirOwn
<1>8. AnswersHold' /\ RowTellsTheTruth'
  BY <1>1, TruthStays
<1> QED
  BY <1>2, <1>3, <1>6, <1>7, <1>8 DEF OauInv

--------------------------------------------------------------------------------
(* The row is removed, or its access token runs out.                       *)
LEMMA OauRow ==
  ASSUME OauInv, O!Disconnect \/ O!AccessExpires
  PROVE  OauInv'
<1> DEFINE new == [connection EXCEPT !.expiring = TRUE]
<1>1. /\ UNCHANGED <<registered, created, provider, state, caller, refreshing,
                     completed, crossed, unanswered, misread>>
      /\ connection # None
      /\ connection' = None \/ (connection' = new /\ ~connection.expiring)
  BY DEF O!Disconnect, O!AccessExpires
<1>2. connection \in O!OAuthConnectionRow
  BY <1>1, OauFacts
<1>3. /\ new \in O!OAuthConnectionRow /\ new.refresh = connection.refresh
      /\ new.status = connection.status /\ new.renewable = connection.renewable
  BY <1>2 DEF O!OAuthConnectionRow
<1> HIDE DEF new
<1>4. O!OauTypeOK'
  BY <1>1, <1>3 DEF OauInv, O!OauTypeOK
<1>5. Issued' = Issued /\ Alive' = Alive
  BY <1>1 DEF Issued, Alive
<1>6. connection' # None =>
        /\ connection'.refresh = connection.refresh /\ connection'.status = connection.status
        /\ connection'.renewable = connection.renewable /\ ~connection.expiring
  BY <1>1, <1>3
<1>7. TokensAreIssued'
  BY <1>1, <1>5, <1>6 DEF OauInv, TokensAreIssued
<1>8. \A t : Unused(t) => Unused(t)'
  BY <1>1, <1>5, <1>6 DEF Unused
<1>9. NewTokensAreUnused'
  BY <1>1, <1>8 DEF OauInv, NewTokensAreUnused
<1>10. RowsAreCurrent'
  BY <1>1, <1>6 DEF OauInv, RowsAreCurrent
<1>11. AnswersHold' /\ CompletedByTheirOwn'
  BY <1>1 DEF OauInv, AnswersHold, CompletedByTheirOwn
<1>12. RowTellsTheTruth'
  BY <1>1, <1>5, <1>6 DEF OauInv, RowTellsTheTruth
<1> QED
  BY <1>4, <1>7, <1>9, <1>10, <1>11, <1>12 DEF OauInv

(* The row takes the token of an authorization.                            *)
LEMMA OauConnect ==
  ASSUME OauInv, NEW s \in Values, O!Connect(s)
  PROVE  OauInv'
<1>0. PICK token : token = state[s].refresh
  OBVIOUS
<1> DEFINE id == IF connection = None THEN created + 1 ELSE connection.id
           new == [id |-> id, refresh |-> token, expiring |-> FALSE,
                   status |-> "active", renewable |-> token # None]
           done == [O!NoState EXCEPT !.at = "done"]
<1>1. /\ connection' = new /\ state' = [state EXCEPT ![s] = done]
      /\ misread' = FALSE
      /\ crossed' = (crossed \/ \E c \in O!Refreshing : TRUE)
      /\ created' = IF connection = None THEN created + 1 ELSE created
      /\ UNCHANGED <<registered, provider, caller, refreshing, completed, unanswered>>
  BY <1>0 DEF O!Connect
<1>2. /\ token \in O!Token \cup {None} /\ id \in Nat /\ created' \in Nat
      /\ crossed' \in BOOLEAN
  BY <1>0, <1>1 DEF OauInv, O!OauTypeOK, O!Authorization, O!OAuthConnectionRow
<1> HIDE DEF id
<1>3. /\ new \in O!OAuthConnectionRow /\ new.refresh = token /\ new.status = "active"
      /\ new.renewable = (token # None) /\ new # None
  <2>1. /\ new.id = id /\ new.refresh = token /\ new.status = "active"
        /\ new.renewable = (token # None) /\ new.expiring = FALSE
    OBVIOUS
  <2>2. new \in O!OAuthConnectionRow
    BY <1>2 DEF O!OAuthConnectionRow
  <2> HIDE DEF new
  <2> QED
    BY <2>1, <2>2, NoneAssumption
<1> HIDE DEF new
<1>4. done \in O!Authorization /\ done.refresh = None
  BY DEF O!NoState, O!Authorization
<1> HIDE DEF done
<1>5. /\ state'[s].refresh = None /\ \A z \in Values \ {s} : state'[z] = state[z]
  BY <1>1, <1>4, OauFacts
<1>6. O!OauTypeOK'
  BY <1>1, <1>2, <1>3, <1>4 DEF OauInv, O!OauTypeOK
<1>7. Issued' = Issued /\ Alive' = Alive
  BY <1>1 DEF Issued, Alive
<1>8. TokensAreIssued'
  BY <1>0, <1>1, <1>3, <1>5, <1>7 DEF OauInv, TokensAreIssued
<1>9. \A t : t # token /\ Unused(t) => Unused(t)'
  BY <1>1, <1>3, <1>7 DEF Unused
<1>10. NewTokensAreUnused'
  <2>1. ASSUME NEW z \in Values, NEW t, t = state'[z].refresh, t # None
        PROVE  /\ Unused(t)'
               /\ \A y \in Values \ {z} : state'[y].refresh # t
               /\ \A c \in Actors : caller'[c].answer # t
    <3>1. z # s /\ state'[z] = state[z]
      BY <1>5, <2>1
    <3>2. /\ Unused(t) /\ \A y \in Values \ {z} : state[y].refresh # t
          /\ \A c \in Actors : caller[c].answer # t
      BY <2>1, <3>1 DEF OauInv, NewTokensAreUnused, Unused
    <3> QED
      BY <1>0, <1>1, <1>5, <1>9, <2>1, <3>1, <3>2
  <2>2. ASSUME NEW c \in Actors, NEW t, t = caller'[c].answer, t # None
        PROVE  Unused(t)' /\ \A d \in Actors \ {c} : caller'[d].answer # t
    <3>1. Unused(t) /\ \A d \in Actors \ {c} : caller[d].answer # t
      BY <1>1, <2>2 DEF OauInv, NewTokensAreUnused, Unused
    <3>2. token # t
      BY <1>0, <1>1, <2>2 DEF OauInv, NewTokensAreUnused
    <3> QED
      BY <1>1, <1>9, <3>1, <3>2
  <2> QED
    BY <2>1, <2>2, UnusedNext
<1>11. RowsAreCurrent'
  BY <1>1 DEF OauInv, RowsAreCurrent, O!Refreshing
<1>12. AnswersHold' /\ CompletedByTheirOwn'
  <2>1. \A c \in Actors : ~crossed' => caller[c].at = "idle"
    BY <1>1 DEF O!Refreshing
  <2>2. AnswersHold'
    BY <1>1, <2>1 DEF OauInv, AnswersHold
  <2> QED
    BY <1>1, <2>2 DEF OauInv, CompletedByTheirOwn
<1>13. RowTellsTheTruth'
  <2>1. token # None => token \in Alive
    BY <1>0 DEF OauInv, NewTokensAreUnused, Unused
  <2> QED
    BY <1>1, <1>3, <1>7, <2>1 DEF RowTellsTheTruth
<1> QED
  BY <1>6, <1>8, <1>10, <1>11, <1>12, <1>13 DEF OauInv

--------------------------------------------------------------------------------
(* A call reads the row.                                                   *)
LEMMA OauRead ==
  ASSUME OauInv, NEW c \in Actors, O!ReadConnection(c)
  PROVE  OauInv'
<1> DEFINE new == [O!Idle EXCEPT !.at = "read", !.row = connection]
<1>1. /\ caller[c].at = "idle" /\ connection # None /\ connection.status = "active"
      /\ connection.expiring /\ caller' = [caller EXCEPT ![c] = new]
      /\ UNCHANGED <<registered, connection, created, provider, state, refreshing,
                     completed, crossed, unanswered, misread>>
  BY DEF O!ReadConnection, O!NeedsRefresh
<1>2. new \in O!Call /\ new.at = "read" /\ new.row = connection /\ new.answer = None
  BY <1>1, OauFacts DEF O!Call, O!Idle
<1> HIDE DEF new
<1>3. caller'[c] = new /\ \A d \in Actors \ {c} : caller'[d] = caller[d]
  BY <1>1, OauFacts
<1>4. O!OauTypeOK'
  BY <1>1, <1>2 DEF OauInv, O!OauTypeOK
<1>5. Issued' = Issued /\ Alive' = Alive
  BY <1>1 DEF Issued, Alive
<1>6. TokensAreIssued'
  BY <1>1, <1>2, <1>3, <1>5 DEF OauInv, TokensAreIssued
<1>7. \A t : Unused(t) => Unused(t)'
  BY <1>1, <1>2, <1>3, <1>5 DEF Unused
<1>8. NewTokensAreUnused'
  BY <1>1, <1>2, <1>3, <1>7 DEF OauInv, NewTokensAreUnused
<1>9. RowsAreCurrent' /\ AnswersHold'
  BY <1>1, <1>2, <1>3 DEF OauInv, RowsAreCurrent, AnswersHold
<1>10. CompletedByTheirOwn' /\ RowTellsTheTruth'
  BY <1>1, <1>3, <1>5 DEF OauInv, CompletedByTheirOwn, RowTellsTheTruth
<1> QED
  BY <1>4, <1>6, <1>8, <1>9, <1>10 DEF OauInv

(* A call goes on to the next stage, or is over without a write.           *)
LEMMA OauMoveBy ==
  ASSUME OauInv, NEW c \in Actors, NEW new \in O!Call,
         caller' = [caller EXCEPT ![c] = new], caller[c].at # "idle",
         \/ new = O!Idle
         \/ new.at \in {"waiting", "exchanging"} /\ new.row = caller[c].row
            /\ new.answer = caller[c].answer,
         refreshing' \in Actors \cup {None},
         unanswered' \in 0 .. MaxLost, unanswered' = 0 => unanswered = 0,
         caller[c].at = "answered" => unanswered' # 0,
         UNCHANGED <<registered, connection, created, provider, state, completed, crossed,
                     misread>>
  PROVE  OauInv'
<1>1. /\ new.at \in {"idle", "waiting", "exchanging"} /\ new.answer \in {None, caller[c].answer}
      /\ new.row \in {None, caller[c].row} /\ (new.at # "idle" => new.row = caller[c].row)
  BY DEF O!Idle
<1>2. caller'[c] = new /\ \A d \in Actors \ {c} : caller'[d] = caller[d]
  BY OauFacts
<1>3. O!OauTypeOK'
  BY DEF OauInv, O!OauTypeOK
<1>4. Issued' = Issued /\ Alive' = Alive
  BY DEF Issued, Alive
<1>5. TokensAreIssued'
  BY <1>1, <1>2, <1>4 DEF OauInv, TokensAreIssued
<1>6. \A t : Unused(t) => Unused(t)'
  BY <1>1, <1>2, <1>4 DEF Unused
<1>7. NewTokensAreUnused'
  BY <1>1, <1>2, <1>6 DEF OauInv, NewTokensAreUnused
<1>8. RowsAreCurrent' /\ AnswersHold'
  BY <1>1, <1>2 DEF OauInv, RowsAreCurrent, AnswersHold
<1>9. CompletedByTheirOwn' /\ RowTellsTheTruth'
  BY <1>2, <1>4 DEF OauInv, CompletedByTheirOwn, RowTellsTheTruth
<1> QED
  BY <1>3, <1>5, <1>7, <1>8, <1>9 DEF OauInv

(* A call takes the lock, reads the row again, or dies.                    *)
LEMMA OauMoves ==
  ASSUME OauInv, NEW c \in Actors, O!TakeLock(c) \/ O!ReRead(c) \/ O!CallerDies(c)
  PROVE  OauInv'
<1> DEFINE At(stage) == [caller[c] EXCEPT !.at = stage]
<1>1. O!Idle \in O!Call
  BY DEF O!Idle, O!Call
<1>2. ASSUME NEW stage \in {"waiting", "exchanging"}
      PROVE  /\ At(stage) \in O!Call /\ At(stage).at = stage /\ At(stage).row = caller[c].row
             /\ At(stage).answer = caller[c].answer
  BY OauFacts DEF O!Call
<1>3. refreshing \in Actors \cup {None} /\ unanswered \in 0 .. MaxLost
  BY DEF OauInv, O!OauTypeOK
<1>4. CASE O!TakeLock(c) \/ O!ReRead(c)
  <2>1. /\ caller[c].at \in {"read", "waiting"} /\ refreshing' \in Actors \cup {None}
        /\ UNCHANGED <<registered, connection, created, provider, state, completed,
                       crossed, unanswered, misread>>
    BY <1>3, <1>4 DEF O!TakeLock, O!ReRead
  <2>2. PICK new \in {O!Idle, At("waiting"), At("exchanging")} :
           caller' = [caller EXCEPT ![c] = new]
    BY <1>4 DEF O!TakeLock, O!ReRead
  <2> HIDE DEF At
  <2>3. new \in O!Call
    BY <1>1, <1>2
  <2>4. \/ new = O!Idle
        \/ new.at \in {"waiting", "exchanging"} /\ new.row = caller[c].row
           /\ new.answer = caller[c].answer
    BY <1>2
  <2> QED
    BY <1>3, <2>1, <2>2, <2>3, <2>4, OauMoveBy
<1>5. CASE O!CallerDies(c)
  <2>1. /\ caller[c].at # "idle" /\ caller' = [caller EXCEPT ![c] = O!Idle]
        /\ unanswered' = unanswered + 1 /\ unanswered < MaxLost
        /\ UNCHANGED <<registered, connection, created, provider, state, refreshing,
                       completed, crossed, misread>>
    BY <1>5 DEF O!CallerDies
  <2>2. unanswered' \in 0 .. MaxLost /\ unanswered' # 0
    BY <1>3, <2>1, BoundsAssumption
  <2> QED
    BY <1>1, <1>3, <2>1, <2>2, OauMoveBy
<1> QED
  BY <1>4, <1>5

--------------------------------------------------------------------------------
(* The provider hears from a call.  A token it drops is the call's own, and *)
(* then the call has the new one, or its answer was lost.                  *)
LEMMA OauExchangeBy ==
  ASSUME OauInv, NEW c \in Actors, NEW new \in O!Call, NEW token, NEW lost,
         caller[c].at = "exchanging", token = caller[c].row.refresh, token # None,
         caller' = [caller EXCEPT ![c] = new], new.row = caller[c].row,
         new.at \in {"answered", "refused"},
         Grows(lost), lost \in {token, None},
         lost = token => new.at = "answered" \/ unanswered' # 0,
         \/ new.answer \in {None, caller[c].answer}
         \/ new.answer \in Alive' /\ new.answer \in Issued' \ Issued,
         new.at = "refused" /\ unanswered' = 0 /\ ~misread' => token \notin provider.honoured,
         misread' \in BOOLEAN, misread => misread',
         new.at = "answered" /\ new.answer = None => ~provider.rotates,
         unanswered' \in 0 .. MaxLost, unanswered' = 0 => unanswered = 0,
         UNCHANGED <<registered, connection, created, state, refreshing, completed, crossed>>
  PROVE  OauInv'
<1>1. caller'[c] = new /\ \A d \in Actors \ {c} : caller'[d] = caller[d]
  BY OauFacts
<1>2. O!OauTypeOK'
  BY DEF OauInv, O!OauTypeOK, Grows, ProviderType
<1>3. /\ Issued \subseteq Issued' /\ Alive \ {lost} \subseteq Alive'
      /\ Alive' \subseteq Issued' /\ provider'.rotates = provider.rotates
      /\ None \notin Issued /\ Alive \subseteq Issued
      /\ ~provider.rotates => Issued' \subseteq Alive'
  BY OauFacts DEF Grows, OauInv, TokensAreIssued
<1>4. \A t \in Issued \cup {None} : t \notin provider.honoured => t \notin provider'.honoured
  BY <1>3, NoneAssumption DEF Grows, ProviderType, O!Token
<1>5. TokensAreIssued'
  BY <1>1, <1>3 DEF OauInv, TokensAreIssued
<1>6. caller[c].row # None /\ token \in Issued
  BY DEF OauInv, RowsAreCurrent, TokensAreIssued
<1>7. \A d \in Actors : caller'[d].row = caller[d].row
  BY <1>1
<1>8. \A t : Unused(t) => Unused(t)'
  <2> SUFFICES ASSUME NEW t, Unused(t) PROVE Unused(t)'
    OBVIOUS
  <2>1. t \in Alive /\ t # token
    BY <1>6 DEF Unused
  <2>2. t \in Alive'
    BY <1>3, <2>1
  <2> QED
    BY <1>7, <2>2 DEF Unused
<1>9. \A t \in Alive' \ Issued : t # None => Unused(t)'
  BY <1>7 DEF OauInv, TokensAreIssued, Unused
<1>10. NewTokensAreUnused'
  <2>1. ASSUME NEW z \in Values, NEW t, t = state'[z].refresh, t # None
        PROVE  /\ Unused(t)'
               /\ \A y \in Values \ {z} : state'[y].refresh # t
               /\ \A d \in Actors : caller'[d].answer # t
    <3>1. /\ Unused(t) /\ \A y \in Values \ {z} : state[y].refresh # t
          /\ \A d \in Actors : caller[d].answer # t
      BY <2>1 DEF OauInv, NewTokensAreUnused, Unused
    <3>2. t \in Issued
      BY <1>3, <3>1 DEF Unused
    <3>3. \A d \in Actors : caller'[d].answer # t
      BY <1>1, <2>1, <3>1, <3>2
    <3> QED
      BY <1>8, <3>1, <3>3
  <2>2. ASSUME NEW d \in Actors, NEW t, t = caller'[d].answer, t # None
        PROVE  Unused(t)' /\ \A e \in Actors \ {d} : caller'[e].answer # t
    <3>1. CASE t = caller[d].answer
      <4>1. Unused(t) /\ \A e \in Actors \ {d} : caller[e].answer # t
        BY <2>2, <3>1 DEF OauInv, NewTokensAreUnused, Unused
      <4>2. t \in Issued
        BY <1>3, <4>1 DEF Unused
      <4>3. \A e \in Actors \ {d} : caller'[e].answer # t
        BY <1>1, <2>2, <4>1, <4>2
      <4> QED
        BY <1>8, <4>1, <4>3
    <3>2. CASE t # caller[d].answer
      <4>1. d = c /\ t = new.answer /\ t \in Alive' /\ t \notin Issued
        BY <1>1, <2>2, <3>2
      <4>2. \A e \in Actors \ {c} : caller'[e].answer # t
        BY <1>1, <2>2, <4>1 DEF OauInv, TokensAreIssued
      <4> QED
        BY <1>9, <2>2, <4>1, <4>2
    <3> QED
      BY <3>1, <3>2
  <2> QED
    BY <2>1, <2>2, UnusedNext
<1>11. RowsAreCurrent'
  BY <1>1 DEF OauInv, RowsAreCurrent
<1>12. AnswersHold'
  <2> SUFFICES ASSUME NEW d \in Actors
               PROVE  /\ caller'[d].at = "refused" /\ ~crossed /\ unanswered' = 0 /\ ~misread'
                           => caller'[d].row.refresh \notin provider'.honoured
                      /\ caller'[d].at = "answered" /\ caller'[d].answer = None
                           => ~provider'.rotates
    BY DEF AnswersHold
  <2>1. CASE d = c
    BY <1>1, <1>3, <1>4, <1>6, <2>1
  <2>2. CASE d # c
    <3>1. caller'[d] = caller[d]
      BY <1>1, <2>2
    <3>2. caller[d].at # "idle" => caller[d].row.refresh \in Issued \cup {None}
      BY DEF OauInv, RowsAreCurrent, TokensAreIssued
    <3> QED
      BY <1>3, <1>4, <3>1, <3>2 DEF OauInv, AnswersHold
  <2> QED
    BY <2>1, <2>2
<1>13. RowTellsTheTruth'
  <2> SUFFICES ASSUME connection # None
               PROVE  /\ connection.renewable => connection.refresh # None
                      /\ ~crossed /\ unanswered' = 0 =>
                           /\ connection.status = "revoked" /\ ~misread' =>
                                connection.refresh \notin provider'.honoured
                           /\ connection.status = "expired" => ~connection.renewable
                           /\ connection.status = "active" /\ connection.renewable =>
                                \/ connection.refresh \in Alive'
                                \/ \E d \in Actors : caller'[d].at = "answered"
    BY DEF RowTellsTheTruth
  <2>1. connection.refresh \in Issued \cup {None}
    BY DEF OauInv, TokensAreIssued
  <2>2. ASSUME ~crossed, unanswered' = 0, connection.status = "active", connection.renewable
        PROVE  connection.refresh \in Alive' \/ \E d \in Actors : caller'[d].at = "answered"
    <3>1. CASE lost = token
      BY <1>1, <2>2, <3>1
    <3>2. CASE lost # token
      <4>1. connection.refresh \in Alive \/ \E d \in Actors : caller[d].at = "answered"
        BY <2>2 DEF OauInv, RowTellsTheTruth
      <4>2. \A d \in Actors : caller[d].at = "answered" => caller'[d].at = "answered"
        BY <1>1
      <4> QED
        BY <1>3, <3>2, <4>1, <4>2
    <3> QED
      BY <3>1, <3>2
  <2> QED
    BY <1>4, <2>1, <2>2 DEF OauInv, RowTellsTheTruth
<1>14. CompletedByTheirOwn'
  BY DEF OauInv, CompletedByTheirOwn
<1> QED
  BY <1>2, <1>5, <1>10, <1>11, <1>12, <1>13, <1>14 DEF OauInv

(* The provider renews or refuses, and the answer arrives or not.          *)
LEMMA OauExchange ==
  ASSUME OauInv, NEW c \in Actors, O!Exchange(c) \/ O!ExchangeFails(c) \/ O!TurnedAway(c)
  PROVE  OauInv'
<1>0. PICK token : token = caller[c].row.refresh
  OBVIOUS
<1> DEFINE At(stage, answer) == [caller[c] EXCEPT !.at = stage, !.answer = answer]
<1>1. /\ caller[c].at = "exchanging" /\ token # None
      /\ UNCHANGED <<registered, connection, created, state, refreshing, completed, crossed>>
  BY <1>0 DEF O!Exchange, O!ExchangeFails, O!TurnedAway
<1>2. ASSUME NEW stage \in {"answered", "refused"}, NEW answer \in O!Token \cup {None}
      PROVE  /\ At(stage, answer) \in O!Call /\ At(stage, answer).at = stage
             /\ At(stage, answer).row = caller[c].row /\ At(stage, answer).answer = answer
  BY OauFacts DEF O!Call
<1>3. /\ unanswered \in 0 .. MaxLost /\ caller[c].answer \in O!Token \cup {None}
      /\ misread \in BOOLEAN
      /\ Grows(None) \/ ~UNCHANGED provider
  BY OauFacts, StillGrows DEF OauInv, O!OauTypeOK, O!Call
<1>4. CASE O!Exchange(c)
  <2>0. UNCHANGED <<unanswered, misread>>
    BY <1>4 DEF O!Exchange
  <2>1. CASE /\ O!Renew(token)
             /\ caller' = [caller EXCEPT ![c].at = "answered", ![c].answer =
                             IF provider.rotates THEN provider'.issued ELSE None]
    <3>1. CASE provider.rotates
      <4>1. /\ Grows(token) /\ provider'.issued \in Alive'
            /\ provider'.issued \in Issued' \ Issued
        BY <2>1, <3>1, RenewGrows
      <4>2. PICK answer : answer = provider'.issued
        OBVIOUS
      <4>3. answer \in O!Token /\ answer # None
        BY <4>1, <4>2, NoneAssumption DEF Grows, ProviderType, Alive, O!Token
      <4>4. caller' = [caller EXCEPT ![c] = At("answered", answer)]
        BY <2>1, <3>1, <4>2
      <4> HIDE DEF At
      <4>5. PICK new : new = At("answered", answer)
        OBVIOUS
      <4>6. /\ new \in O!Call /\ new.at = "answered" /\ new.row = caller[c].row
            /\ new.answer = answer
        BY <1>2, <4>3, <4>5
      <4>7. new.answer \in Alive' /\ new.answer \in Issued' \ Issued
        BY <4>1, <4>2, <4>6
      <4>8. caller' = [caller EXCEPT ![c] = new]
        BY <4>4, <4>5
      <4>9. /\ unanswered' \in 0 .. MaxLost /\ (unanswered' = 0 => unanswered = 0)
            /\ misread' \in BOOLEAN /\ (misread => misread')
        BY <1>3, <2>0
      <4> QED
        BY <1>0, <1>1, <4>1, <4>3, <4>6, <4>7, <4>8, <4>9, OauExchangeBy
    <3>2. CASE ~provider.rotates
      <4>1. UNCHANGED provider
        BY <2>1, <3>2, RenewGrows
      <4>2. caller' = [caller EXCEPT ![c] = At("answered", None)]
        BY <2>1, <3>2
      <4> HIDE DEF At
      <4>3. PICK new : new = At("answered", None)
        OBVIOUS
      <4>4. /\ new \in O!Call /\ new.at = "answered" /\ new.row = caller[c].row
            /\ new.answer \in {None, caller[c].answer}
        BY <1>2, <4>3
      <4>5. caller' = [caller EXCEPT ![c] = new]
        BY <4>2, <4>3
      <4>6. /\ unanswered' \in 0 .. MaxLost /\ (unanswered' = 0 => unanswered = 0)
            /\ misread' \in BOOLEAN /\ (misread => misread')
        BY <1>3, <2>0
      <4>7. PICK lost : lost = None /\ Grows(lost) /\ lost # token
        BY <1>1, <4>1, StillGrows
      <4> QED
        BY <1>0, <1>1, <3>2, <4>4, <4>5, <4>6, <4>7, OauExchangeBy
    <3>3. provider.rotates \in BOOLEAN
      BY OauFacts DEF ProviderType
    <3> QED
      BY <3>1, <3>2, <3>3
  <2>2. CASE /\ token \notin provider.honoured /\ UNCHANGED provider
             /\ caller' = [caller EXCEPT ![c].at = "refused"]
    <3>1. PICK answer : answer = caller[c].answer
      OBVIOUS
    <3>2. caller[c] \in O!Call
      BY OauFacts
    <3>3. [caller[c] EXCEPT !.at = "refused"] = At("refused", answer)
      BY <3>1, <3>2 DEF O!Call
    <3>4. caller' = [caller EXCEPT ![c] = At("refused", answer)]
      BY <2>2, <3>3
    <3> HIDE DEF At
    <3>5. PICK new : new = At("refused", answer)
      OBVIOUS
    <3>6. /\ new \in O!Call /\ new.at = "refused" /\ new.row = caller[c].row
          /\ new.answer \in {None, caller[c].answer}
      BY <1>2, <1>3, <3>1, <3>5
    <3>7. caller' = [caller EXCEPT ![c] = new]
      BY <3>4, <3>5
    <3>8. /\ unanswered' \in 0 .. MaxLost /\ (unanswered' = 0 => unanswered = 0)
          /\ misread' \in BOOLEAN /\ (misread => misread')
      BY <1>3, <2>0
    <3>9. PICK lost : lost = None /\ Grows(lost) /\ lost # token
      BY <1>1, <2>2, StillGrows
    <3> QED
      BY <1>0, <1>1, <2>2, <3>6, <3>7, <3>8, <3>9, OauExchangeBy
  <2> QED
    BY <1>0, <1>4, <2>1, <2>2 DEF O!Exchange
<1>5. CASE O!ExchangeFails(c)
  <2>1. /\ unanswered' = unanswered + 1 /\ unanswered < MaxLost
        /\ caller' = [caller EXCEPT ![c].at = "refused"]
        /\ O!Renew(token) \/ UNCHANGED provider
        /\ UNCHANGED misread
    BY <1>0, <1>5 DEF O!ExchangeFails
  <2>2. unanswered' \in 0 .. MaxLost /\ unanswered' # 0
    BY <1>3, <2>1, BoundsAssumption
  <2>3. PICK answer : answer = caller[c].answer
    OBVIOUS
  <2>4. caller[c] \in O!Call
    BY OauFacts
  <2>5. [caller[c] EXCEPT !.at = "refused"] = At("refused", answer)
    BY <2>3, <2>4 DEF O!Call
  <2>6. caller' = [caller EXCEPT ![c] = At("refused", answer)]
    BY <2>1, <2>5
  <2>7. PICK lost \in {token, None} : Grows(lost)
    BY <1>3, <2>1, RenewGrows
  <2> HIDE DEF At
  <2>8. PICK new : new = At("refused", answer)
    OBVIOUS
  <2>9. /\ new \in O!Call /\ new.at = "refused" /\ new.row = caller[c].row
        /\ new.answer \in {None, caller[c].answer}
    BY <1>2, <1>3, <2>3, <2>8
  <2>10. caller' = [caller EXCEPT ![c] = new]
    BY <2>6, <2>8
  <2>11. misread' \in BOOLEAN /\ (misread => misread')
    BY <1>3, <2>1
  <2> QED
    BY <1>0, <1>1, <2>2, <2>7, <2>9, <2>10, <2>11, OauExchangeBy
<1>6. CASE O!TurnedAway(c)
  <2>1. /\ UNCHANGED <<provider, unanswered>> /\ misread'
        /\ caller' = [caller EXCEPT ![c].at = "refused"]
    BY <1>6 DEF O!TurnedAway
  <2>2. PICK answer : answer = caller[c].answer
    OBVIOUS
  <2>3. caller[c] \in O!Call
    BY OauFacts
  <2>4. [caller[c] EXCEPT !.at = "refused"] = At("refused", answer)
    BY <2>2, <2>3 DEF O!Call
  <2>5. caller' = [caller EXCEPT ![c] = At("refused", answer)]
    BY <2>1, <2>4
  <2> HIDE DEF At
  <2>6. PICK new : new = At("refused", answer)
    OBVIOUS
  <2>7. /\ new \in O!Call /\ new.at = "refused" /\ new.row = caller[c].row
        /\ new.answer \in {None, caller[c].answer}
    BY <1>2, <1>3, <2>2, <2>6
  <2>8. caller' = [caller EXCEPT ![c] = new]
    BY <2>5, <2>6
  <2>9. /\ unanswered' \in 0 .. MaxLost /\ (unanswered' = 0 => unanswered = 0)
        /\ misread' \in BOOLEAN
    BY <1>3, <2>1 DEF O!TurnedAway
  <2>10. PICK lost : lost = None /\ Grows(lost) /\ lost # token
    BY <1>1, <2>1, StillGrows
  <2> QED
    BY <1>0, <1>1, <2>1, <2>7, <2>8, <2>9, <2>10, OauExchangeBy
<1> QED
  BY <1>4, <1>5, <1>6

--------------------------------------------------------------------------------
(* A call returns.  The row, if it is still the one the call read, keeps   *)
(* its token or takes the call's.                                          *)
LEMMA OauReturnBy ==
  ASSUME OauInv, NEW c \in Actors, O!Return(c),
         connection' \in O!OAuthConnectionRow \cup {None},
         connection' # None => /\ connection # None
                               /\ connection'.refresh \in {connection.refresh, caller[c].answer},
         RowTellsTheTruth'
  PROVE  OauInv'
<1>1. /\ caller' = [caller EXCEPT ![c] = O!Idle] /\ refreshing' = None
      /\ crossed' = (crossed \/ O!Refreshing # {c})
      /\ UNCHANGED <<registered, created, provider, state, completed, unanswered,
                     misread>>
  BY DEF O!Return
<1>2. O!Idle \in O!Call
  BY DEF O!Idle, O!Call
<1>3. caller'[c] = O!Idle /\ \A d \in Actors \ {c} : caller'[d] = caller[d]
  BY <1>1, OauFacts
<1>4. crossed' \in BOOLEAN
  BY <1>1 DEF OauInv, O!OauTypeOK
<1>5. O!OauTypeOK'
  BY <1>1, <1>2, <1>4 DEF OauInv, O!OauTypeOK
<1>6. Issued' = Issued /\ Alive' = Alive
  BY <1>1 DEF Issued, Alive
<1>7. TokensAreIssued'
  BY <1>1, <1>3, <1>6 DEF OauInv, TokensAreIssued, O!Idle
<1>8. \A t : t # caller[c].answer /\ Unused(t) => Unused(t)'
  BY <1>3, <1>6 DEF Unused, O!Idle
<1>9. NewTokensAreUnused'
  <2>1. ASSUME NEW z \in Values, NEW t, t = state'[z].refresh, t # None
        PROVE  /\ Unused(t)'
               /\ \A y \in Values \ {z} : state'[y].refresh # t
               /\ \A d \in Actors : caller'[d].answer # t
    <3>1. /\ Unused(t) /\ \A y \in Values \ {z} : state[y].refresh # t
          /\ \A d \in Actors : caller[d].answer # t
      BY <1>1, <2>1 DEF OauInv, NewTokensAreUnused, Unused
    <3> QED
      BY <1>1, <1>3, <1>8, <2>1, <3>1 DEF O!Idle
  <2>2. ASSUME NEW d \in Actors, NEW t, t = caller'[d].answer, t # None
        PROVE  Unused(t)' /\ \A e \in Actors \ {d} : caller'[e].answer # t
    <3>1. d # c /\ caller'[d] = caller[d]
      BY <1>3, <2>2 DEF O!Idle
    <3>2. Unused(t) /\ \A e \in Actors \ {d} : caller[e].answer # t
      BY <2>2, <3>1 DEF OauInv, NewTokensAreUnused, Unused
    <3> QED
      BY <1>3, <1>8, <2>2, <3>1, <3>2 DEF O!Idle
  <2> QED
    BY <2>1, <2>2, UnusedNext
<1>10. RowsAreCurrent'
  <2> SUFFICES ASSUME NEW d \in Actors, caller'[d].at # "idle"
               PROVE  /\ caller'[d].row # None /\ caller'[d].row.status = "active"
                      /\ caller'[d].row.expiring
                      /\ ~crossed' /\ connection' # None => connection' = caller'[d].row
    BY DEF RowsAreCurrent
  <2>1. d # c /\ caller'[d] = caller[d]
    BY <1>3 DEF O!Idle
  <2>2. crossed'
    BY <1>1, <2>1 DEF O!Refreshing
  <2> QED
    BY <2>1, <2>2 DEF OauInv, RowsAreCurrent
<1>11. AnswersHold' /\ CompletedByTheirOwn'
  <2>1. /\ caller'[c].at = "idle"
        /\ ~crossed' => ~crossed
    <3>1. caller'[c].at = "idle"
      BY <1>3 DEF O!Idle
    <3>2. ~crossed' => ~crossed
      BY <1>1, Zenon
    <3> QED
      BY <3>1, <3>2
  <2>2. AnswersHold'
    BY <1>1, <1>3, <2>1 DEF OauInv, AnswersHold
  <2> QED
    BY <1>1, <2>2 DEF OauInv, CompletedByTheirOwn
<1> QED
  BY <1>5, <1>7, <1>9, <1>10, <1>11 DEF OauInv

(* What the row says after the write.  A write that nothing crossed was to *)
(* the row the call had read, with nobody else under way.                  *)
LEMMA UncrossedReturn ==
  ASSUME OauInv, NEW c \in Actors, O!Return(c), ~crossed', caller[c].at # "idle"
  PROVE  /\ ~crossed /\ (connection # None => connection = caller[c].row)
         /\ \A d \in Actors \ {c} : caller[d].at = "idle"
<1>1. ~crossed /\ O!Refreshing = {c}
  BY DEF O!Return
<1> QED
  BY <1>1 DEF OauInv, RowsAreCurrent, O!Refreshing

(* A call stores what it was answered, gives the row up, or finds it gone. *)
LEMMA OauReturns ==
  ASSUME OauInv, NEW c \in Actors,
         O!SaveRefreshed(c) \/ O!SaveRefused(c) \/ O!SaveExpired(c) \/ O!NoClient(c)
  PROVE  OauInv'
<1>0. /\ caller[c].at # "idle" /\ O!Return(c)
  BY DEF O!SaveRefreshed, O!SaveRefused, O!SaveExpired, O!NoClient
<1>1. /\ UNCHANGED <<provider, unanswered, misread>> /\ Alive' = Alive
      /\ connection \in O!OAuthConnectionRow \cup {None}
      /\ caller[c].answer \in O!Token \cup {None}
  BY <1>0, OauFacts DEF O!Return, Alive, O!Call
<1>2. CASE O!SaveRefreshed(c)
  <2> DEFINE token == IF caller[c].answer = None THEN connection.refresh ELSE caller[c].answer
             new == [connection EXCEPT !.refresh = token, !.expiring = FALSE,
                                       !.status = "active"]
  <2>1. /\ caller[c].at = "answered"
        /\ connection' = IF connection # None /\ connection.id = caller[c].row.id
                           THEN new ELSE connection
    BY <1>2 DEF O!SaveRefreshed, O!UpdateRow, O!Refreshed
  <2>2. connection # None => token \in O!Token \cup {None}
    BY <1>1 DEF O!OAuthConnectionRow
  <2>3. token \in {connection.refresh, caller[c].answer}
    OBVIOUS
  <2>4. connection # None /\ connection.renewable => token # None
    BY DEF OauInv, RowTellsTheTruth
  <2>5. connection # None /\ token # None => token \in Alive
    <3>1. caller[c].answer # None => caller[c].answer \in Alive
      BY DEF OauInv, NewTokensAreUnused, Unused
    <3>2. caller[c].answer = None => Issued \subseteq Alive
      BY <2>1 DEF OauInv, AnswersHold, TokensAreIssued
    <3>3. connection # None => connection.refresh \in Issued \cup {None}
      BY DEF OauInv, TokensAreIssued
    <3> QED
      BY <3>1, <3>2, <3>3
  <2> HIDE DEF token
  <2>6. connection # None =>
          /\ new \in O!OAuthConnectionRow /\ new.refresh = token /\ new.status = "active"
          /\ new.renewable = connection.renewable
    BY <1>1, <2>2 DEF O!OAuthConnectionRow
  <2> HIDE DEF new
  <2>7. /\ connection' \in O!OAuthConnectionRow \cup {None}
        /\ connection' # None =>
             /\ connection # None
             /\ connection'.refresh \in {connection.refresh, caller[c].answer}
    BY <1>1, <2>1, <2>3, <2>6
  <2>8. ~crossed' /\ connection' # None => connection' = new /\ connection # None
    BY <1>0, <2>1, UncrossedReturn
  <2>9. connection' # None /\ connection'.renewable => connection'.refresh # None
    BY <2>1, <2>4, <2>6 DEF OauInv, RowTellsTheTruth
  <2>10. RowTellsTheTruth'
    BY <1>1, <2>4, <2>5, <2>6, <2>8, <2>9 DEF RowTellsTheTruth
  <2> QED
    BY <1>0, <2>7, <2>10, OauReturnBy
<1>3. CASE O!SaveRefused(c) \/ O!SaveExpired(c)
  <2>1. PICK status \in {"revoked", "expired"} :
          /\ connection' = IF connection # None /\ connection.id = caller[c].row.id
                             THEN [connection EXCEPT !.status = status] ELSE connection
          /\ status = "revoked" => caller[c].at = "refused"
          /\ status = "expired" => caller[c].row.refresh = None
    BY <1>3 DEF O!SaveRefused, O!SaveExpired, O!UpdateRow
  <2> DEFINE new == [connection EXCEPT !.status = status]
  <2>2. connection # None =>
          /\ new \in O!OAuthConnectionRow /\ new.refresh = connection.refresh
          /\ new.status = status /\ new.renewable = connection.renewable
    BY <1>1 DEF O!OAuthConnectionRow
  <2>3. connection' = IF connection # None /\ connection.id = caller[c].row.id
                        THEN new ELSE connection
    BY <2>1
  <2> HIDE DEF new
  <2>4. /\ connection' \in O!OAuthConnectionRow \cup {None}
        /\ connection' # None =>
             /\ connection # None
             /\ connection'.refresh \in {connection.refresh, caller[c].answer}
    BY <1>1, <2>2, <2>3
  <2>5. ~crossed' /\ connection' # None =>
          connection' = new /\ connection # None /\ connection = caller[c].row
    BY <1>0, <2>3, UncrossedReturn
  <2>6. connection' # None /\ connection'.renewable => connection'.refresh # None
    BY <2>2, <2>3 DEF OauInv, RowTellsTheTruth
  <2>7. ASSUME ~crossed', unanswered' = 0, connection' # None
        PROVE  /\ connection'.status = "revoked" /\ ~misread' =>
                    connection'.refresh \notin provider'.honoured
               /\ connection'.status = "expired" => ~connection'.renewable
               /\ connection'.status # "active"
    <3>1. /\ connection'.status = status /\ connection'.refresh = caller[c].row.refresh
          /\ connection'.renewable = connection.renewable
          /\ connection.refresh = caller[c].row.refresh /\ connection # None
      BY <2>2, <2>5, <2>7
    <3>2. status = "revoked" /\ ~misread' => caller[c].row.refresh \notin provider.honoured
      BY <1>0, <1>1, <2>1, <2>7, UncrossedReturn DEF OauInv, AnswersHold
    <3>3. status = "expired" => ~connection.renewable
      BY <2>1, <3>1 DEF OauInv, RowTellsTheTruth
    <3> QED
      BY <1>1, <3>1, <3>2, <3>3
  <2>8. RowTellsTheTruth'
    BY <2>6, <2>7 DEF RowTellsTheTruth
  <2> QED
    BY <1>0, <2>4, <2>8, OauReturnBy
<1>4. CASE O!NoClient(c)
  <2>1. UNCHANGED connection /\ caller[c].at = "exchanging"
    BY <1>4 DEF O!NoClient
  <2>2. ~crossed' => ~crossed /\ ~ \E d \in Actors : caller[d].at = "answered"
    BY <1>0, <2>1, UncrossedReturn
  <2>3. RowTellsTheTruth'
    BY <1>1, <2>1, <2>2 DEF OauInv, RowTellsTheTruth
  <2> QED
    BY <1>0, <1>1, <2>1, <2>3, OauReturnBy
<1> QED
  BY <1>2, <1>3, <1>4

(* Every step keeps the invariant.                                         *)
LEMMA OauInvStep == OauInv /\ [MCNext]_mcVars => OauInv'
<1> SUFFICES ASSUME OauInv, O!OauNext \/ UNCHANGED oauVars PROVE OauInv'
  BY DEF MCNext, mcVars, Flow, Loop, Mcp, Integration, Source, Model, Key
<1>1. CASE O!OauNext
  BY <1>1, OauQuiet, OauExchangeCode, OauWithdraw, OauRow, OauConnect, OauRead, OauMoves,
     OauExchange, OauReturns DEF O!OauNext
<1>2. CASE UNCHANGED oauVars
  <2>1. CompletedByTheirOwn' /\ O!OauTypeOK'
    BY <1>2 DEF oauVars, OauInv, O!OauTypeOK, CompletedByTheirOwn
  <2>2. /\ registered' \in BOOLEAN /\ refreshing' \in Actors \cup {None}
        /\ state' \in [Values -> O!Authorization]
        /\ completed' \subseteq Values \X People \X People
    BY <2>1 DEF O!OauTypeOK
  <2> QED
    BY <1>2, <2>1, <2>2, OauQuietBy DEF oauVars
<1> QED
  BY <1>1, <1>2

--------------------------------------------------------------------------------
(* MCP SERVERS.  Whose id a row has, and whose tools a cached list names.  *)

(* An id is known under one owner, in its row or in a save of it.          *)
Carries(o, i) ==
  \/ server[o] # None /\ server[o].id = i
  \/ \E s \in Savers : saving[s] # None /\ saving[s].owner = o /\ saving[s].id = i

(* No id has two owners, and none is to come.                              *)
IdsAreOwned ==
  \A o \in P!Owners, i \in Nat : Carries(o, i) =>
    i <= inserted /\ \A u \in P!Owners : Carries(u, i) => u = o

(* Without a save in between, a discovery asks the URL of the row it will  *)
(* write, and a cached list is one the row's URL advertised.               *)
DiscoveriesFit ==
  ~stale =>
    \A k \in Checks, o \in P!Owners :
      checking[k] # None /\ server[o] # None /\ server[o].id = checking[k].row.id
        => server[o].url = checking[k].row.url

(* The lists that are cached.                                              *)
ListsFit ==
  ~stale =>
    \A o \in P!Owners : server[o] # None => server[o].cache \subseteq Advertises[server[o].url]

(* The call that reached a server last.                                    *)
CallsWereMeant ==
  posted # None =>
    /\ posted.enabled /\ (posted.allowed = {} \/ posted.tool \in posted.allowed)
    /\ posted.owned => posted.to = "own"

(* The inductive invariant.  ListsFit alone is not one: a discovery finds  *)
(* its row by an id, which must not have become another's.                 *)
McpInv == P!McpTypeOK /\ IdsAreOwned /\ DiscoveriesFit /\ ListsFit /\ CallsWereMeant

(* No server is configured at the start.                                   *)
LEMMA McpInvInit == MCInit => McpInv
<1> SUFFICES ASSUME MCInit PROVE McpInv
  OBVIOUS
<1> USE DEF MCInit, P!McpInit
<1>1. saves \in 0 .. MaxSaves /\ ages \in 0 .. MaxAges
  BY BoundsAssumption
<1>2. P!McpTypeOK
  BY <1>1 DEF P!McpTypeOK
<1> QED
  BY <1>2 DEF McpInv, IdsAreOwned, Carries, DiscoveriesFit, ListsFit, CallsWereMeant

(* A save that begins: it takes the row's id, or the next one.             *)
LEMMA McpBeginSave ==
  ASSUME McpInv, NEW s \in Savers, NEW o \in P!Owners, NEW url \in Urls,
         NEW enabled \in BOOLEAN, NEW allowed \in Allowlists,
         P!BeginSave(s, o, url, enabled, allowed)
  PROVE  McpInv'
<1> DEFINE id == IF server[o] = None THEN inserted + 1 ELSE server[o].id
           new == [owner |-> o, id |-> id, same |-> server[o] # None /\ server[o].url = url,
                   url |-> url, enabled |-> enabled, allowed |-> allowed]
<1>1. /\ saving[s] = None /\ saving' = [saving EXCEPT ![s] = new]
      /\ inserted' = IF server[o] = None THEN inserted + 1 ELSE inserted
      /\ UNCHANGED <<server, checking, offered, posted, ages, stale>>
  BY DEF P!BeginSave
<1>2. inserted \in Nat /\ inserted' \in Nat /\ inserted <= inserted'
  BY <1>1 DEF McpInv, P!McpTypeOK
<1>3. saves' \in 0 .. MaxSaves
  BY BoundsAssumption DEF McpInv, P!McpTypeOK, P!BeginSave
<1>4. id \in Nat
  BY <1>2 DEF McpInv, P!McpTypeOK, P!McpServerRow
<1>5. \/ server[o] = None /\ id = inserted + 1 /\ inserted' = id
      \/ Carries(o, id) /\ inserted' = inserted
  BY <1>1 DEF Carries
<1> HIDE DEF id
<1>6. new \in P!Save /\ new.owner = o /\ new.id = id
  BY <1>4, ToolsAssumption DEF P!Save
<1> HIDE DEF new
<1>7. P!McpTypeOK'
  BY <1>1, <1>2, <1>3, <1>6 DEF McpInv, P!McpTypeOK
<1>8. \A u \in P!Owners, i \in Nat : Carries(u, i)' => Carries(u, i) \/ (u = o /\ i = id)
  BY <1>1, <1>6 DEF Carries, McpInv, P!McpTypeOK
<1>9. IdsAreOwned'
  <2> SUFFICES ASSUME NEW a \in P!Owners, NEW i \in Nat, Carries(a, i)'
               PROVE  i <= inserted' /\ \A u \in P!Owners : Carries(u, i)' => u = a
    BY DEF IdsAreOwned
  <2>1. ASSUME NEW u \in P!Owners, NEW j \in Nat, Carries(u, j)
        PROVE  j <= inserted /\ \A v \in P!Owners : Carries(v, j) => v = u
    BY <2>1 DEF McpInv, IdsAreOwned
  <2>2. CASE id = inserted + 1 /\ inserted' = id
    BY <1>2, <1>4, <1>8, <2>1, <2>2
  <2>3. CASE Carries(o, id) /\ inserted' = inserted
    <3>1. \A u \in P!Owners : Carries(u, i)' => Carries(u, i)
      BY <1>8, <2>3
    <3> QED
      BY <2>1, <2>3, <3>1
  <2> QED
    BY <1>5, <2>2, <2>3
<1>10. DiscoveriesFit' /\ ListsFit' /\ CallsWereMeant'
  BY <1>1 DEF McpInv, DiscoveriesFit, ListsFit, CallsWereMeant
<1> QED
  BY <1>7, <1>9, <1>10 DEF McpInv

(* A save that ends, which overtakes every discovery.                      *)
LEMMA McpFinishSave ==
  ASSUME McpInv, NEW s \in Savers, P!FinishSave(s)
  PROVE  McpInv'
<1> DEFINE save == saving[s]
           o == save.owner
           list == IF server[o] = None THEN P!Fresh ELSE P!Cached(server[o], save)
           new == [id |-> save.id, url |-> save.url, enabled |-> save.enabled,
                   allowed |-> save.allowed, cache |-> list.cache, fresh |-> list.fresh]
<1>1. /\ save # None /\ saving' = [saving EXCEPT ![s] = None]
      /\ UNCHANGED <<inserted, checking, offered, posted, saves, ages>>
  BY DEF P!FinishSave
<1>2. stale' = (stale \/ (\E k \in Checks : checking[k] # None)
                      \/ (server[o] # None /\ save.same # (server[o].url = save.url)))
  BY DEF P!FinishSave
<1>3. \/ server' = server
      \/ /\ server[o] = None \/ server[o].id = save.id
         /\ server' = [server EXCEPT ![o] = new]
  BY DEF P!FinishSave
<1>4. /\ save \in P!Save /\ o \in P!Owners /\ save.id \in Nat /\ save.url \in Urls
      /\ save.allowed \in SUBSET Tools /\ save.enabled \in BOOLEAN
  BY <1>1 DEF McpInv, P!McpTypeOK, P!Save
<1>5. list.cache \in SUBSET Tools /\ list.fresh \in BOOLEAN
  BY <1>4 DEF P!Fresh, P!Cached, McpInv, P!McpTypeOK, P!McpServerRow
<1>6. ~stale' => list.cache \subseteq Advertises[save.url]
  <2>1. CASE server[o] = None
    BY <2>1 DEF P!Fresh
  <2>2. CASE server[o] # None
    <3>1. ~stale' => ~stale /\ save.same = (server[o].url = save.url)
      BY <1>2, <2>2, NoneAssumption DEF McpInv, P!McpTypeOK
    <3>2. list.cache = IF save.same THEN server[o].cache ELSE {}
      BY <2>2 DEF P!Cached
    <3>3. ~stale => server[o].cache \subseteq Advertises[server[o].url]
      BY <1>4, <2>2 DEF McpInv, ListsFit
    <3> QED
      BY <3>1, <3>2, <3>3
  <2> QED
    BY <2>1, <2>2
<1> HIDE DEF list
<1>7. new \in P!McpServerRow /\ new.id = save.id /\ new.url = save.url /\ new.cache = list.cache
  BY <1>4, <1>5 DEF P!McpServerRow
<1> HIDE DEF new
<1>8. stale' \in BOOLEAN
  BY <1>2 DEF McpInv, P!McpTypeOK
<1>9. P!McpTypeOK'
  BY <1>1, <1>3, <1>4, <1>7, <1>8 DEF McpInv, P!McpTypeOK
<1>10. \A u \in P!Owners, i \in Nat : Carries(u, i)' => Carries(u, i)
  <2> SUFFICES ASSUME NEW u \in P!Owners, NEW i \in Nat, Carries(u, i)'
               PROVE  Carries(u, i)
    OBVIOUS
  <2>1. Carries(o, save.id)
    BY <1>1 DEF Carries
  <2>2. CASE \E t \in Savers : saving'[t] # None /\ saving'[t].owner = u /\ saving'[t].id = i
    BY <1>1, <2>2 DEF Carries, McpInv, P!McpTypeOK
  <2>3. CASE server'[u] # None /\ server'[u].id = i
    BY <1>3, <1>4, <1>7, <2>1, <2>3 DEF Carries, McpInv, P!McpTypeOK
  <2> QED
    BY <2>2, <2>3 DEF Carries
<1>11. IdsAreOwned'
  BY <1>1, <1>10 DEF McpInv, IdsAreOwned
<1>12. DiscoveriesFit'
  BY <1>1, <1>2 DEF DiscoveriesFit
<1>13. ListsFit'
  BY <1>2, <1>3, <1>4, <1>6, <1>7 DEF McpInv, ListsFit, P!McpTypeOK
<1>14. CallsWereMeant'
  BY <1>1 DEF McpInv, CallsWereMeant
<1> QED
  BY <1>9, <1>11, <1>12, <1>13, <1>14 DEF McpInv

(* A row that is removed or whose cache ages.                              *)
LEMMA McpRows ==
  ASSUME McpInv, NEW o \in P!Owners, P!RemoveServer(o) \/ P!CacheAges(o)
  PROVE  McpInv'
<1> DEFINE new == [server[o] EXCEPT !.fresh = FALSE]
<1>1. UNCHANGED <<inserted, saving, checking, offered, posted, saves, stale>>
  BY DEF P!RemoveServer, P!CacheAges
<1>2. /\ server[o] # None
      /\ \/ server' = [server EXCEPT ![o] = None]
         \/ server' = [server EXCEPT ![o] = new]
  BY DEF P!RemoveServer, P!CacheAges
<1>3. ages' \in 0 .. MaxAges
  BY BoundsAssumption DEF McpInv, P!McpTypeOK, P!RemoveServer, P!CacheAges
<1>4. /\ new \in P!McpServerRow /\ new.id = server[o].id /\ new.url = server[o].url
      /\ new.cache = server[o].cache
  BY <1>2 DEF McpInv, P!McpTypeOK, P!McpServerRow
<1> HIDE DEF new
<1>5. P!McpTypeOK'
  BY <1>1, <1>2, <1>3, <1>4 DEF McpInv, P!McpTypeOK
<1>6. \A u \in P!Owners : server'[u] # None =>
        /\ server[u] # None /\ server'[u].id = server[u].id
        /\ server'[u].url = server[u].url /\ server'[u].cache = server[u].cache
  BY <1>2, <1>4 DEF McpInv, P!McpTypeOK
<1>7. \A u \in P!Owners, i \in Nat : Carries(u, i)' => Carries(u, i)
  BY <1>1, <1>6 DEF Carries
<1>8. IdsAreOwned'
  BY <1>1, <1>7 DEF McpInv, IdsAreOwned
<1>9. DiscoveriesFit' /\ ListsFit' /\ CallsWereMeant'
  BY <1>1, <1>6 DEF McpInv, DiscoveriesFit, ListsFit, CallsWereMeant
<1> QED
  BY <1>5, <1>8, <1>9 DEF McpInv

(* A discovery that begins, for a screen or for a run: no other owner has  *)
(* a row of that id.                                                       *)
LEMMA DiscoveryBegins ==
  ASSUME McpInv, NEW k \in Checks, NEW o \in P!Owners, NEW r \in Runs \cup {None},
         server[o] # None,
         checking' = [checking EXCEPT ![k] = [row |-> server[o], for |-> r]],
         UNCHANGED <<server, inserted, saving, offered, posted, saves, ages, stale>>
  PROVE  McpInv'
<1> DEFINE new == [row |-> server[o], for |-> r]
<1>1. server[o] \in P!McpServerRow /\ server[o].id \in Nat
  BY DEF McpInv, P!McpTypeOK, P!McpServerRow
<1>2. new \in P!Discovery /\ new.row = server[o]
  BY <1>1 DEF P!Discovery
<1>3. checking' = [checking EXCEPT ![k] = new]
  OBVIOUS
<1> HIDE DEF new
<1>4. P!McpTypeOK'
  BY <1>2, <1>3 DEF McpInv, P!McpTypeOK
<1>5. \A u \in P!Owners : server[u] # None /\ server[u].id = server[o].id => u = o
  BY <1>1 DEF McpInv, IdsAreOwned, Carries
<1>6. DiscoveriesFit'
  BY <1>2, <1>3, <1>5 DEF McpInv, DiscoveriesFit, P!McpTypeOK
<1>7. IdsAreOwned' /\ ListsFit' /\ CallsWereMeant'
  BY DEF McpInv, IdsAreOwned, Carries, ListsFit, CallsWereMeant
<1> QED
  BY <1>4, <1>6, <1>7 DEF McpInv

(* A discovery that ends.                                                  *)
LEMMA DiscoveryEnds ==
  ASSUME McpInv, NEW k \in Checks, P!CacheTools(k) \/ P!DiscoverFails(k)
  PROVE  McpInv'
<1>1. /\ checking[k] \in P!Discovery /\ checking[k] # None
      /\ checking' = [checking EXCEPT ![k] = None]
      /\ UNCHANGED <<inserted, saving, posted, saves, ages, stale>>
  BY DEF P!CacheTools, P!DiscoverFails, McpInv, P!McpTypeOK
<1>2. /\ checking[k].row \in P!McpServerRow /\ checking[k].for \in Runs \cup {None}
      /\ checking[k].row.url \in Urls /\ checking[k].row.cache \in SUBSET Tools
  BY <1>1 DEF P!Discovery, P!McpServerRow
<1>3. CASE P!CacheTools(k)
  <2> DEFINE asking == checking[k]
             tools == Advertises[asking.row.url]
             New(o) == [server[o] EXCEPT !.cache = tools, !.fresh = TRUE]
  <2>1. server' = [o \in P!Owners |->
           IF server[o] # None /\ server[o].id = asking.row.id THEN New(o) ELSE server[o]]
    BY <1>3 DEF P!CacheTools
  <2>2. offered' = IF asking.for = None THEN offered
                   ELSE [offered EXCEPT ![asking.for] = tools]
    BY <1>3 DEF P!CacheTools
  <2>3. tools \in SUBSET Tools
    BY <1>2, ToolsAssumption
  <2> HIDE DEF tools
  <2>4. \A o \in P!Owners : server[o] # None =>
          /\ New(o) \in P!McpServerRow /\ New(o).id = server[o].id
          /\ New(o).url = server[o].url /\ New(o).cache = tools
    BY <2>3 DEF McpInv, P!McpTypeOK, P!McpServerRow
  <2> HIDE DEF New
  <2>5. offered' \in [Runs -> (SUBSET Tools) \cup {None}]
    BY <1>2, <2>2, <2>3 DEF McpInv, P!McpTypeOK
  <2>6. server' \in [P!Owners -> P!McpServerRow \cup {None}]
    BY <2>1, <2>4 DEF McpInv, P!McpTypeOK
  <2>7. P!McpTypeOK'
    BY <1>1, <2>5, <2>6 DEF McpInv, P!McpTypeOK
  <2>8. \A u \in P!Owners : server'[u] # None =>
          /\ server[u] # None /\ server'[u].id = server[u].id
          /\ server'[u].url = server[u].url
          /\ \/ server'[u].cache = server[u].cache
             \/ server[u].id = asking.row.id /\ server'[u].cache = tools
    BY <2>1, <2>4
  <2>9. \A u \in P!Owners, i \in Nat : Carries(u, i)' => Carries(u, i)
    BY <1>1, <2>8 DEF Carries
  <2>10. IdsAreOwned'
    BY <1>1, <2>9 DEF McpInv, IdsAreOwned
  <2>11. DiscoveriesFit'
    BY <1>1, <2>8 DEF McpInv, DiscoveriesFit, P!McpTypeOK
  <2>12. ListsFit'
    <3> SUFFICES ASSUME ~stale, NEW o \in P!Owners, server'[o] # None
                 PROVE  server'[o].cache \subseteq Advertises[server'[o].url]
      BY <1>1 DEF ListsFit
    <3>1. server[o].cache \subseteq Advertises[server[o].url]
      BY <2>8 DEF McpInv, ListsFit
    <3>2. server[o].id = asking.row.id => server[o].url = asking.row.url
      BY <1>1, <2>8 DEF McpInv, DiscoveriesFit
    <3> QED
      BY <2>8, <3>1, <3>2 DEF tools
  <2>13. CallsWereMeant'
    BY <1>1 DEF McpInv, CallsWereMeant
  <2> QED
    BY <2>7, <2>10, <2>11, <2>12, <2>13 DEF McpInv
<1>4. CASE P!DiscoverFails(k)
  <2>1. /\ server' = server
        /\ offered' = IF checking[k].for = None THEN offered
                      ELSE [offered EXCEPT ![checking[k].for] = checking[k].row.cache]
    BY <1>4 DEF P!DiscoverFails
  <2>2. offered' \in [Runs -> (SUBSET Tools) \cup {None}]
    BY <1>2, <2>1 DEF McpInv, P!McpTypeOK
  <2>3. P!McpTypeOK'
    BY <1>1, <2>1, <2>2 DEF McpInv, P!McpTypeOK
  <2>4. DiscoveriesFit'
    BY <1>1, <2>1 DEF McpInv, DiscoveriesFit, P!McpTypeOK
  <2>5. IdsAreOwned' /\ ListsFit' /\ CallsWereMeant'
    BY <1>1, <2>1 DEF McpInv, IdsAreOwned, Carries, ListsFit, CallsWereMeant
  <2> QED
    BY <2>3, <2>4, <2>5 DEF McpInv
<1> QED
  BY <1>3, <1>4

(* A run lists tools and calls one.                                        *)
LEMMA McpRuns ==
  ASSUME McpInv, NEW r \in Runs,
         \/ \E k \in Checks : P!ListTools(r, k)
         \/ \E tool \in Tools : P!CallTool(r, tool)
  PROVE  McpInv'
<1>0. P!Resolved \in P!Owners /\ (server["own"] # None => P!Resolved = "own")
  BY DEF P!Resolved, P!Owners
<1>1. ASSUME NEW k \in Checks, P!ListTools(r, k)
      PROVE  McpInv'
  <2>1. UNCHANGED <<server, inserted, saving, posted, saves, ages, stale>>
    BY <1>1 DEF P!ListTools
  <2>2. CASE UNCHANGED checking
    <3>1. \/ offered' = [offered EXCEPT ![r] = {}]
          \/ /\ server[P!Resolved] # None
             /\ offered' = [offered EXCEPT ![r] = server[P!Resolved].cache]
          \/ /\ UNCHANGED offered
      BY <1>1 DEF P!ListTools
    <3>2. server[P!Resolved] # None => server[P!Resolved].cache \in SUBSET Tools
      BY <1>0 DEF McpInv, P!McpTypeOK, P!McpServerRow
    <3>3. offered' \in [Runs -> (SUBSET Tools) \cup {None}]
      BY <3>1, <3>2 DEF McpInv, P!McpTypeOK
    <3>4. P!McpTypeOK'
      BY <2>1, <2>2, <3>3 DEF McpInv, P!McpTypeOK
    <3>5. DiscoveriesFit' /\ IdsAreOwned' /\ ListsFit' /\ CallsWereMeant'
      BY <2>1, <2>2 DEF McpInv, DiscoveriesFit, IdsAreOwned, Carries, ListsFit, CallsWereMeant
    <3> QED
      BY <3>4, <3>5 DEF McpInv
  <2>3. CASE /\ server[P!Resolved] # None /\ UNCHANGED offered
             /\ checking' = [checking EXCEPT ![k] = [row |-> server[P!Resolved], for |-> r]]
    BY <1>0, <2>1, <2>3, DiscoveryBegins
  <2> QED
    BY <1>1, <2>2, <2>3 DEF P!ListTools
<1>2. ASSUME NEW tool \in Tools, P!CallTool(r, tool)
      PROVE  McpInv'
  <2> DEFINE row == server[P!Resolved]
             new == [to |-> P!Resolved, owned |-> server["own"] # None, tool |-> tool,
                     enabled |-> row.enabled, allowed |-> row.allowed]
  <2>1. /\ posted' = new /\ row # None /\ row.enabled /\ P!Allows(row, tool)
        /\ UNCHANGED <<server, inserted, saving, checking, offered, saves, ages, stale>>
    BY <1>2 DEF P!CallTool, P!MayCall
  <2>2. row \in P!McpServerRow /\ row.allowed \in SUBSET Tools /\ row.enabled \in BOOLEAN
    BY <1>0, <2>1 DEF McpInv, P!McpTypeOK, P!McpServerRow
  <2>3. new \in P!Posted
    BY <1>0, <2>2 DEF P!Posted
  <2>4. /\ new.enabled /\ (new.allowed = {} \/ new.tool \in new.allowed)
        /\ new.owned => new.to = "own"
    BY <1>0, <2>1 DEF P!Allows
  <2> HIDE DEF new
  <2>5. P!McpTypeOK'
    BY <2>1, <2>3 DEF McpInv, P!McpTypeOK
  <2>6. CallsWereMeant'
    BY <2>1, <2>4 DEF CallsWereMeant
  <2>7. DiscoveriesFit' /\ IdsAreOwned' /\ ListsFit'
    BY <2>1 DEF McpInv, DiscoveriesFit, IdsAreOwned, Carries, ListsFit
  <2> QED
    BY <2>5, <2>6, <2>7 DEF McpInv
<1> QED
  BY <1>1, <1>2

(* Every step keeps the invariant.                                         *)
LEMMA McpInvStep == McpInv /\ [MCNext]_mcVars => McpInv'
<1> SUFFICES ASSUME McpInv, P!McpNext \/ UNCHANGED mcpVars PROVE McpInv'
  BY DEF MCNext, mcVars, Flow, Loop, OAuth, Integration, Source, Model, Key
<1>1. CASE P!McpNext
  <2>1. ASSUME NEW k \in Checks, NEW o \in P!Owners, P!BeginDiscover(k, o)
        PROVE  McpInv'
    BY <2>1, DiscoveryBegins DEF P!BeginDiscover
  <2> QED
    BY <1>1, <2>1, McpBeginSave, McpFinishSave, McpRows, DiscoveryEnds, McpRuns DEF P!McpNext
<1>2. CASE UNCHANGED mcpVars
  <2>1. P!McpTypeOK'
    BY <1>2 DEF mcpVars, McpInv, P!McpTypeOK
  <2>2. IdsAreOwned' /\ DiscoveriesFit' /\ ListsFit' /\ CallsWereMeant'
    BY <1>2 DEF mcpVars, McpInv, IdsAreOwned, Carries, DiscoveriesFit, ListsFit,
                CallsWereMeant
  <2> QED
    BY <2>1, <2>2 DEF McpInv
<1> QED
  BY <1>1, <1>2

(* What the invariant says of the calls.                                   *)
LEMMA McpInvMeans == McpInv => P!CallsTheRightServer
BY DEF McpInv, ListsFit, CallsWereMeant, P!CallsTheRightServer

--------------------------------------------------------------------------------
(* INTEGRATIONS.  Whose row an id names, and whose key is used.            *)

(* The id an owner's row has.                                              *)
IdOf(o) == I!RowId(o, <<Slug>>)

(* A row belongs to the owner its id names, and mail is the deployment's.  *)
RowsAreOwned ==
  /\ \A o \in I!Owners : integration[IdOf(o)] # None => integration[IdOf(o)].owner = o
  /\ \A i \in I!Ids : integration[i] # None /\ integration[i].kind = "email"
                        => integration[i].owner = None
  /\ \A s \in People : keeping[s] # None /\ keeping[s].kind = "email"
                         => keeping[s].owner = None

(* A row keeps the key it was last given, and none is kept without a row.  *)
KeysAreKept ==
  \A i \in I!Ids : keys[i] = IF integration[i] = None THEN 0 ELSE integration[i].secret

(* What runs and checks have used.                                         *)
UsesAreOwn ==
  /\ \A r \in Runs :
       touched[r] # None =>
         /\ touched[r].row.owner \in {touched[r].by, None}
         /\ touched[r].owned => touched[r].row.owner = touched[r].by
         /\ touched[r].row.kind = "email" => touched[r].row.owner = None
  /\ tested # None /\ ~vanished => tested[1] = tested[2]

(* The row of who asked for a check is there unless it vanished.           *)
ChecksFindTheirRow ==
  ~vanished => \A k \in Checks, o \in I!Owners : testing[k] = o => integration[IdOf(o)] # None

(* The inductive invariant.                                                *)
IntInv == I!IntTypeOK /\ RowsAreOwned /\ KeysAreKept /\ UsesAreOwn /\ ChecksFindTheirRow

(* Ids are different for different owners.                                 *)
LEMMA IdsDiffer ==
  /\ \A o \in I!Owners : IdOf(o) \in I!Ids
  /\ \A o, u \in I!Owners : IdOf(o) = IdOf(u) => o = u
  /\ \A i \in I!Ids : \E o \in I!Owners : i = IdOf(o)
  /\ IdOf(None) = <<Slug>> /\ \A w \in Actors : IdOf(w) = I!ComposeConnectionId(w, <<Slug>>)
<1>1. \A o \in I!Owners : IdOf(o) \in I!Ids
  BY DEF IdOf, I!Ids
<1>2. \A i \in I!Ids : \E o \in I!Owners : i = IdOf(o)
  BY DEF IdOf, I!Ids
<1>3. IdOf(None) = <<Slug>>
  BY DEF IdOf, I!RowId
<1>4. \A w \in Actors : IdOf(w) = I!ComposeConnectionId(w, <<Slug>>)
  BY NoneAssumption DEF IdOf, I!RowId
<1>5. ASSUME NEW w \in Actors
      PROVE  Len(IdOf(w)) = 2 /\ IdOf(w)[1] = w
  <2>1. IdOf(w) = <<w>> \o <<Slug>>
    BY <1>4 DEF I!ComposeConnectionId
  <2>2. <<w>> \in Seq(Actors \cup {Slug}) /\ <<Slug>> \in Seq(Actors \cup {Slug})
    OBVIOUS
  <2>3. Len(<<w>>) = 1 /\ Len(<<Slug>>) = 1 /\ <<w>>[1] = w
    OBVIOUS
  <2> QED
    BY <2>1, <2>2, <2>3, ConcatProperties
<1>6. Len(IdOf(None)) = 1
  BY <1>3
<1>7. \A o, u \in I!Owners : IdOf(o) = IdOf(u) => o = u
  BY <1>5, <1>6 DEF I!Owners
<1> QED
  BY <1>1, <1>2, <1>3, <1>4, <1>7

(* Nothing is connected at the start.                                      *)
LEMMA IntInvInit == MCInit => IntInv
<1> SUFFICES ASSUME MCInit PROVE IntInv
  OBVIOUS
<1> USE DEF MCInit, I!IntInit
<1>1. kept \in 0 .. MaxSaves
  BY BoundsAssumption
<1>2. I!IntTypeOK
  BY <1>1 DEF I!IntTypeOK
<1>3. RowsAreOwned /\ KeysAreKept /\ UsesAreOwn
  BY IdsDiffer DEF RowsAreOwned, KeysAreKept, UsesAreOwn
<1>4. ChecksFindTheirRow
  BY NoneAssumption DEF ChecksFindTheirRow, I!Owners
<1> QED
  BY <1>2, <1>3, <1>4 DEF IntInv

(* Saves.                                                                  *)
LEMMA IntBeginSave ==
  ASSUME IntInv, NEW s \in People, NEW o \in I!Owners, NEW kind \in I!Kinds,
         NEW enabled \in BOOLEAN, NEW given \in BOOLEAN,
         I!BeginSave(s, o, kind, enabled, given)
  PROVE  IntInv'
<1> DEFINE new == [owner |-> o, found |-> integration[IdOf(o)] # None, kind |-> kind,
                   enabled |-> enabled, secret |-> IF given THEN kept + 1 ELSE 0]
<1>1. /\ keeping' = [keeping EXCEPT ![s] = new] /\ (o # None => kind # "email")
      /\ UNCHANGED <<integration, touched, keys, testing, tested, vanished>>
  BY DEF I!BeginSave, IdOf
<1>2. kept' \in 0 .. MaxSaves /\ kept \in Nat
  BY BoundsAssumption DEF IntInv, I!IntTypeOK, I!BeginSave
<1>3. new \in I!Save /\ new.kind = kind /\ new.owner = o
  BY <1>2 DEF I!Save
<1> HIDE DEF new
<1>4. I!IntTypeOK'
  BY <1>1, <1>2, <1>3 DEF IntInv, I!IntTypeOK
<1>5. RowsAreOwned'
  BY <1>1, <1>3 DEF IntInv, RowsAreOwned, I!IntTypeOK
<1>6. KeysAreKept' /\ UsesAreOwn' /\ ChecksFindTheirRow'
  BY <1>1 DEF IntInv, KeysAreKept, UsesAreOwn, ChecksFindTheirRow
<1> QED
  BY <1>4, <1>5, <1>6 DEF IntInv

(* A save writes the row its owner's id names.                             *)
LEMMA IntFinishSave ==
  ASSUME IntInv, NEW s \in People, I!FinishSave(s)
  PROVE  IntInv'
<1> DEFINE save == keeping[s]
           id == IdOf(save.owner)
           new == I!Saved(integration[id], save)
<1>1. /\ save \in I!Save /\ save # None /\ keeping' = [keeping EXCEPT ![s] = None]
      /\ UNCHANGED <<touched, testing, tested, vanished, kept>>
  BY DEF IntInv, I!IntTypeOK, I!FinishSave
<1>2. /\ save.owner \in I!Owners /\ save.kind \in I!Kinds /\ save.secret \in Nat
      /\ save.enabled \in BOOLEAN /\ id \in I!Ids
  BY <1>1, IdsDiffer DEF I!Save
<1>3. \/ UNCHANGED <<integration, keys>>
      \/ /\ integration' = [integration EXCEPT ![id] = new]
         /\ keys' = IF save.secret = 0 THEN keys ELSE [keys EXCEPT ![id] = save.secret]
  BY DEF I!FinishSave, IdOf
<1>4. keeping' \in [People -> I!Save \cup {None}]
  BY <1>1 DEF IntInv, I!IntTypeOK
<1>5. \A t \in People : keeping'[t] # None => keeping'[t] = keeping[t]
  BY <1>1 DEF IntInv, I!IntTypeOK
<1>6. save.kind = "email" => save.owner = None
  BY <1>1 DEF IntInv, RowsAreOwned
<1>7. CASE UNCHANGED <<integration, keys>>
  <2>1. I!IntTypeOK'
    BY <1>1, <1>4, <1>7 DEF IntInv, I!IntTypeOK
  <2>2. RowsAreOwned' /\ KeysAreKept' /\ UsesAreOwn' /\ ChecksFindTheirRow'
    BY <1>1, <1>5, <1>7 DEF IntInv, RowsAreOwned, KeysAreKept, UsesAreOwn,
                            ChecksFindTheirRow
  <2> QED
    BY <2>1, <2>2 DEF IntInv
<1>8. CASE /\ integration' = [integration EXCEPT ![id] = new]
           /\ keys' = IF save.secret = 0 THEN keys ELSE [keys EXCEPT ![id] = save.secret]
  <2>1. integration[id] \in I!IntegrationRow \cup {None}
    BY <1>2 DEF IntInv, I!IntTypeOK
  <2>2. /\ new \in I!IntegrationRow /\ new.owner = save.owner /\ new.kind = save.kind
        /\ new.secret = IF save.secret = 0 /\ integration[id] # None
                          THEN integration[id].secret ELSE save.secret
    BY <1>2, <2>1 DEF I!Saved, I!IntegrationRow
  <2> HIDE DEF new
  <2>3. I!IntTypeOK'
    BY <1>1, <1>2, <1>4, <1>8, <2>2 DEF IntInv, I!IntTypeOK
  <2>4. /\ integration'[id] = new /\ new # None
        /\ \A i \in I!Ids \ {id} : integration'[i] = integration[i] /\ keys'[i] = keys[i]
    BY <1>2, <1>8, <2>2, NoneAssumption DEF IntInv, I!IntTypeOK
  <2>5. RowsAreOwned'
    <3>1. ASSUME NEW o \in I!Owners, integration'[IdOf(o)] # None
          PROVE  integration'[IdOf(o)].owner = o
      <4>1. CASE IdOf(o) = id
        BY <1>2, <2>2, <2>4, <4>1, IdsDiffer
      <4>2. CASE IdOf(o) # id
        BY <2>4, <3>1, <4>2, IdsDiffer DEF IntInv, RowsAreOwned
      <4> QED
        BY <4>1, <4>2
    <3>2. \A i \in I!Ids : integration'[i] # None /\ integration'[i].kind = "email"
                             => integration'[i].owner = None
      BY <1>6, <2>2, <2>4 DEF IntInv, RowsAreOwned
    <3> QED
      BY <1>5, <3>1, <3>2 DEF IntInv, RowsAreOwned
  <2>6. KeysAreKept'
    <3>1. keys[id] = IF integration[id] = None THEN 0 ELSE integration[id].secret
      BY <1>2 DEF IntInv, KeysAreKept
    <3>2. keys'[id] = IF save.secret = 0 THEN keys[id] ELSE save.secret
      BY <1>2, <1>8 DEF IntInv, I!IntTypeOK
    <3>3. keys'[id] = new.secret
      BY <1>2, <2>2, <3>1, <3>2
    <3> QED
      BY <2>4, <3>3 DEF IntInv, KeysAreKept
  <2>7. UsesAreOwn' /\ ChecksFindTheirRow'
    BY <1>1, <2>4, IdsDiffer DEF IntInv, UsesAreOwn, ChecksFindTheirRow
  <2> QED
    BY <2>3, <2>5, <2>6, <2>7 DEF IntInv
<1> QED
  BY <1>3, <1>7, <1>8

(* A removal takes the key along.                                          *)
LEMMA IntRemove ==
  ASSUME IntInv, NEW o \in I!Owners, I!RemoveIntegration(o)
  PROVE  IntInv'
<1>1. /\ integration' = [integration EXCEPT ![IdOf(o)] = None]
      /\ keys' = [keys EXCEPT ![IdOf(o)] = 0]
      /\ vanished' = (vanished \/ \E k \in Checks : testing[k] = o)
      /\ UNCHANGED <<keeping, touched, testing, tested, kept>>
  BY DEF I!RemoveIntegration, IdOf
<1>2. vanished' \in BOOLEAN /\ IdOf(o) \in I!Ids
  BY <1>1, IdsDiffer DEF IntInv, I!IntTypeOK
<1>3. I!IntTypeOK'
  BY <1>1, <1>2 DEF IntInv, I!IntTypeOK
<1>4. /\ integration'[IdOf(o)] = None /\ keys'[IdOf(o)] = 0
      /\ \A i \in I!Ids \ {IdOf(o)} : integration'[i] = integration[i] /\ keys'[i] = keys[i]
  BY <1>1, <1>2 DEF IntInv, I!IntTypeOK
<1>5. RowsAreOwned' /\ KeysAreKept'
  BY <1>1, <1>4, IdsDiffer DEF IntInv, RowsAreOwned, KeysAreKept
<1>6. UsesAreOwn'
  BY <1>1 DEF IntInv, UsesAreOwn
<1>7. ChecksFindTheirRow'
  BY <1>1, <1>4, IdsDiffer DEF IntInv, ChecksFindTheirRow
<1> QED
  BY <1>3, <1>5, <1>6, <1>7 DEF IntInv

(* What wins for a workspace that has a row of its own is that row.        *)
LEMMA OwnRowWins ==
  ASSUME IntInv, NEW w \in Actors, NEW id \in I!ListResolvable(w, <<Slug>>),
         I!Wins(id, I!ListResolvable(w, <<Slug>>)), integration[IdOf(w)] # None
  PROVE  integration[id].owner = w
<1>1. integration[IdOf(w)].owner = w /\ w # None
  BY NoneAssumption DEF IntInv, RowsAreOwned, I!Owners
<1>2. IdOf(w) \in I!ListResolvable(w, <<Slug>>)
  <2>1. IdOf(w) \in I!Ids /\ IdOf(w) = I!ComposeConnectionId(w, <<Slug>>)
    BY IdsDiffer DEF I!Owners
  <2> QED
    BY <1>1, <2>1 DEF I!ListResolvable, I!ConnectionCandidateIds, I!CanWorkspaceUse
<1>3. integration[id].owner # None
  BY <1>1, <1>2 DEF I!Wins
<1> QED
  BY <1>3 DEF I!ListResolvable, I!CanWorkspaceUse

(* A run names a connection.                                               *)
LEMMA IntRuns ==
  ASSUME IntInv, NEW r \in Runs, NEW w \in Actors, NEW name \in I!Names, NEW kind \in I!Kinds,
         I!RequireIntegration(r, w, name, kind)
  PROVE  IntInv'
<1>1. PICK id \in I!ListResolvable(w, name) :
        /\ I!Wins(id, I!ListResolvable(w, name))
        /\ touched' = [touched EXCEPT ![r] =
             [by |-> w, id |-> id, row |-> integration[id],
              owned |-> name = <<Slug>> /\ integration[I!RowId(w, name)] # None]]
        /\ UNCHANGED <<integration, keeping, keys, testing, tested, vanished, kept>>
  BY DEF I!RequireIntegration
<1> DEFINE owned == name = <<Slug>> /\ integration[I!RowId(w, name)] # None
           new == [by |-> w, id |-> id, row |-> integration[id], owned |-> owned]
<1>2. /\ id \in I!Ids /\ integration[id] # None /\ integration[id].owner \in {w, None}
      /\ integration[id] \in I!IntegrationRow
  BY DEF I!ListResolvable, I!CanWorkspaceUse, IntInv, I!IntTypeOK
<1>3. owned => integration[id].owner = w
  BY <1>1, OwnRowWins DEF IdOf
<1>4. owned \in BOOLEAN
  OBVIOUS
<1>5. touched' = [touched EXCEPT ![r] = new]
  BY <1>1
<1> HIDE DEF owned
<1>6. /\ new \in I!Use /\ new.by = w /\ new.row = integration[id] /\ new.owned = owned
  BY <1>2, <1>4 DEF I!Use
<1> HIDE DEF new
<1>7. I!IntTypeOK'
  BY <1>1, <1>5, <1>6 DEF IntInv, I!IntTypeOK
<1>8. UsesAreOwn'
  <2>1. integration[id].kind = "email" => integration[id].owner = None
    BY <1>2 DEF IntInv, RowsAreOwned
  <2>2. /\ new.row.owner \in {new.by, None}
        /\ new.owned => new.row.owner = new.by
        /\ new.row.kind = "email" => new.row.owner = None
    BY <1>2, <1>3, <1>6, <2>1
  <2> QED
    BY <1>1, <1>5, <2>2 DEF IntInv, UsesAreOwn, I!IntTypeOK
<1>9. RowsAreOwned' /\ KeysAreKept' /\ ChecksFindTheirRow'
  BY <1>1 DEF IntInv, RowsAreOwned, KeysAreKept, ChecksFindTheirRow
<1> QED
  BY <1>7, <1>8, <1>9 DEF IntInv

(* A check that begins and one that ends.                                  *)
LEMMA IntChecks ==
  ASSUME IntInv, NEW k \in Checks,
         I!FinishCheck(k) \/ \E o \in I!Owners : I!BeginCheck(k, o)
  PROVE  IntInv'
<1>0. UNCHANGED <<integration, keeping, touched, keys, vanished, kept>>
  BY DEF I!FinishCheck, I!BeginCheck
<1>1. RowsAreOwned' /\ KeysAreKept'
  BY <1>0 DEF IntInv, RowsAreOwned, KeysAreKept
<1>2. ASSUME NEW o \in I!Owners, I!BeginCheck(k, o)
      PROVE  IntInv'
  <2>1. /\ integration[IdOf(o)] # None /\ testing' = [testing EXCEPT ![k] = o]
        /\ UNCHANGED tested
    BY <1>2 DEF I!BeginCheck, IdOf
  <2>2. I!IntTypeOK'
    BY <1>0, <2>1 DEF IntInv, I!IntTypeOK
  <2>3. ChecksFindTheirRow'
    BY <1>0, <2>1 DEF IntInv, ChecksFindTheirRow, I!IntTypeOK
  <2>4. UsesAreOwn'
    BY <1>0, <2>1 DEF IntInv, UsesAreOwn
  <2> QED
    BY <1>1, <2>2, <2>3, <2>4 DEF IntInv
<1>3. CASE I!FinishCheck(k)
  <2> DEFINE o == testing[k]
  <2>1. o \in I!Owners /\ testing' = [testing EXCEPT ![k] = "idle"]
    BY <1>3 DEF I!FinishCheck, IntInv, I!IntTypeOK
  <2>2. \/ tested' = tested
        \/ \E id \in I!Resolvable(o) :
             I!Wins(id, I!Resolvable(o)) /\ tested' = <<o, integration[id].owner>>
    BY <1>3 DEF I!FinishCheck
  <2>3. "idle" \notin I!Owners
    BY NoneAssumption DEF I!Owners
  <2>4. ChecksFindTheirRow'
    BY <1>0, <2>1, <2>3 DEF IntInv, ChecksFindTheirRow, I!IntTypeOK
  <2>5. testing' \in [Checks -> I!Owners \cup {"idle"}]
    BY <2>1 DEF IntInv, I!IntTypeOK
  <2>6. CASE tested' = tested
    <3>1. I!IntTypeOK'
      BY <1>0, <2>5, <2>6 DEF IntInv, I!IntTypeOK
    <3>2. UsesAreOwn'
      BY <1>0, <2>6 DEF IntInv, UsesAreOwn
    <3> QED
      BY <1>1, <2>4, <3>1, <3>2 DEF IntInv
  <2>7. ASSUME NEW id \in I!Resolvable(o), I!Wins(id, I!Resolvable(o)),
               tested' = <<o, integration[id].owner>>
        PROVE  IntInv'
    <3>1. id \in I!Ids /\ integration[id] # None
      BY IdsDiffer DEF I!Resolvable, I!ListResolvable, I!Owners
    <3>2. integration[id].owner \in I!Owners
      BY <3>1 DEF IntInv, I!IntTypeOK, I!IntegrationRow
    <3>3. ~vanished => integration[id].owner = o
      <4>1. CASE o = None
        <5>1. id = IdOf(None)
          BY <4>1, IdsDiffer DEF I!Resolvable
        <5> QED
          BY <3>1, <4>1, <5>1 DEF IntInv, RowsAreOwned, I!Owners
      <4>2. CASE o \in Actors
        <5>1. I!Resolvable(o) = I!ListResolvable(o, <<Slug>>)
          BY <4>2, NoneAssumption DEF I!Resolvable
        <5>2. ~vanished => integration[IdOf(o)] # None
          BY <2>1 DEF IntInv, ChecksFindTheirRow
        <5> QED
          BY <2>7, <4>2, <5>1, <5>2, OwnRowWins
      <4> QED
        BY <2>1, <4>1, <4>2 DEF I!Owners
    <3>4. I!IntTypeOK'
      BY <1>0, <2>1, <2>5, <2>7, <3>2 DEF IntInv, I!IntTypeOK
    <3>5. UsesAreOwn'
      BY <1>0, <2>7, <3>3 DEF IntInv, UsesAreOwn
    <3> QED
      BY <1>1, <2>4, <3>4, <3>5 DEF IntInv
  <2> QED
    BY <2>2, <2>6, <2>7
<1> QED
  BY <1>2, <1>3

(* Every step keeps the invariant.                                         *)
LEMMA IntInvStep == IntInv /\ [MCNext]_mcVars => IntInv'
<1> SUFFICES ASSUME IntInv, I!IntNext \/ UNCHANGED intVars PROVE IntInv'
  BY DEF MCNext, mcVars, Flow, Loop, OAuth, Mcp, Source, Model, Key
<1>1. CASE I!IntNext
  BY <1>1, IntBeginSave, IntFinishSave, IntRemove, IntRuns, IntChecks DEF I!IntNext
<1>2. CASE UNCHANGED intVars
  <2>1. I!IntTypeOK'
    BY <1>2 DEF intVars, IntInv, I!IntTypeOK
  <2>2. RowsAreOwned' /\ KeysAreKept' /\ UsesAreOwn' /\ ChecksFindTheirRow'
    BY <1>2 DEF intVars, IntInv, RowsAreOwned, KeysAreKept, UsesAreOwn, ChecksFindTheirRow
  <2> QED
    BY <2>1, <2>2 DEF IntInv
<1> QED
  BY <1>1, <1>2

(* What the invariant says of runs and checks.                             *)
LEMMA IntInvMeans == IntInv => I!UsesItsOwnKeys
BY DEF IntInv, KeysAreKept, UsesAreOwn, I!UsesItsOwnKeys

--------------------------------------------------------------------------------
(* DATA SOURCES.  What is executed was reviewed with what it reads.        *)

(* What waits to be executed was reviewed.                                 *)
Reviewed ==
  /\ \A q \in Queries : query[q] # None /\ query[q].approved
       => <<query[q].sql, query[q].source>> \in reviewed
  /\ \A r \in Runs : run[r] # None => <<run[r].query.sql, run[r].query.source>> \in reviewed
  /\ executed # None => executed \in reviewed

(* Without overlapping saves a schema is, and will be, of the row's DSN.   *)
SchemasFit ==
  ~mixed =>
    /\ \A d \in Actors : source[d] # None => source[d].schema \in {source[d].dsn, None}
    /\ reading # None /\ source[reading[1]] # None =>
         source[reading[1]].dsn = reading[2]

(* The inductive invariant.                                                *)
DtsInv == D!DtsTypeOK /\ Reviewed /\ SchemasFit

(* No source exists at the start.                                          *)
LEMMA DtsInvInit == MCInit => DtsInv
<1> SUFFICES ASSUME MCInit PROVE DtsInv
  OBVIOUS
<1> USE DEF MCInit, D!DtsInit
<1>1. source \in [Actors -> D!DataSourceRow] /\ \A d \in Actors : source[d].schema = None
  <2>1. source \in [Actors -> [dsn : People, enabled : {TRUE}, schema : {None}]]
    OBVIOUS
  <2> QED
    BY <2>1 DEF D!DataSourceRow
<1>2. edits \in 0 .. MaxEdits
  BY BoundsAssumption
<1>3. D!DtsTypeOK
  BY <1>1, <1>2 DEF D!DtsTypeOK
<1>4. Reviewed /\ SchemasFit
  BY <1>1 DEF Reviewed, SchemasFit
<1> QED
  BY <1>3, <1>4 DEF DtsInv

(* Saves of a source.                                                      *)
LEMMA DtsSaves ==
  ASSUME DtsInv,
         \/ \E s \in Savers : D!FinishSaveSource(s)
         \/ \E s \in Savers, d \in Actors, dsn \in People \cup {None}, enabled \in BOOLEAN :
              D!BeginSaveSource(s, d, dsn, enabled)
  PROVE  DtsInv'
<1>1. ASSUME NEW s \in Savers, D!FinishSaveSource(s)
      PROVE  DtsInv'
  <2> DEFINE save == storing[s]
             new == D!SavedSource(save, source[save.of])
  <2>1. save \in D!SourceSave /\ storing' = [storing EXCEPT ![s] = None]
    BY <1>1 DEF DtsInv, D!DtsTypeOK, D!FinishSaveSource
  <2>2. /\ source' = [source EXCEPT ![save.of] = new]
        /\ mixed' = (mixed \/ reading # None \/ source[save.of] = None
                     \/ source[save.of] # save.found)
        /\ UNCHANGED <<query, reading, proposed, reviewed, run, executed, edits>>
    BY <1>1 DEF D!FinishSaveSource
  <2>3. /\ save.of \in Actors /\ save.found \in D!DataSourceRow
        /\ save.dsn \in People \cup {None} /\ save.enabled \in BOOLEAN
    BY <2>1 DEF D!SourceSave
  <2>4. source[save.of] \in D!DataSourceRow \cup {None}
    BY <2>3 DEF DtsInv, D!DtsTypeOK
  <2>5. new \in D!DataSourceRow
    BY <2>3, <2>4 DEF D!SavedSource, D!DataSourceRow
  <2>6. ASSUME source[save.of] # None, source[save.of] = save.found, ~mixed
        PROVE  new.schema \in {new.dsn, None}
    BY <2>3, <2>6 DEF DtsInv, SchemasFit, D!SavedSource
  <2> HIDE DEF new
  <2>7. D!DtsTypeOK'
    BY <2>1, <2>2, <2>3, <2>5 DEF DtsInv, D!DtsTypeOK
  <2>8. Reviewed'
    BY <2>2 DEF DtsInv, Reviewed
  <2>9. SchemasFit'
    BY <2>2, <2>3, <2>6 DEF DtsInv, SchemasFit, D!DtsTypeOK
  <2> QED
    BY <2>7, <2>8, <2>9 DEF DtsInv
<1>2. ASSUME NEW s \in Savers, NEW d \in Actors, NEW dsn \in People \cup {None},
             NEW enabled \in BOOLEAN, D!BeginSaveSource(s, d, dsn, enabled)
      PROVE  DtsInv'
  <2>1. source[d] \in D!DataSourceRow
    BY <1>2 DEF DtsInv, D!DtsTypeOK, D!BeginSaveSource
  <2>2. edits' \in 0 .. MaxEdits
    BY <1>2, BoundsAssumption DEF DtsInv, D!DtsTypeOK, D!BeginSaveSource, D!Edit
  <2>3. [of |-> d, found |-> source[d], dsn |-> dsn, enabled |-> enabled] \in D!SourceSave
    BY <2>1 DEF D!SourceSave
  <2>4. D!DtsTypeOK'
    BY <1>2, <2>2, <2>3 DEF DtsInv, D!DtsTypeOK, D!BeginSaveSource
  <2>5. Reviewed' /\ SchemasFit'
    BY <1>2 DEF DtsInv, Reviewed, SchemasFit, D!BeginSaveSource
  <2> QED
    BY <2>4, <2>5 DEF DtsInv
<1> QED
  BY <1>1, <1>2

(* Removals and the reading of a schema.                                   *)
LEMMA DtsSchemas ==
  ASSUME DtsInv,
         \/ \E d \in Actors : D!RemoveSource(d) \/ D!BeginRefreshSchema(d)
         \/ \E answered \in BOOLEAN : D!FinishRefreshSchema(answered)
  PROVE  DtsInv'
<1>1. ASSUME NEW d \in Actors, D!RemoveSource(d)
      PROVE  DtsInv'
  <2>1. edits' \in 0 .. MaxEdits
    BY <1>1, BoundsAssumption DEF DtsInv, D!DtsTypeOK, D!RemoveSource, D!Edit
  <2>2. query' \in [Queries -> D!DataQueryRow \cup {None}]
        /\ \A q \in Queries : query'[q] = None \/ query'[q] = query[q]
    BY <1>1 DEF DtsInv, D!DtsTypeOK, D!RemoveSource
  <2>3. source' = [source EXCEPT ![d] = None]
    BY <1>1 DEF D!RemoveSource
  <2>4. UNCHANGED <<storing, reading, proposed, reviewed, run, executed, mixed>>
    BY <1>1 DEF D!RemoveSource
  <2>5. D!DtsTypeOK'
    BY <2>1, <2>2, <2>3, <2>4 DEF DtsInv, D!DtsTypeOK
  <2>6. Reviewed'
    BY <2>2, <2>4 DEF DtsInv, Reviewed
  <2>7. SchemasFit'
    BY <2>3, <2>4 DEF DtsInv, SchemasFit, D!DtsTypeOK
  <2> QED
    BY <2>5, <2>6, <2>7 DEF DtsInv
<1>2. ASSUME NEW d \in Actors, D!BeginRefreshSchema(d)
      PROVE  DtsInv'
  <2>1. source[d] \in D!DataSourceRow /\ reading' = <<d, source[d].dsn>>
    BY <1>2 DEF DtsInv, D!DtsTypeOK, D!BeginRefreshSchema
  <2>2. source[d].dsn \in People
    BY <2>1 DEF D!DataSourceRow
  <2>3. D!DtsTypeOK'
    BY <1>2, <2>1, <2>2 DEF DtsInv, D!DtsTypeOK, D!BeginRefreshSchema
  <2>4. Reviewed' /\ SchemasFit'
    BY <1>2, <2>1 DEF DtsInv, Reviewed, SchemasFit, D!BeginRefreshSchema
  <2> QED
    BY <2>3, <2>4 DEF DtsInv
<1>3. ASSUME NEW answered \in BOOLEAN, D!FinishRefreshSchema(answered)
      PROVE  DtsInv'
  <2> DEFINE d == reading[1]
             new == [source[d] EXCEPT !.schema = reading[2]]
  <2>1. /\ d \in Actors /\ reading[2] \in People /\ reading # None /\ reading' = None
        /\ UNCHANGED <<query, storing, proposed, reviewed, run, executed, edits, mixed>>
    BY <1>3 DEF DtsInv, D!DtsTypeOK, D!FinishRefreshSchema
  <2>2. \/ source' = source
        \/ source[d] # None /\ source' = [source EXCEPT ![d].schema = reading[2]]
    BY <1>3 DEF D!FinishRefreshSchema
  <2>3. CASE source' = source
    <3>1. D!DtsTypeOK'
      BY <2>1, <2>3 DEF DtsInv, D!DtsTypeOK
    <3>2. Reviewed' /\ SchemasFit'
      BY <2>1, <2>3 DEF DtsInv, Reviewed, SchemasFit
    <3> QED
      BY <3>1, <3>2 DEF DtsInv
  <2>4. CASE source[d] # None /\ source' = [source EXCEPT ![d].schema = reading[2]]
    <3>1. source[d] \in D!DataSourceRow
      BY <2>1, <2>4 DEF DtsInv, D!DtsTypeOK
    <3>2. /\ new \in D!DataSourceRow /\ new.dsn = source[d].dsn
          /\ new.schema = reading[2]
      BY <2>1, <3>1 DEF D!DataSourceRow
    <3>3. source' = [source EXCEPT ![d] = new]
      BY <2>4
    <3>4. ~mixed => source[d].dsn = reading[2]
      BY <2>1, <2>4 DEF DtsInv, SchemasFit
    <3> HIDE DEF new
    <3>5. D!DtsTypeOK'
      BY <2>1, <3>2, <3>3 DEF DtsInv, D!DtsTypeOK
    <3>6. Reviewed'
      BY <2>1 DEF DtsInv, Reviewed
    <3>7. SchemasFit'
      BY <2>1, <3>2, <3>3, <3>4 DEF DtsInv, SchemasFit, D!DtsTypeOK
    <3> QED
      BY <3>5, <3>6, <3>7 DEF DtsInv
  <2> QED
    BY <2>2, <2>3, <2>4
<1> QED
  BY <1>1, <1>2, <1>3

(* Queries: proposed, saved, removed.                                      *)
LEMMA DtsQueries ==
  ASSUME DtsInv,
         \/ \E d \in Actors, sql \in Values : D!GenerateQuery(d, sql)
         \/ \E q \in Queries : D!RemoveQuery(q)
         \/ \E q \in Queries, d \in Actors, sql \in Values,
               origin \in {"manual", "generated"}, approve \in BOOLEAN :
              D!SaveQuery(q, d, sql, origin, approve)
  PROVE  DtsInv'
<1>1. ASSUME NEW d \in Actors, NEW sql \in Values, D!GenerateQuery(d, sql)
      PROVE  DtsInv'
  <2>1. D!DtsTypeOK'
    BY <1>1 DEF DtsInv, D!DtsTypeOK, D!GenerateQuery
  <2>2. Reviewed' /\ SchemasFit'
    BY <1>1 DEF DtsInv, Reviewed, SchemasFit, D!GenerateQuery
  <2> QED
    BY <2>1, <2>2 DEF DtsInv
<1>2. ASSUME NEW q \in Queries, D!RemoveQuery(q)
      PROVE  DtsInv'
  <2>1. edits' \in 0 .. MaxEdits
    BY <1>2, BoundsAssumption DEF DtsInv, D!DtsTypeOK, D!RemoveQuery, D!Edit
  <2>2. D!DtsTypeOK'
    BY <1>2, <2>1 DEF DtsInv, D!DtsTypeOK, D!RemoveQuery
  <2>3. Reviewed' /\ SchemasFit'
    BY <1>2 DEF DtsInv, Reviewed, SchemasFit, D!RemoveQuery, D!DtsTypeOK
  <2> QED
    BY <2>2, <2>3 DEF DtsInv
<1>3. ASSUME NEW q \in Queries, NEW d \in Actors, NEW sql \in Values,
             NEW origin \in {"manual", "generated"}, NEW approve \in BOOLEAN,
             D!SaveQuery(q, d, sql, origin, approve)
      PROVE  DtsInv'
  <2> DEFINE good == origin = "manual" \/ approve
             new == [source |-> d, sql |-> sql, approved |-> good, origin |-> origin]
  <2>1. edits' \in 0 .. MaxEdits
    BY <1>3, BoundsAssumption DEF DtsInv, D!DtsTypeOK, D!SaveQuery, D!Edit
  <2>2. /\ query' = [query EXCEPT ![q] = new]
        /\ UNCHANGED <<source, storing, reading, proposed, run, executed, mixed>>
    BY <1>3 DEF D!SaveQuery, D!Approving
  <2>3. reviewed' = IF good THEN reviewed \cup {<<sql, d>>} ELSE reviewed
    BY <1>3 DEF D!SaveQuery
  <2>4. new \in D!DataQueryRow /\ new.sql = sql /\ new.source = d
    BY DEF D!DataQueryRow
  <2>5. new.approved => <<sql, d>> \in reviewed'
    BY <2>3
  <2>6. reviewed \subseteq reviewed' /\ reviewed' \subseteq Values \X Actors
    BY <2>3 DEF DtsInv, D!DtsTypeOK
  <2> HIDE DEF new
  <2>7. D!DtsTypeOK'
    BY <2>1, <2>2, <2>4, <2>6 DEF DtsInv, D!DtsTypeOK
  <2>8. Reviewed'
    BY <2>2, <2>4, <2>5, <2>6 DEF DtsInv, Reviewed, D!DtsTypeOK
  <2>9. SchemasFit'
    BY <2>2 DEF DtsInv, SchemasFit
  <2> QED
    BY <2>7, <2>8, <2>9 DEF DtsInv
<1> QED
  BY <1>1, <1>2, <1>3

(* Runs: a run reads an approved query, and executes what it read.         *)
LEMMA DtsRuns ==
  ASSUME DtsInv,
         \E r \in Runs :
           D!RunNamed(r) \/ D!DryRun(r) \/ \E row \in D!Callable : D!ReadQuery(r, row)
  PROVE  DtsInv'
<1>1. ASSUME NEW r \in Runs, D!RunNamed(r)
      PROVE  DtsInv'
  <2> DEFINE new == [run[r] EXCEPT !.on = TRUE]
  <2>1. /\ run[r] \in [query : D!DataQueryRow, on : BOOLEAN]
        /\ UNCHANGED <<source, query, storing, reading, proposed, reviewed, executed, edits,
                       mixed>>
    BY <1>1 DEF DtsInv, D!DtsTypeOK, D!RunNamed
  <2>2. new \in [query : D!DataQueryRow, on : BOOLEAN] /\ new.query = run[r].query
    BY <2>1
  <2>3. run' = [run EXCEPT ![r] = None] \/ run' = [run EXCEPT ![r] = new]
    BY <1>1 DEF D!RunNamed
  <2> HIDE DEF new
  <2>4. D!DtsTypeOK'
    BY <2>1, <2>2, <2>3 DEF DtsInv, D!DtsTypeOK
  <2>5. Reviewed'
    BY <1>1, <2>1, <2>2, <2>3 DEF DtsInv, Reviewed, D!DtsTypeOK, D!RunNamed
  <2>6. SchemasFit'
    BY <2>1 DEF DtsInv, SchemasFit
  <2> QED
    BY <2>4, <2>5, <2>6 DEF DtsInv
<1>2. ASSUME NEW r \in Runs, D!DryRun(r)
      PROVE  DtsInv'
  <2>1. /\ run[r] \in [query : D!DataQueryRow, on : BOOLEAN]
        /\ <<run[r].query.sql, run[r].query.source>> \in reviewed
    BY <1>2 DEF DtsInv, D!DtsTypeOK, Reviewed, D!DryRun
  <2>2. \/ executed' = executed
        \/ executed' = <<run[r].query.sql, run[r].query.source>>
    BY <1>2 DEF D!DryRun
  <2>3. <<run[r].query.sql, run[r].query.source>> \in Values \X Actors
    BY <2>1 DEF DtsInv, D!DtsTypeOK
  <2>4. D!DtsTypeOK'
    BY <1>2, <2>2, <2>3 DEF DtsInv, D!DtsTypeOK, D!DryRun
  <2>5. Reviewed'
    BY <1>2, <2>1, <2>2 DEF DtsInv, Reviewed, D!DtsTypeOK, D!DryRun
  <2>6. SchemasFit'
    BY <1>2 DEF DtsInv, SchemasFit, D!DryRun
  <2> QED
    BY <2>4, <2>5, <2>6 DEF DtsInv
<1>3. ASSUME NEW r \in Runs, NEW row \in D!Callable, D!ReadQuery(r, row)
      PROVE  DtsInv'
  <2> DEFINE new == [query |-> row, on |-> FALSE]
  <2>1. PICK q \in Queries : query[q] = row /\ query[q] # None /\ query[q].approved
    BY DEF D!Callable
  <2>2. row \in D!DataQueryRow /\ <<row.sql, row.source>> \in reviewed
    BY <2>1 DEF DtsInv, D!DtsTypeOK, Reviewed
  <2>3. /\ run' = [run EXCEPT ![r] = new]
        /\ UNCHANGED <<source, query, storing, reading, proposed, reviewed, executed, edits,
                       mixed>>
    BY <1>3 DEF D!ReadQuery
  <2>4. new \in [query : D!DataQueryRow, on : BOOLEAN] /\ new.query = row
    BY <2>2
  <2> HIDE DEF new
  <2>5. D!DtsTypeOK'
    BY <2>3, <2>4 DEF DtsInv, D!DtsTypeOK
  <2>6. Reviewed'
    BY <2>2, <2>3, <2>4 DEF DtsInv, Reviewed, D!DtsTypeOK
  <2>7. SchemasFit'
    BY <2>3 DEF DtsInv, SchemasFit
  <2> QED
    BY <2>5, <2>6, <2>7 DEF DtsInv
<1> QED
  BY <1>1, <1>2, <1>3

(* Every step keeps the invariant.                                         *)
LEMMA DtsInvStep == DtsInv /\ [MCNext]_mcVars => DtsInv'
<1> SUFFICES ASSUME DtsInv, D!DtsNext \/ UNCHANGED dtsVars PROVE DtsInv'
  BY DEF MCNext, mcVars, Flow, Loop, OAuth, Mcp, Integration, Model, Key
<1>1. CASE D!DtsNext
  BY <1>1, DtsSaves, DtsSchemas, DtsQueries, DtsRuns DEF D!DtsNext
<1>2. CASE UNCHANGED dtsVars
  <2>1. D!DtsTypeOK'
    BY <1>2 DEF dtsVars, DtsInv, D!DtsTypeOK
  <2>2. Reviewed' /\ SchemasFit'
    BY <1>2 DEF dtsVars, DtsInv, Reviewed, SchemasFit
  <2> QED
    BY <2>1, <2>2 DEF DtsInv
<1> QED
  BY <1>1, <1>2

--------------------------------------------------------------------------------
(* MODELS.  Which process answers from an old snapshot of the catalogue.   *)

(* A process loads only while it has nothing to answer from.               *)
LoadsWhenStale == \A p \in Actors : loading[p] # None => M!Current(p) = None

(* A process whose snapshot expired since the last write, or that made it, *)
(* reads and answers what the database holds.                              *)
UpToDate(p) ==
  /\ loading[p] # None => loading[p] = M!Merged
  /\ M!Current(p) # None => M!Current(p).model = M!Merged

(* It holds of those whose snapshot expired, and of the one that wrote.    *)
FreshOnesAgree == \A p \in Actors : p \in expired \/ p = writer => UpToDate(p)

(* Without overlapping edits the model, and what is being written over it, *)
(* is offered when it is wanted.                                           *)
OfferedAsWanted ==
  ~overlapped =>
    /\ M!Merged.enabled = wanted
    /\ \A e \in Editors : editing[e] # None => editing[e].row.enabled = wanted

(* The inductive invariant.                                                *)
CatInv ==
  /\ M!CatTypeOK /\ LoadsWhenStale /\ FreshOnesAgree /\ OfferedAsWanted
  /\ access.default => access.allowed # "others"

(* The merge of a row and its defaults is a row.                           *)
LEMMA MergedType == M!CatTypeOK => M!Merged \in M!ProviderModelRow
BY DEF M!CatTypeOK, M!Merged, M!BuiltIn, M!ProviderModelRow, M!Tiers

(* The database and the snapshots agree at the start.                      *)
LEMMA CatInvInit == MCInit => CatInv
<1> SUFFICES ASSUME MCInit PROVE CatInv
  OBVIOUS
<1> USE DEF MCInit, M!CatInit
<1>1. writes \in 0 .. MaxWrites /\ expiries \in 0 .. MaxExpiries
  BY BoundsAssumption
<1>2. M!CatTypeOK
  BY <1>1 DEF M!CatTypeOK, M!Access
<1>3. LoadsWhenStale /\ FreshOnesAgree
  BY NoneAssumption DEF LoadsWhenStale, FreshOnesAgree
<1>4. OfferedAsWanted
  BY DEF OfferedAsWanted, M!Merged, M!BuiltIn
<1> QED
  BY <1>2, <1>3, <1>4 DEF CatInv

(* Loads and their ends.                                                   *)
LEMMA CatLoads ==
  ASSUME CatInv, NEW p \in Actors,
         M!BeginLoad(p) \/ M!FinishLoad(p) \/ M!SnapshotExpires(p)
  PROVE  CatInv'
<1>0. /\ UNCHANGED <<model, editing, wanted, overlapped, writer, access, default, chosen,
                     writes>>
      /\ M!Merged' = M!Merged
  BY DEF M!BeginLoad, M!FinishLoad, M!SnapshotExpires, M!Merged
<1>1. OfferedAsWanted' /\ (access.default => access.allowed # "others")'
  BY <1>0 DEF CatInv, OfferedAsWanted
<1>2. CASE M!BeginLoad(p)
  <2>1. /\ loading' = [loading EXCEPT ![p] = M!Merged] /\ M!Current(p) = None
        /\ UNCHANGED <<snapshot, expired, expiries>>
    BY <1>2 DEF M!BeginLoad, M!Current
  <2>2. \A a \in Actors : M!Current(a)' = M!Current(a)
    BY <2>1 DEF M!Current
  <2>3. M!Merged \in M!ProviderModelRow
    BY MergedType DEF CatInv
  <2>4. M!CatTypeOK'
    BY <1>0, <2>1, <2>3 DEF CatInv, M!CatTypeOK
  <2>5. LoadsWhenStale'
    BY <2>1, <2>2 DEF CatInv, M!CatTypeOK, LoadsWhenStale
  <2>6. FreshOnesAgree'
    BY <1>0, <2>1, <2>2 DEF CatInv, M!CatTypeOK, FreshOnesAgree, UpToDate
  <2> QED
    BY <1>1, <2>4, <2>5, <2>6 DEF CatInv
<1>3. CASE M!FinishLoad(p)
  <2> DEFINE new == [model |-> loading[p], fresh |-> TRUE]
  <2>1. /\ loading' = [loading EXCEPT ![p] = None] /\ loading[p] # None
        /\ snapshot' = [snapshot EXCEPT ![p] = new]
        /\ UNCHANGED <<expired, expiries>>
    BY <1>3 DEF M!FinishLoad
  <2>2. new \in M!Snapshot /\ new.model = loading[p] /\ new.fresh
    BY <2>1 DEF CatInv, M!CatTypeOK, M!Snapshot
  <2> HIDE DEF new
  <2>3. M!CatTypeOK'
    BY <1>0, <2>1, <2>2 DEF CatInv, M!CatTypeOK
  <2>4. /\ M!Current(p)' = new
        /\ \A a \in Actors \ {p} : M!Current(a)' = M!Current(a) /\ loading'[a] = loading[a]
    BY <2>1, <2>2, NoneAssumption DEF CatInv, M!CatTypeOK, M!Current
  <2>5. loading'[p] = None
    BY <2>1 DEF CatInv, M!CatTypeOK
  <2>6. LoadsWhenStale'
    BY <2>4, <2>5 DEF CatInv, LoadsWhenStale
  <2>7. FreshOnesAgree'
    BY <1>0, <2>1, <2>2, <2>4, <2>5 DEF CatInv, FreshOnesAgree, UpToDate
  <2> QED
    BY <1>1, <2>3, <2>6, <2>7 DEF CatInv
<1>4. CASE M!SnapshotExpires(p)
  <2> DEFINE new == [snapshot[p] EXCEPT !.fresh = FALSE]
  <2>1. /\ snapshot[p] # None /\ snapshot[p].fresh /\ expired' = expired \cup {p}
        /\ snapshot' = [snapshot EXCEPT ![p] = new] /\ UNCHANGED loading
    BY <1>4 DEF M!SnapshotExpires
  <2>2. new \in M!Snapshot /\ ~new.fresh
    BY <2>1 DEF CatInv, M!CatTypeOK, M!Snapshot
  <2> HIDE DEF new
  <2>3. expiries' \in 0 .. MaxExpiries
    BY <1>4, BoundsAssumption DEF CatInv, M!CatTypeOK, M!SnapshotExpires
  <2>4. M!CatTypeOK'
    BY <1>0, <2>1, <2>2, <2>3 DEF CatInv, M!CatTypeOK
  <2>5. /\ M!Current(p)' = None
        /\ \A a \in Actors \ {p} : M!Current(a)' = M!Current(a)
    BY <2>1, <2>2 DEF CatInv, M!CatTypeOK, M!Current
  <2>6. loading[p] = None
    <3>1. M!Current(p) # None
      BY <2>1 DEF M!Current
    <3> QED
      BY <3>1 DEF CatInv, LoadsWhenStale
  <2>7. LoadsWhenStale'
    BY <2>1, <2>5 DEF CatInv, LoadsWhenStale
  <2>8. FreshOnesAgree'
    BY <1>0, <2>1, <2>5, <2>6 DEF CatInv, FreshOnesAgree, UpToDate
  <2> QED
    BY <1>1, <2>4, <2>7, <2>8 DEF CatInv
<1> QED
  BY <1>2, <1>3, <1>4

(* A write by one process.                                                 *)
LEMMA WrittenBy ==
  ASSUME CatInv, NEW p \in Actors, M!Written(p)
  PROVE  /\ snapshot' \in [Actors -> M!Snapshot \cup {None}]
         /\ loading' \in [Actors -> M!ProviderModelRow \cup {None}]
         /\ writes' \in 0 .. MaxWrites /\ expiries' \in 0 .. MaxExpiries
         /\ expired' \subseteq Actors /\ writer' \in Actors \cup {None}
         /\ access' \in M!Access /\ default' \in BOOLEAN /\ chosen' \in BOOLEAN
         /\ LoadsWhenStale' /\ FreshOnesAgree'
         /\ (access.default => access.allowed # "others")'
<1>1. /\ snapshot' = [snapshot EXCEPT ![p] = None] /\ expired' = {}
      /\ writer' = IF loading[p] = None THEN p ELSE None
      /\ UNCHANGED <<loading, access, default, chosen, expiries>>
  BY DEF M!Written, M!InvalidateCatalogue
<1>2. writes' \in 0 .. MaxWrites
  BY BoundsAssumption DEF CatInv, M!CatTypeOK, M!Written
<1>3. /\ M!Current(p)' = None
      /\ \A a \in Actors \ {p} : M!Current(a)' = M!Current(a)
  BY <1>1 DEF CatInv, M!CatTypeOK, M!Current
<1>4. LoadsWhenStale'
  BY <1>1, <1>3 DEF CatInv, LoadsWhenStale
<1>5. FreshOnesAgree'
  BY <1>1, <1>3, NoneAssumption DEF FreshOnesAgree, UpToDate
<1>6. snapshot' \in [Actors -> M!Snapshot \cup {None}]
  BY <1>1 DEF CatInv, M!CatTypeOK
<1> QED
  BY <1>1, <1>2, <1>4, <1>5, <1>6 DEF CatInv, M!CatTypeOK

(* Writes to the model's row.                                              *)
LEMMA CatWrites ==
  ASSUME CatInv, NEW p \in Actors,
         \/ \E row \in M!ProviderModelRow : M!UpsertModel(p, row)
         \/ M!RemoveModel(p)
         \/ \E e \in Editors, tier \in M!Tiers : M!FinishEdit(e, p, tier)
  PROVE  CatInv'
<1>0. M!Written(p)
  BY DEF M!UpsertModel, M!RemoveModel, M!FinishEdit
<1>1. ASSUME NEW row \in M!ProviderModelRow, M!UpsertModel(p, row)
      PROVE  CatInv'
  <2>1. /\ model' = row /\ wanted' = row.enabled /\ editing' = editing
        /\ overlapped' = (overlapped \/ \E d \in Editors \ {None} : editing[d] # None)
    BY <1>1 DEF M!UpsertModel, M!Overtakes
  <2>2. M!Merged' = row /\ wanted' \in BOOLEAN /\ overlapped' \in BOOLEAN
    BY <2>1, NoneAssumption DEF M!Merged, M!ProviderModelRow, CatInv, M!CatTypeOK
  <2>3. OfferedAsWanted'
    BY <2>1, <2>2, NoneAssumption DEF OfferedAsWanted
  <2>4. M!CatTypeOK'
    BY <1>0, <2>1, <2>2, WrittenBy DEF CatInv, M!CatTypeOK
  <2> QED
    BY <1>0, <2>3, <2>4, WrittenBy DEF CatInv
<1>2. CASE M!RemoveModel(p)
  <2>1. /\ model' = None /\ wanted' = TRUE /\ editing' = editing
        /\ overlapped' = (overlapped \/ \E d \in Editors \ {None} : editing[d] # None)
    BY <1>2 DEF M!RemoveModel, M!Overtakes
  <2>2. M!Merged' = M!BuiltIn /\ wanted' \in BOOLEAN /\ overlapped' \in BOOLEAN
    BY <2>1 DEF M!Merged, M!BuiltIn, CatInv, M!CatTypeOK
  <2>3. OfferedAsWanted'
    BY <2>1, <2>2, NoneAssumption DEF OfferedAsWanted, M!BuiltIn
  <2>4. M!CatTypeOK'
    BY <1>0, <2>1, <2>2, WrittenBy DEF CatInv, M!CatTypeOK
  <2> QED
    BY <1>0, <2>3, <2>4, WrittenBy DEF CatInv
<1>3. ASSUME NEW e \in Editors, NEW tier \in M!Tiers, M!FinishEdit(e, p, tier)
      PROVE  CatInv'
  <2> DEFINE new == IF editing[e].kind = "import" THEN M!Imported(editing[e].row, tier)
                    ELSE [editing[e].row EXCEPT !.tier = tier]
  <2>1. /\ editing[e] # None /\ editing' = [editing EXCEPT ![e] = None] /\ wanted' = wanted
        /\ model' = new
        /\ overlapped' = (overlapped \/ \E d \in Editors \ {e} : editing[d] # None)
    BY <1>3 DEF M!FinishEdit, M!Overtakes
  <2>2. editing[e] \in M!Edit /\ editing[e].row \in M!ProviderModelRow
    BY <2>1 DEF CatInv, M!CatTypeOK, M!Edit
  <2>3. new \in M!ProviderModelRow /\ new.enabled = editing[e].row.enabled
    BY <2>2 DEF M!ProviderModelRow, M!Imported
  <2> HIDE DEF new
  <2>4. M!Merged' = new /\ overlapped' \in BOOLEAN
    BY <2>1, <2>3, NoneAssumption DEF M!Merged, CatInv, M!CatTypeOK
  <2>5. OfferedAsWanted'
    BY <2>1, <2>3, <2>4 DEF CatInv, M!CatTypeOK, OfferedAsWanted
  <2>6. M!CatTypeOK'
    BY <1>0, <2>1, <2>3, <2>4, WrittenBy DEF CatInv, M!CatTypeOK
  <2> QED
    BY <1>0, <2>5, <2>6, WrittenBy DEF CatInv
<1> QED
  BY <1>1, <1>2, <1>3

(* A patch or an import reads what it will write.                          *)
LEMMA CatEdits ==
  ASSUME CatInv, NEW p \in Actors, NEW e \in Editors, NEW kind \in {"patch", "import"},
         M!BeginEdit(e, p, kind)
  PROVE  CatInv'
<1> DEFINE read == IF kind = "import" THEN M!Merged ELSE M!Current(p).model
           new == [kind |-> kind, row |-> read]
<1>1. /\ kind = "patch" => M!Current(p) # None
      /\ editing' = [editing EXCEPT ![e] = new]
      /\ overlapped' = (overlapped \/ read # M!Merged)
      /\ UNCHANGED <<model, snapshot, loading, wanted, expired, writer, access, default,
                     chosen, writes, expiries>>
  BY DEF M!BeginEdit
<1>2. read \in M!ProviderModelRow
  <2>1. M!Merged \in M!ProviderModelRow
    BY MergedType DEF CatInv
  <2>2. M!Current(p) # None => M!Current(p).model \in M!ProviderModelRow
    BY DEF CatInv, M!CatTypeOK, M!Current, M!Snapshot
  <2> QED
    BY <1>1, <2>1, <2>2
<1> HIDE DEF read
<1>3. new \in M!Edit /\ new.row = read
  BY <1>2 DEF M!Edit
<1> HIDE DEF new
<1>4. M!CatTypeOK'
  <2>1. overlapped' \in BOOLEAN
    BY <1>1 DEF CatInv, M!CatTypeOK
  <2> QED
    BY <1>1, <1>3, <2>1 DEF CatInv, M!CatTypeOK
<1>5. M!Merged' = M!Merged /\ \A a \in Actors : M!Current(a)' = M!Current(a)
  BY <1>1 DEF M!Merged, M!Current
<1>6. LoadsWhenStale' /\ FreshOnesAgree'
  BY <1>1, <1>5 DEF CatInv, LoadsWhenStale, FreshOnesAgree, UpToDate
<1>7. OfferedAsWanted'
  BY <1>1, <1>3, <1>5 DEF CatInv, OfferedAsWanted, M!CatTypeOK
<1> QED
  BY <1>1, <1>4, <1>6, <1>7 DEF CatInv

(* Plans, the platform's defaults, and a workspace's choice.               *)
LEMMA CatChoices ==
  ASSUME CatInv, NEW p \in Actors,
         \/ \E next \in M!Access : M!SetPlanModelAccess(p, next)
         \/ M!UpdateSettings(p) \/ M!SetPlatformDefaults(p)
  PROVE  CatInv'
<1>1. UNCHANGED <<model, snapshot, loading, editing, wanted, overlapped, expired, writer,
                  writes, expiries>>
  BY DEF M!SetPlanModelAccess, M!UpdateSettings, M!SetPlatformDefaults
<1>2. /\ access' \in M!Access /\ default' \in BOOLEAN /\ chosen' \in BOOLEAN
      /\ (access.default => access.allowed # "others")'
  BY DEF CatInv, M!CatTypeOK, M!SetPlanModelAccess, M!UpdateSettings,
         M!SetPlatformDefaults, M!ValidAccess
<1>3. M!Merged' = M!Merged /\ \A a \in Actors : M!Current(a)' = M!Current(a)
  BY <1>1 DEF M!Merged, M!Current
<1>4. M!CatTypeOK'
  BY <1>1, <1>2 DEF CatInv, M!CatTypeOK
<1>5. LoadsWhenStale' /\ FreshOnesAgree' /\ OfferedAsWanted'
  BY <1>1, <1>3 DEF CatInv, LoadsWhenStale, FreshOnesAgree, UpToDate, OfferedAsWanted
<1> QED
  BY <1>2, <1>4, <1>5 DEF CatInv

(* Every step keeps the invariant.                                         *)
LEMMA CatInvStep == CatInv /\ [MCNext]_mcVars => CatInv'
<1> SUFFICES ASSUME CatInv, M!CatNext \/ UNCHANGED catVars PROVE CatInv'
  BY DEF MCNext, mcVars, Flow, Loop, OAuth, Mcp, Integration, Source, Key
<1>1. CASE M!CatNext
  BY <1>1, CatLoads, CatWrites, CatEdits, CatChoices DEF M!CatNext
<1>2. CASE UNCHANGED catVars
  <2>1. M!Merged' = M!Merged /\ \A a \in Actors : M!Current(a)' = M!Current(a)
    BY <1>2 DEF catVars, M!Merged, M!Current
  <2>2. M!CatTypeOK'
    BY <1>2 DEF catVars, CatInv, M!CatTypeOK
  <2> QED
    BY <1>2, <2>1, <2>2 DEF catVars, CatInv, LoadsWhenStale, FreshOnesAgree, UpToDate,
                            OfferedAsWanted
<1> QED
  BY <1>1, <1>2

(* What the invariant says of the catalogue.                               *)
LEMMA CatInvMeans == CatInv => M!BehindByOneTtl /\ M!WriterSeesItsWrite
<1> SUFFICES ASSUME CatInv PROVE M!BehindByOneTtl /\ M!WriterSeesItsWrite
  OBVIOUS
<1>1. ASSUME NEW p \in Actors
      PROVE  /\ M!Current(p) # None /\ M!Behind(p) => p \notin expired
             /\ M!MayRun(p) =>
                  /\ M!PlanAllowsModel(M!Current(p).model)
                  /\ M!Behind(p) \/ overlapped \/ wanted
  <2>1. M!Current(p) # None /\ M!Behind(p) => p \notin expired
    BY DEF CatInv, FreshOnesAgree, UpToDate, M!Behind
  <2>2. M!MayRun(p) => M!PlanAllowsModel(M!Current(p).model) /\ M!Current(p).model.enabled
    BY DEF M!MayRun, M!AssertSelectable
  <2>3. ~overlapped => M!Merged.enabled = wanted
    BY DEF CatInv, OfferedAsWanted
  <2>4. M!Current(p).model.enabled /\ ~M!Behind(p) /\ ~overlapped => wanted
    BY <2>3 DEF M!Behind
  <2> QED
    BY <2>1, <2>2, <2>4
<1>2. M!BehindByOneTtl
  BY <1>1 DEF M!BehindByOneTtl, CatInv, OfferedAsWanted
<1>3. M!WriterSeesItsWrite
  BY DEF M!WriterSeesItsWrite, CatInv, FreshOnesAgree, UpToDate, M!Behind, M!CatTypeOK
<1> QED
  BY <1>2, <1>3

--------------------------------------------------------------------------------
(* PROVIDER KEYS.  Which key a stored verdict is about.                    *)

(* The verdict on the key is inductive as it stands.                       *)
KeyInv == M!VerdictIsAboutTheKey

(* No key is stored at the start.                                          *)
LEMMA KeyInvInit == MCInit => KeyInv
<1>1. stored = 0 => stored \in 0 .. MaxKeys
  BY BoundsAssumption
<1> QED
  BY <1>1 DEF MCInit, M!KeyInit, KeyInv, M!VerdictIsAboutTheKey, M!KeyTypeOK

(* What an administrator and the snapshots do.                             *)
LEMMA KeySaves ==
  ASSUME KeyInv, NEW p \in Actors,
         \/ M!SaveCredential(p) \/ M!RemoveCredential(p) \/ M!Load(p) \/ M!Expire(p)
         \/ \E k \in People : M!BeginCheck(k, p)
  PROVE  KeyInv'
<1> USE DEF KeyInv, M!VerdictIsAboutTheKey
<1>1. CASE M!SaveCredential(p)
  <2>1. /\ stored + 1 \in M!Key /\ stored' \in 0 .. MaxKeys
        /\ credential' = [key |-> stored + 1, lastCheckOk |-> None]
    BY <1>1, BoundsAssumption DEF M!KeyTypeOK, M!SaveCredential, M!Saved, M!Key
  <2>2. credential' \in M!ProviderCredentialRow /\ credential'.lastCheckOk = None
    BY <2>1 DEF M!ProviderCredentialRow
  <2>3. verdict' \in M!Key \cup {None}
    BY <1>1 DEF M!KeyTypeOK, M!SaveCredential
  <2>4. cached' \in [Actors -> M!Key \cup {M!NoKey, None}]
    BY <1>1 DEF M!KeyTypeOK, M!SaveCredential
  <2>5. UNCHANGED <<valid, trying, overtaken>>
    BY <1>1 DEF M!SaveCredential
  <2>6. M!KeyTypeOK'
    BY <2>1, <2>2, <2>3, <2>4, <2>5 DEF M!KeyTypeOK
  <2> QED
    BY <2>2, <2>6
<1>2. CASE M!RemoveCredential(p)
  BY <1>2 DEF M!KeyTypeOK, M!RemoveCredential
<1>3. CASE M!Load(p)
  <2>1. M!Stored \in M!Key \cup {M!NoKey, None}
    BY DEF M!KeyTypeOK, M!Stored, M!ProviderCredentialRow
  <2>2. M!KeyTypeOK'
    BY <1>3, <2>1 DEF M!KeyTypeOK, M!Load
  <2> QED
    BY <1>3, <2>2 DEF M!Load
<1>4. CASE M!Expire(p)
  BY <1>4 DEF M!KeyTypeOK, M!Expire
<1>5. ASSUME NEW k \in People, M!BeginCheck(k, p)
      PROVE  KeyInv'
  <2>1. M!KeyTypeOK'
    BY <1>5 DEF M!KeyTypeOK, M!BeginCheck
  <2>2. UNCHANGED <<credential, valid, verdict>> /\ (overtaken => overtaken')
    BY <1>5 DEF M!BeginCheck
  <2> QED
    BY <2>1, <2>2
<1> QED
  BY <1>1, <1>2, <1>3, <1>4, <1>5

(* The answer of a check.                                                  *)
LEMMA KeyChecks ==
  ASSUME KeyInv, NEW k \in People, NEW answered \in BOOLEAN, M!RecordCheck(k, answered)
  PROVE  KeyInv'
<1> USE DEF KeyInv, M!VerdictIsAboutTheKey
<1> DEFINE ok == answered /\ trying[k] \in valid
           new == [credential EXCEPT !.lastCheckOk = ok]
<1>1. /\ trying[k] \in M!Key /\ trying' = [trying EXCEPT ![k] = None]
      /\ credential' = IF credential = None THEN None ELSE new
      /\ verdict' = IF credential = None THEN verdict ELSE trying[k]
      /\ UNCHANGED <<cached, valid, stored>>
  BY DEF M!KeyTypeOK, M!RecordCheck
<1>2. overtaken' = (overtaken \/ (credential # None /\ credential.key # trying[k]))
  BY DEF M!RecordCheck
<1>3. overtaken' \in BOOLEAN
  BY <1>2 DEF M!KeyTypeOK
<1>4. CASE credential = None
  <2>1. M!KeyTypeOK'
    BY <1>1, <1>3, <1>4 DEF M!KeyTypeOK
  <2> QED
    BY <1>1, <1>4, <2>1
<1>5. CASE credential # None
  <2>1. credential \in M!ProviderCredentialRow /\ ok \in BOOLEAN
    BY <1>5 DEF M!KeyTypeOK
  <2> HIDE DEF ok
  <2>2. new \in M!ProviderCredentialRow /\ new.key = credential.key
    BY <2>1 DEF M!ProviderCredentialRow
  <2>3. new.lastCheckOk = ok
    BY <2>1 DEF M!ProviderCredentialRow
  <2> HIDE DEF new
  <2>4. M!KeyTypeOK'
    BY <1>1, <1>3, <1>5, <2>2 DEF M!KeyTypeOK
  <2>5. ASSUME ~overtaken'
        PROVE  /\ verdict' = credential'.key
               /\ credential'.lastCheckOk => credential'.key \in valid'
    <3>1. verdict' = trying[k] /\ credential' = new /\ valid' = valid
      BY <1>1, <1>5
    <3>2. credential.key = trying[k]
      BY <1>2, <1>5, <2>5
    <3>3. ok => trying[k] \in valid
      BY DEF ok
    <3> QED
      BY <2>2, <2>3, <3>1, <3>2, <3>3
  <2> QED
    BY <2>4, <2>5
<1> QED
  BY <1>4, <1>5

(* Every step keeps the invariant.                                         *)
LEMMA KeyInvStep == KeyInv /\ [MCNext]_mcVars => KeyInv'
<1> SUFFICES ASSUME KeyInv, M!KeyNext \/ UNCHANGED keyVars PROVE KeyInv'
  BY DEF MCNext, mcVars, Flow, Loop, OAuth, Mcp, Integration, Source, Model
<1>1. CASE M!KeyNext
  BY <1>1, KeySaves, KeyChecks DEF M!KeyNext
<1>2. CASE UNCHANGED keyVars
  BY <1>2 DEF keyVars, KeyInv, M!VerdictIsAboutTheKey, M!KeyTypeOK
<1> QED
  BY <1>1, <1>2

--------------------------------------------------------------------------------
(* THE FLOW ENGINE.  The order in which nodes are reached, the budget over *)
(* all attempts, and what a flow that finishes has left.                   *)

(* A set of numbers that is not empty has a least one.                     *)
LEMMA LeastPlace ==
  ASSUME NEW S \in SUBSET Nat, S # {}
  PROVE  \E m \in S : \A n \in S : m <= n
<1>1. IsWellFoundedOn(OpToRel(<, Nat), Nat)
  BY NatLessThanWellFounded, Zenon
<1>2. PICK m \in S : \A n \in S : <<n, m>> \notin OpToRel(<, Nat)
  BY <1>1, WFMin, Zenon
<1>3. \A n \in S : ~(n < m)
  BY <1>2 DEF OpToRel
<1> QED
  BY <1>3

(* What is in a list has a first place in it.                              *)
LEMMA FirstPlace ==
  ASSUME NEW list \in Seq(Nodes), NEW a \in ToSet(list)
  PROVE  \E i \in DOMAIN list : list[i] = a /\ \A j \in DOMAIN list : j < i => list[j] # a
<1> DEFINE places == {i \in DOMAIN list : list[i] = a}
<1>1. DOMAIN list = 1..Len(list) /\ Len(list) \in Nat
  OBVIOUS
<1>2. places # {}
  BY DEF ToSet
<1>3. places \in SUBSET Nat
  BY <1>1
<1>4. PICK i \in places : \A j \in places : i <= j
  <2> HIDE DEF places
  <2> QED
    BY <1>2, <1>3, LeastPlace
<1>5. \A j \in DOMAIN list : j < i => list[j] # a
  BY <1>1, <1>4
<1> QED
  BY <1>4, <1>5

(* The order of a list's members by their first places is one.             *)
LEMMA ListOrder ==
  ASSUME NEW list \in Seq(Nodes), NEW a \in ToSet(list), NEW b \in ToSet(list)
  PROVE  /\ InFront(list, a, b) \/ InFront(list, b, a) \/ a = b
         /\ InFront(list, a, b) => ~InFront(list, b, a) /\ a # b
         /\ \A c \in ToSet(list) :
              InFront(list, a, b) /\ InFront(list, b, c) => InFront(list, a, c)
<1>1. DOMAIN list = 1..Len(list) /\ Len(list) \in Nat
  OBVIOUS
<1>2. PICK i \in DOMAIN list : list[i] = a /\ \A j \in DOMAIN list : j < i => list[j] # a
  BY FirstPlace
<1>3. PICK k \in DOMAIN list : list[k] = b /\ \A j \in DOMAIN list : j < k => list[j] # b
  BY FirstPlace
<1>4. InFront(list, a, b) <=> i < k
  <2>1. ASSUME i < k PROVE InFront(list, a, b)
    <3>1. \A j \in 1..i : j \in DOMAIN list /\ j < k
      BY <1>1, <2>1
    <3> QED
      BY <1>2, <1>3, <3>1 DEF InFront
  <2>2. ASSUME InFront(list, a, b) PROVE i < k
    <3>1. PICK p \in DOMAIN list : list[p] = a /\ \A j \in 1..p : list[j] # b
      BY <2>2 DEF InFront
    <3>2. i <= p
      BY <1>1, <1>2, <3>1
    <3>3. ~(k <= p)
      BY <1>1, <1>3, <3>1
    <3> QED
      BY <1>1, <3>2, <3>3
  <2> QED
    BY <2>1, <2>2
<1>5. InFront(list, b, a) <=> k < i
  <2>1. ASSUME k < i PROVE InFront(list, b, a)
    <3>1. \A j \in 1..k : j \in DOMAIN list /\ j < i
      BY <1>1, <2>1
    <3> QED
      BY <1>2, <1>3, <3>1 DEF InFront
  <2>2. ASSUME InFront(list, b, a) PROVE k < i
    <3>1. PICK p \in DOMAIN list : list[p] = b /\ \A j \in 1..p : list[j] # a
      BY <2>2 DEF InFront
    <3>2. k <= p
      BY <1>1, <1>3, <3>1
    <3>3. ~(i <= p)
      BY <1>1, <1>2, <3>1
    <3> QED
      BY <1>1, <3>2, <3>3
  <2> QED
    BY <2>1, <2>2
<1>6. ASSUME NEW c \in ToSet(list), InFront(list, a, b), InFront(list, b, c)
      PROVE  InFront(list, a, c)
  <2>1. PICK p \in DOMAIN list : list[p] = b /\ \A j \in 1..p : list[j] # c
    BY <1>6 DEF InFront
  <2>2. k <= p /\ i < k
    BY <1>1, <1>3, <1>4, <1>6, <2>1
  <2>3. \A j \in 1..i : list[j] # c
    BY <1>1, <2>1, <2>2
  <2> QED
    BY <1>2, <2>3 DEF InFront
<1>7. a = b <=> i = k
  BY <1>1, <1>2, <1>3
<1>8. i \in Nat /\ k \in Nat
  BY <1>1
<1> QED
  BY <1>4, <1>5, <1>6, <1>7, <1>8

(* Reaching more nodes keeps the order, and all but the nodes reached.     *)
LEMMA ReachKeepsOrder ==
  ASSUME NEW s \in StateType, InOneOrder(s),
         NEW list \in Seq(Nodes), NEW targets \in SUBSET ToSet(list)
  PROVE  /\ Reach(s, list, targets) \in StateType /\ InOneOrder(Reach(s, list, targets))
         /\ Reach(s, list, targets).reached = s.reached \cup targets
         /\ Reach(s, list, targets).completed = s.completed
         /\ Reach(s, list, targets).executions = s.executions
<1> DEFINE new == targets \ s.reached
           ahead == {p \in new \X new : InFront(list, p[1], p[2])}
           before == s.before \cup (s.reached \X new) \cup ahead
           t == Reach(s, list, targets)
<1>1. ToSet(list) \subseteq Nodes
  BY DEF ToSet
<1>2. new \subseteq ToSet(list) /\ new \subseteq Nodes /\ new \cap s.reached = {}
  BY <1>1
<1>3. s.reached \subseteq Nodes /\ s.before \subseteq s.reached \X s.reached
  BY DEF StateType, InOneOrder
<1>4. /\ t = [s EXCEPT !.reached = s.reached \cup new, !.before = before]
      /\ s.reached \cup new = s.reached \cup targets
  BY DEF Reach
<1>5. before \subseteq (s.reached \cup new) \X (s.reached \cup new)
  BY <1>3
<1>6. \A a, b \in s.reached : <<a, b>> \in before <=> <<a, b>> \in s.before
  BY <1>2
<1>7. \A a \in s.reached, b \in new : <<a, b>> \in before /\ <<b, a>> \notin before /\ a # b
  BY <1>2, <1>3
<1>8. \A a, b \in new : <<a, b>> \in before <=> InFront(list, a, b)
  BY <1>2, <1>3
<1> HIDE DEF new, before
<1>9. /\ t \in StateType /\ t.reached = s.reached \cup new /\ t.before = before
      /\ t.completed = s.completed /\ t.executions = s.executions
  <2>1. before \subseteq Nodes \X Nodes
    BY <1>2, <1>3, <1>5
  <2> QED
    BY <1>2, <1>3, <1>4, <2>1 DEF StateType
<1>10. InOneOrder(t)
  <2> DEFINE R == s.reached \cup new
  <2>1. \A a, b \in R : <<a, b>> \in before \/ <<b, a>> \in before \/ a = b
    <3>1. \A a, b \in new : <<a, b>> \in before \/ <<b, a>> \in before \/ a = b
      BY <1>2, <1>8, ListOrder
    <3>2. \A a, b \in s.reached : <<a, b>> \in before \/ <<b, a>> \in before \/ a = b
      BY <1>6 DEF InOneOrder
    <3> QED
      BY <1>7, <3>1, <3>2
  <2>2. \A a, b \in R : <<a, b>> \in before => <<b, a>> \notin before /\ a # b
    <3>1. \A a, b \in new : <<a, b>> \in before => <<b, a>> \notin before /\ a # b
      BY <1>2, <1>8, ListOrder
    <3>2. \A a, b \in s.reached : <<a, b>> \in before => <<b, a>> \notin before /\ a # b
      BY <1>6 DEF InOneOrder
    <3> QED
      BY <1>7, <3>1, <3>2
  <2>3. \A a, b, c \in R :
          <<a, b>> \in before /\ <<b, c>> \in before => <<a, c>> \in before
    <3>1. \A a, b, c \in new :
            <<a, b>> \in before /\ <<b, c>> \in before => <<a, c>> \in before
      BY <1>2, <1>8, ListOrder
    <3>2. \A a, b, c \in s.reached :
            <<a, b>> \in before /\ <<b, c>> \in before => <<a, c>> \in before
      BY <1>6 DEF InOneOrder
    <3> QED
      BY <1>7, <3>1, <3>2
  <2> QED
    BY <1>5, <1>9, <2>1, <2>2, <2>3 DEF InOneOrder
<1> QED
  BY <1>4, <1>9, <1>10

(* Node executions of the attempt that may be in no checkpoint.            *)
Unsaved ==
  IF current.node = None THEN 0 ELSE 1 + current.threw * MaxItems + current.done

(* What a death can hide: the node in flight and the items of its attempts. *)
Hidden == used.crashes * (1 + 4 * MaxItems)

(* Attempts that the executions under way still have.                      *)
Left ==
  IF current.node = None THEN 0
  ELSE 3 - current.threw + (IF current.done > 0 THEN 3 - current.bodyThrew ELSE 0)

(* A node in flight stays within its plan, and only a loop has items.      *)
FlightIsPlanned ==
  /\ current.node = None => current = Idle
  /\ phase # "running" => current = Idle
  /\ current.done <= current.planned /\ current.planned <= current.items
  /\ current.items > 0 => graph.body[current.node] # None

(* Until an attempt dies, the checkpoint is what it has settled, short of  *)
(* the node in flight.                                                     *)
CheckpointIsCurrent ==
  phase # "dead" =>
    /\ saved.completed = live.completed /\ saved.reached = live.reached
    /\ saved.executions <= live.executions
    /\ live.executions <= saved.executions + Unsaved

(* What was executed is counted, or hidden by a death.                     *)
ExecutionsAreCounted ==
  spent <= (IF phase = "dead" THEN saved.executions ELSE live.executions) + Hidden

(* Every execution brings its three attempts more.                         *)
AttemptsAreCounted == again + Left <= 3 * spent

FloInv ==
  /\ TypeOK /\ used \in [failures : Nat, stops : Nat, crashes : Nat, retries : Nat]
  /\ FlightIsPlanned /\ CheckpointIsCurrent /\ ExecutionsAreCounted /\ AttemptsAreCounted
  /\ phase = "finished" => NextRunnable = {}

LEMMA FloInvInit == MCInit => FloInv
<1> SUFFICES ASSUME Init PROVE FloInv
  BY DEF MCInit
<1>1. /\ Begin \in Nodes /\ None \notin Nodes /\ Graphs \subseteq FlowType
      /\ MAX_NODE_EXECUTIONS \in Nat \ {0} /\ MaxItems \in Nat
  BY FlowsAssumption, LimitsAssumption
<1>2. /\ graph \in Graphs /\ saved = Fresh /\ live = Fresh /\ current = Idle
      /\ phase = "running" /\ stop = FALSE /\ cut = {} /\ spent = 0 /\ again = 0
      /\ used = [failures |-> 0, stops |-> 0, crashes |-> 0, retries |-> 0]
  BY DEF Init
<1>3. /\ Fresh \in StateType /\ Fresh.executions = 0
      /\ Fresh.reached = {Begin} /\ Fresh.before = {}
  BY <1>1 DEF Fresh, StateType
<1>4. InOneOrder(Fresh)
  BY <1>3 DEF InOneOrder
<1>5. TypeOK
  <2>1. Idle \in Flight
    BY <1>1 DEF Idle, Flight
  <2>2. {saved, live} \subseteq StateType /\ InOneOrder(saved) /\ InOneOrder(live)
    BY <1>2, <1>3, <1>4
  <2> QED
    BY <1>2, <2>1, <2>2 DEF TypeOK
<1>6. FlightIsPlanned /\ CheckpointIsCurrent /\ ExecutionsAreCounted /\ AttemptsAreCounted
  <2>1. current.node = None /\ current.done = 0 /\ current.planned = 0 /\ current.items = 0
    BY <1>2 DEF Idle
  <2>2. Unsaved = 0 /\ Left = 0 /\ Hidden = 0
    BY <1>1, <1>2, <2>1 DEF Unsaved, Left, Hidden
  <2> QED
    BY <1>2, <1>3, <2>1, <2>2 DEF FlightIsPlanned, CheckpointIsCurrent, ExecutionsAreCounted,
                                  AttemptsAreCounted
<1> QED
  BY <1>2, <1>5, <1>6 DEF FloInv

(* What the invariant says of the numbers, once and for all.               *)
LEMMA FloNumbers ==
  ASSUME FloInv
  PROVE  /\ MAX_NODE_EXECUTIONS \in Nat /\ MaxItems \in Nat
         /\ live.executions \in Nat /\ saved.executions \in Nat
         /\ spent \in Nat /\ again \in Nat
         /\ current.planned \in 0..MaxItems /\ current.done \in 0..MaxItems
         /\ current.items \in 0..MaxItems /\ current.threw \in 0..3
         /\ current.bodyThrew \in 0..3 /\ current.node \in Nodes \cup {None}
         /\ used.crashes \in Nat /\ Hidden \in Nat /\ Unsaved \in Nat /\ Left \in Nat
<1>1. MAX_NODE_EXECUTIONS \in Nat /\ MaxItems \in Nat
  BY LimitsAssumption
<1>2. /\ {live, saved} \subseteq StateType /\ spent \in Nat /\ again \in Nat
      /\ current \in Flight /\ used.crashes \in Nat
  BY DEF FloInv, TypeOK
<1>3. live.executions \in Nat /\ saved.executions \in Nat
  BY <1>1, <1>2 DEF StateType
<1>4. /\ current.planned \in 0..MaxItems /\ current.done \in 0..MaxItems
      /\ current.items \in 0..MaxItems /\ current.threw \in 0..3
      /\ current.bodyThrew \in 0..3 /\ current.node \in Nodes \cup {None}
  BY <1>2 DEF Flight
<1>5. Hidden \in Nat /\ Unsaved \in Nat /\ Left \in Nat
  BY <1>1, <1>2, <1>4 DEF Hidden, Unsaved, Left
<1> QED
  BY <1>1, <1>2, <1>3, <1>4, <1>5

(* A bound that is used leaves the other counts alone.                     *)
LEMMA UseType ==
  ASSUME FloInv, NEW bound \in {"failures", "stops", "crashes", "retries"}, NEW limit \in Nat,
         Use(bound, limit)
  PROVE  /\ used' \in [failures : Nat, stops : Nat, crashes : Nat, retries : Nat]
         /\ used'.crashes = IF bound = "crashes" THEN used.crashes + 1 ELSE used.crashes
BY DEF FloInv, Use

(* A plan is within the list.                                              *)
LEMMA PlanFits ==
  ASSUME NEW items \in 0..MaxItems, NEW count \in 0..MAX_NODE_EXECUTIONS
  PROVE  Planned(items, count) \in 0..MaxItems /\ Planned(items, count) <= items
BY LimitsAssumption DEF Planned, LessOf

(* A node starts.                                                          *)
LEMMA FloStarts == ASSUME FloInv, startNode PROVE FloInv'
<1>1. PICK n \in NextRunnable :
        \E items \in IF IsLoop(n) THEN 0..MaxItems ELSE {0} :
          current' = [Idle EXCEPT !.node = n, !.items = items,
                                  !.planned = Planned(items, live.executions + 1)]
  BY DEF startNode
<1>2. PICK items \in IF IsLoop(n) THEN 0..MaxItems ELSE {0} :
        current' = [Idle EXCEPT !.node = n, !.items = items,
                                !.planned = Planned(items, live.executions + 1)]
  BY <1>1
<1>3. /\ phase = "running" /\ current = Idle /\ live.executions < MAX_NODE_EXECUTIONS
      /\ live' = [live EXCEPT !.executions = live.executions + 1] /\ spent' = spent + 1
      /\ UNCHANGED <<graph, saved, phase, stop, cut, again, used>>
  BY DEF startNode, Ready
<1>4. live \in StateType /\ n \in Nodes /\ n # None
  BY FlowsAssumption DEF FloInv, TypeOK, StateType, NextRunnable
<1>5. items \in 0..MaxItems /\ (items > 0 => graph.body[n] # None)
  BY <1>2, FloNumbers DEF IsLoop
<1> DEFINE plan == Planned(items, live.executions + 1)
<1>6. plan \in 0..MaxItems /\ plan <= items
  BY <1>3, <1>5, PlanFits, FloNumbers
<1>7. current' = [node |-> n, items |-> items, planned |-> plan, done |-> 0, threw |-> 0,
                  bodyThrew |-> 0]
  BY <1>2 DEF Idle
<1> HIDE DEF plan
<1>8. current' \in Flight
  BY <1>4, <1>5, <1>6, <1>7, FloNumbers DEF Flight
<1>9. /\ live' \in StateType /\ live'.executions = live.executions + 1
      /\ live'.completed = live.completed /\ live'.reached = live.reached
      /\ live'.before = live.before
  BY <1>3, <1>4, FloNumbers DEF StateType
<1>10. InOneOrder(live)'
  BY <1>9 DEF FloInv, TypeOK, InOneOrder
<1>11. TypeOK'
  BY <1>3, <1>8, <1>9, <1>10, FloNumbers DEF FloInv, TypeOK, InOneOrder
<1>12. FlightIsPlanned'
  BY <1>3, <1>4, <1>5, <1>6, <1>7 DEF FlightIsPlanned
<1>13. Unsaved = 0 /\ Unsaved' = 1 /\ Hidden' = Hidden /\ Left = 0 /\ Left' = 3
  <2>1. current'.node = n /\ current'.threw = 0 /\ current'.done = 0
    BY <1>7
  <2>2. current.node = None
    BY <1>3 DEF Idle
  <2> QED
    BY <1>3, <1>4, <2>1, <2>2, FloNumbers DEF Unsaved, Hidden, Left
<1>14. CheckpointIsCurrent'
  BY <1>3, <1>9, <1>13, FloNumbers DEF FloInv, CheckpointIsCurrent
<1>15. ExecutionsAreCounted' /\ AttemptsAreCounted'
  BY <1>3, <1>9, <1>13, FloNumbers DEF FloInv, ExecutionsAreCounted, AttemptsAreCounted
<1> QED
  BY <1>3, <1>11, <1>12, <1>14, <1>15 DEF FloInv

(* An item of the loop begins.                                             *)
LEMMA FloRunsBody == ASSUME FloInv, runBody PROVE FloInv'
<1>1. /\ phase = "running" /\ current.done < current.planned
      /\ live.executions < MAX_NODE_EXECUTIONS
      /\ live' = [live EXCEPT !.executions = live.executions + 1] /\ spent' = spent + 1
      /\ current' = [current EXCEPT !.done = current.done + 1, !.bodyThrew = 0]
      /\ UNCHANGED <<graph, saved, phase, stop, cut, again, used>>
  BY DEF runBody
<1>2. current \in Flight /\ live \in StateType
  BY DEF FloInv, TypeOK
<1>3. /\ current' \in Flight /\ current'.node = current.node
      /\ current'.planned = current.planned /\ current'.items = current.items
      /\ current'.done = current.done + 1 /\ current'.threw = current.threw
      /\ current'.bodyThrew = 0
  <2>1. current.done + 1 \in 0..MaxItems
    BY <1>1, FloNumbers
  <2>2. 0 \in 0..3
    OBVIOUS
  <2> PICK begun \in 0..MaxItems : begun = current.done + 1
    BY <2>1
  <2>3. current' = [current EXCEPT !.done = begun, !.bodyThrew = 0]
    BY <1>1
  <2> QED
    BY <1>2, <2>2, <2>3 DEF Flight
<1>4. current.node # None
  BY <1>1, FloNumbers DEF FloInv, FlightIsPlanned, Idle
<1>5. /\ live' \in StateType /\ live'.executions = live.executions + 1
      /\ live'.completed = live.completed /\ live'.reached = live.reached
      /\ live'.before = live.before
  BY <1>1, <1>2, FloNumbers DEF StateType
<1>6. InOneOrder(live)'
  BY <1>5 DEF FloInv, TypeOK, InOneOrder
<1>7. TypeOK'
  BY <1>1, <1>3, <1>5, <1>6, FloNumbers DEF FloInv, TypeOK, InOneOrder
<1>8. FlightIsPlanned'
  BY <1>1, <1>3, <1>4, FloNumbers DEF FloInv, FlightIsPlanned
<1>9. Unsaved' = Unsaved + 1 /\ Hidden' = Hidden /\ Left' <= Left + 3 /\ Left' \in Nat
  <2>1. PICK past \in Nat : past = current.threw * MaxItems
    BY FloNumbers
  <2>2. Unsaved = 1 + past + current.done /\ Unsaved' = 1 + past + (current.done + 1)
    BY <1>1, <1>3, <1>4, <2>1 DEF Unsaved
  <2>3. /\ Left = 3 - current.threw + (IF current.done > 0 THEN 3 - current.bodyThrew ELSE 0)
        /\ Left' = 3 - current.threw + (IF current.done + 1 > 0 THEN 3 - 0 ELSE 0)
    BY <1>3, <1>4 DEF Left
  <2>4. Hidden' = Hidden
    BY <1>1 DEF Hidden
  <2> QED
    BY <2>1, <2>2, <2>3, <2>4, FloNumbers
<1>10. CheckpointIsCurrent'
  BY <1>1, <1>5, <1>9, FloNumbers DEF FloInv, CheckpointIsCurrent
<1>11. ExecutionsAreCounted' /\ AttemptsAreCounted'
  BY <1>1, <1>5, <1>9, FloNumbers DEF FloInv, ExecutionsAreCounted, AttemptsAreCounted
<1> QED
  BY <1>1, <1>7, <1>8, <1>10, <1>11 DEF FloInv

(* An attempt at a node, or at its body, throws and is followed by another. *)
LEMMA FloRetries == ASSUME FloInv, retryNode \/ retryBody PROVE FloInv'
<1>1. /\ Use("failures", MaxFailures) /\ phase = "running" /\ again' = again + 1
      /\ UNCHANGED <<graph, saved, live, phase, stop, cut, spent>>
  BY DEF retryNode, retryBody
<1>2. /\ used' \in [failures : Nat, stops : Nat, crashes : Nat, retries : Nat]
      /\ used'.crashes = used.crashes
  BY <1>1, UseType, LimitsAssumption
<1>3. current \in Flight /\ graph \in FlowType /\ live \in StateType
  BY FlowsAssumption DEF FloInv, TypeOK
<1>4. /\ current' \in Flight /\ current.node \in Nodes /\ current'.node = current.node
      /\ current'.done <= current'.planned /\ current'.planned <= current'.items
      /\ current'.items = current.items
      /\ Unsaved <= Unsaved' /\ Left' < Left /\ Left' \in Nat /\ Unsaved' \in Nat
  <2>1. CASE retryNode
    <3> DEFINE n == current.node
               plan == Planned(current.items, live.executions)
    <3>1. /\ n \in Nodes /\ n # None /\ current.threw < graph.retries[n]
          /\ current' = [current EXCEPT !.threw = current.threw + 1, !.done = 0,
                                        !.bodyThrew = 0, !.planned = plan]
      BY <2>1, FloNumbers DEF retryNode
    <3>2. graph.retries[n] \in 0..3
      BY <1>3, <3>1 DEF FlowType
    <3>3. plan \in 0..MaxItems /\ plan <= current.items
      BY <1>3, PlanFits, FloNumbers DEF StateType
    <3> HIDE DEF n, plan
    <3>4. /\ current' \in Flight /\ current'.node = current.node /\ current'.planned = plan
          /\ current'.items = current.items /\ current'.done = 0
          /\ current'.threw = current.threw + 1 /\ current.threw \in 0..2
      <4>1. current.threw \in 0..2 /\ current.threw + 1 \in 0..3
        BY <3>1, <3>2, FloNumbers
      <4> PICK tries \in 0..3 : tries = current.threw + 1
        BY <4>1
      <4>2. 0 \in 0..3 /\ 0 \in 0..MaxItems
        BY FloNumbers
      <4>3. current' = [current EXCEPT !.threw = tries, !.done = 0, !.bodyThrew = 0,
                                       !.planned = plan]
        BY <3>1
      <4> QED
        BY <1>3, <3>3, <4>1, <4>2, <4>3 DEF Flight
    <3>5. current.node \in Nodes /\ current.node # None
      BY <3>1 DEF n
    <3>6. (current.threw + 1) * MaxItems = current.threw * MaxItems + MaxItems
      BY <3>4, FloNumbers
    <3>7. Unsaved <= Unsaved' /\ Unsaved' \in Nat
      BY <3>4, <3>5, <3>6, FloNumbers DEF Unsaved
    <3>8. Left' < Left /\ Left' \in Nat
      BY <3>4, <3>5, FloNumbers DEF Left
    <3> QED
      BY <3>3, <3>4, <3>5, <3>7, <3>8
  <2>2. CASE retryBody
    <3> DEFINE body == graph.body[current.node]
    <3>1. /\ current.done > 0 /\ current.bodyThrew < graph.retries[body]
          /\ current' = [current EXCEPT !.bodyThrew = current.bodyThrew + 1]
      BY <2>2 DEF retryBody
    <3>2. current.node \in Nodes /\ current.node # None /\ body # None
      BY <3>1, FloNumbers DEF FloInv, FlightIsPlanned, Idle
    <3>3. body \in Nodes
      BY <1>3, <3>2 DEF FlowType
    <3>4. graph.retries[body] \in 0..3
      BY <1>3, <3>3 DEF FlowType
    <3> HIDE DEF body
    <3>5. /\ current' \in Flight /\ current'.node = current.node
          /\ current'.planned = current.planned /\ current'.items = current.items
          /\ current'.done = current.done /\ current'.threw = current.threw
          /\ current'.bodyThrew = current.bodyThrew + 1 /\ current.bodyThrew \in 0..2
      BY <1>3, <3>1, <3>4, FloNumbers DEF Flight
    <3>6. Unsaved' = Unsaved
      BY <3>5 DEF Unsaved
    <3>7. Left' < Left /\ Left' \in Nat
      BY <3>1, <3>2, <3>5, FloNumbers DEF Left
    <3> QED
      BY <3>2, <3>5, <3>6, <3>7, FloNumbers DEF FloInv, FlightIsPlanned
  <2> QED
    BY <2>1, <2>2
<1>5. Hidden' = Hidden
  BY <1>2 DEF Hidden
<1>6. TypeOK'
  BY <1>1, <1>4, FloNumbers DEF FloInv, TypeOK, InOneOrder
<1>7. FlightIsPlanned'
  BY <1>1, <1>4, FlowsAssumption DEF FloInv, FlightIsPlanned
<1>8. CheckpointIsCurrent'
  BY <1>1, <1>4, FloNumbers DEF FloInv, CheckpointIsCurrent
<1>9. ExecutionsAreCounted' /\ AttemptsAreCounted'
  BY <1>1, <1>4, <1>5, FloNumbers DEF FloInv, ExecutionsAreCounted, AttemptsAreCounted
<1> QED
  BY <1>1, <1>2, <1>6, <1>7, <1>8, <1>9 DEF FloInv

(* A node is done, and the checkpoint says so.                             *)
LEMMA FloSettles ==
  ASSUME FloInv, phase = "running", NEW n \in Nodes,
         NEW list \in Seq(Nodes), NEW targets \in SUBSET ToSet(list),
         markDone(n, list, targets), UNCHANGED <<graph, phase, stop, spent, again>>,
         cut' \subseteq Nodes, used'.crashes = used.crashes,
         used' \in [failures : Nat, stops : Nat, crashes : Nat, retries : Nat]
  PROVE  FloInv'
<1> DEFINE t == Reach(live, list, targets)
<1>1. live \in StateType /\ InOneOrder(live)
  BY DEF FloInv, TypeOK
<1>2. t \in StateType /\ InOneOrder(t) /\ t.executions = live.executions
  BY <1>1, ReachKeepsOrder
<1>3. live' = [t EXCEPT !.completed = t.completed \cup {n}] /\ saved' = live' /\ current' = Idle
  BY DEF markDone
<1> HIDE DEF t
<1>4. /\ live' \in StateType /\ live'.executions = live.executions
      /\ live'.reached = t.reached /\ live'.before = t.before
  BY <1>2, <1>3 DEF StateType
<1>5. InOneOrder(live)' /\ InOneOrder(saved)'
  BY <1>2, <1>3, <1>4 DEF InOneOrder
<1>6. TypeOK'
  BY <1>3, <1>4, <1>5, FloNumbers DEF FloInv, TypeOK, Idle, Flight
<1>7. Unsaved' = 0 /\ Left' = 0 /\ Hidden' = Hidden
  BY <1>3 DEF Unsaved, Left, Hidden, Idle
<1>8. live'.executions \in 0..MAX_NODE_EXECUTIONS
  BY <1>4 DEF StateType
<1>9. FlightIsPlanned'
  BY <1>3, <1>8, FloNumbers DEF FlightIsPlanned, Idle
<1>10. CheckpointIsCurrent'
  BY <1>3, <1>7, <1>8, FloNumbers DEF CheckpointIsCurrent
<1>11. ExecutionsAreCounted' /\ AttemptsAreCounted'
  BY <1>4, <1>7, FloNumbers DEF FloInv, ExecutionsAreCounted, AttemptsAreCounted
<1> QED
  BY <1>6, <1>9, <1>10, <1>11 DEF FloInv

(* What the nodes of a flow lead to.                                       *)
LEMMA GraphType ==
  ASSUME FloInv, NEW n \in Nodes
  PROVE  /\ graph.down[n] \in Seq(Nodes) /\ graph.goto[n] \in Seq(Nodes)
         /\ \A targets \in Targets(n) : targets \subseteq ToSet(graph.down[n])
<1>1. graph \in FlowType
  BY FlowsAssumption DEF FloInv, TypeOK
<1>2. graph.down[n] \in Seq(Nodes) /\ graph.goto[n] \in Seq(Nodes)
  BY <1>1 DEF FlowType
<1>3. \A targets \in Targets(n) : targets \subseteq ToSet(graph.down[n])
  BY DEF Targets
<1> QED
  BY <1>2, <1>3

LEMMA FloFinishesNode == ASSUME FloInv, finishNode PROVE FloInv'
<1> DEFINE n == current.node
<1>1. n \in Nodes /\ phase = "running" /\ cut \subseteq Nodes
  BY DEF FloInv, TypeOK, Flight, finishNode
<1>2. PICK targets \in Targets(n) : markDone(n, graph.down[n], targets)
  BY DEF finishNode
<1>3. cut' \subseteq Nodes /\ UNCHANGED <<graph, phase, stop, spent, again, used>>
  BY <1>1 DEF finishNode
<1>4. used' \in [failures : Nat, stops : Nat, crashes : Nat, retries : Nat]
  BY <1>3 DEF FloInv
<1> HIDE DEF n
<1>5. graph.down[n] \in Seq(Nodes) /\ targets \in SUBSET ToSet(graph.down[n])
  BY <1>1, GraphType
<1> QED
  BY <1>1, <1>2, <1>3, <1>4, <1>5, FloSettles

(* The attempt ends, or is left as it is, between two nodes.               *)
LEMMA FloStaysSettled ==
  ASSUME FloInv, phase = "running",
         live' = live, saved' = live, current' = Idle, UNCHANGED <<graph, cut, spent, again>>,
         phase' \in {"finished", "failed", "stopped", "over_budget"}, stop' \in BOOLEAN,
         phase' = "finished" => NextRunnable = {},
         used'.crashes = used.crashes,
         used' \in [failures : Nat, stops : Nat, crashes : Nat, retries : Nat]
  PROVE  FloInv'
<1>1. live \in StateType /\ InOneOrder(live)
  BY DEF FloInv, TypeOK
<1>2. /\ live' \in StateType /\ saved' \in StateType /\ InOneOrder(live') /\ InOneOrder(saved')
      /\ live'.executions \in 0..MAX_NODE_EXECUTIONS
  BY <1>1 DEF StateType
<1>3. TypeOK'
  BY <1>2, FloNumbers DEF FloInv, TypeOK, Idle, Flight
<1>4. Unsaved' = 0 /\ Left' = 0 /\ Hidden' = Hidden
  BY DEF Unsaved, Left, Hidden, Idle
<1>5. FlightIsPlanned'
  BY <1>2, FloNumbers DEF FlightIsPlanned, Idle
<1>6. CheckpointIsCurrent'
  BY <1>2, <1>4, FloNumbers DEF CheckpointIsCurrent
<1>7. ExecutionsAreCounted' /\ AttemptsAreCounted'
  BY <1>2, <1>4, FloNumbers DEF FloInv, ExecutionsAreCounted, AttemptsAreCounted
<1>8. phase' = "finished" => NextRunnable' = {}
  BY DEF NextRunnable, Blocked, Upstream
<1> QED
  BY <1>3, <1>5, <1>6, <1>7, <1>8 DEF FloInv

LEMMA FloEnds ==
  ASSUME FloInv, stopped \/ finish \/ overBudget
  PROVE  FloInv'
<1>1. /\ phase = "running" /\ current = Idle /\ live' = live /\ saved' = live
      /\ phase' \in {"finished", "stopped", "over_budget"}
      /\ UNCHANGED <<graph, current, stop, cut, spent, again, used>>
      /\ phase' = "finished" => NextRunnable = {}
  BY DEF stopped, finish, overBudget, Ready
<1>2. stop \in BOOLEAN /\ used \in [failures : Nat, stops : Nat, crashes : Nat, retries : Nat]
  BY DEF FloInv, TypeOK
<1> QED
  BY <1>1, <1>2, FloStaysSettled

LEMMA FloFails == ASSUME FloInv, nodeFails PROVE FloInv'
<1> DEFINE n == current.node
<1>1. n \in Nodes /\ phase = "running" /\ cut \subseteq Nodes /\ stop \in BOOLEAN
  BY DEF FloInv, TypeOK, Flight, nodeFails
<1>2. Use("failures", MaxFailures) /\ UNCHANGED <<graph, stop, cut, spent, again>>
  BY DEF nodeFails
<1>3. /\ used' \in [failures : Nat, stops : Nat, crashes : Nat, retries : Nat]
      /\ used'.crashes = used.crashes
  BY <1>2, UseType, LimitsAssumption
<1>4. \/ markDone(n, graph.down[n], ToSet(graph.down[n])) /\ UNCHANGED phase
      \/ markDone(n, graph.goto[n], ToSet(graph.goto[n])) /\ UNCHANGED phase
      \/ saved' = live /\ phase' = "failed" /\ current' = Idle /\ UNCHANGED live
  BY DEF nodeFails
<1> HIDE DEF n
<1>5. graph.down[n] \in Seq(Nodes) /\ graph.goto[n] \in Seq(Nodes)
  BY <1>1, GraphType
<1>6. cut' \subseteq Nodes
  BY <1>1, <1>2
<1>7. CASE markDone(n, graph.down[n], ToSet(graph.down[n])) /\ UNCHANGED phase
  BY <1>1, <1>2, <1>3, <1>5, <1>6, <1>7, FloSettles
<1>8. CASE markDone(n, graph.goto[n], ToSet(graph.goto[n])) /\ UNCHANGED phase
  BY <1>1, <1>2, <1>3, <1>5, <1>6, <1>8, FloSettles
<1>9. CASE saved' = live /\ phase' = "failed" /\ current' = Idle /\ UNCHANGED live
  BY <1>1, <1>2, <1>3, <1>9, FloStaysSettled
<1> QED
  BY <1>4, <1>7, <1>8, <1>9

LEMMA FloStopAsked == ASSUME FloInv, requestStop PROVE FloInv'
<1>1. /\ Use("stops", MaxStops) /\ phase = "running" /\ stop' \in BOOLEAN
      /\ UNCHANGED <<graph, saved, live, current, phase, cut, spent, again>>
  BY DEF requestStop
<1>2. /\ used' \in [failures : Nat, stops : Nat, crashes : Nat, retries : Nat]
      /\ used'.crashes = used.crashes
  BY <1>1, UseType, LimitsAssumption
<1>3. Unsaved' = Unsaved /\ Left' = Left /\ Hidden' = Hidden
  BY <1>1, <1>2 DEF Unsaved, Left, Hidden
<1> QED
  BY <1>1, <1>2, <1>3 DEF FloInv, TypeOK, InOneOrder, FlightIsPlanned, CheckpointIsCurrent,
                          ExecutionsAreCounted, AttemptsAreCounted

(* A death hides what is not in the checkpoint, which is one node's worth. *)
LEMMA FloCrashes == ASSUME FloInv, crash PROVE FloInv'
<1>1. /\ Use("crashes", MaxCrashes) /\ phase = "running" /\ phase' = "dead" /\ current' = Idle
      /\ UNCHANGED <<graph, saved, live, stop, cut, spent, again>>
  BY DEF crash
<1>2. /\ used' \in [failures : Nat, stops : Nat, crashes : Nat, retries : Nat]
      /\ used'.crashes = used.crashes + 1
  BY <1>1, UseType, LimitsAssumption
<1>3. Unsaved <= 1 + 4 * MaxItems
  <2>1. current.threw * MaxItems <= 3 * MaxItems
    <3>1. current.threw \in {0, 1, 2, 3}
      BY FloNumbers
    <3>2. /\ 0 * MaxItems = 0 /\ 1 * MaxItems = MaxItems
          /\ 2 * MaxItems <= 3 * MaxItems /\ 0 <= 3 * MaxItems /\ MaxItems <= 3 * MaxItems
      BY FloNumbers
    <3> QED
      BY <3>1, <3>2, FloNumbers
  <2> QED
    BY <2>1, FloNumbers DEF Unsaved
<1>4. Hidden' = Hidden + (1 + 4 * MaxItems)
  <2>1. \A c, k \in Nat : (c + 1) * k = c * k + k
    OBVIOUS
  <2>2. 1 + 4 * MaxItems \in Nat
    BY FloNumbers
  <2> QED
    BY <1>2, <2>1, <2>2, FloNumbers DEF Hidden
<1>5. spent <= saved.executions + Unsaved + Hidden
  BY <1>1, FloNumbers DEF FloInv, CheckpointIsCurrent, ExecutionsAreCounted
<1>6. ExecutionsAreCounted'
  BY <1>1, <1>3, <1>4, <1>5, FloNumbers DEF ExecutionsAreCounted
<1>7. AttemptsAreCounted'
  <2>1. Left' = 0
    BY <1>1 DEF Left, Idle
  <2> QED
    BY <1>1, <2>1, FloNumbers DEF FloInv, AttemptsAreCounted
<1>8. FlightIsPlanned'
  BY <1>1 DEF FlightIsPlanned, Idle
<1>9. TypeOK'
  BY <1>1, FloNumbers DEF FloInv, TypeOK, InOneOrder, Idle, Flight
<1> QED
  BY <1>1, <1>2, <1>6, <1>7, <1>8, <1>9 DEF FloInv, CheckpointIsCurrent

LEMMA FloResumes == ASSUME FloInv, resume PROVE FloInv'
<1>1. /\ phase \in {"failed", "stopped", "over_budget", "dead"} /\ phase' = "running"
      /\ live' = saved /\ stop' = FALSE
      /\ UNCHANGED <<graph, saved, current, cut, spent, again>>
      /\ Use("retries", MaxRetries) \/ UNCHANGED used
      /\ phase = "dead" \/ Use("retries", MaxRetries)
  BY DEF resume
<1>2. /\ used' \in [failures : Nat, stops : Nat, crashes : Nat, retries : Nat]
      /\ used'.crashes = used.crashes
  <2>1. CASE UNCHANGED used
    BY <2>1 DEF FloInv
  <2>2. CASE Use("retries", MaxRetries)
    BY <2>2, UseType, LimitsAssumption
  <2> QED
    BY <1>1, <2>1, <2>2
<1>3. saved \in StateType /\ InOneOrder(saved) /\ current = Idle
  BY <1>1 DEF FloInv, TypeOK, FlightIsPlanned
<1>4. saved.executions \in 0..MAX_NODE_EXECUTIONS
  BY <1>3 DEF StateType
<1>5. Unsaved = 0 /\ Unsaved' = 0 /\ Left = Left' /\ Hidden' = Hidden
  BY <1>1, <1>2, <1>3 DEF Unsaved, Left, Hidden, Idle
<1>6. TypeOK'
  <2>1. live' \in StateType /\ saved' \in StateType
    BY <1>1, <1>3
  <2>2. InOneOrder(live)' /\ InOneOrder(saved)'
    BY <1>1, <1>3 DEF InOneOrder
  <2> QED
    BY <1>1, <2>1, <2>2 DEF FloInv, TypeOK
<1>7. FlightIsPlanned'
  BY <1>1, <1>3, <1>4 DEF FlightIsPlanned, Idle
<1>8. CheckpointIsCurrent'
  BY <1>1, <1>4, <1>5, FloNumbers DEF CheckpointIsCurrent
<1>9. spent <= saved.executions + Hidden
  <2>1. CASE phase = "dead"
    BY <2>1 DEF FloInv, ExecutionsAreCounted
  <2>2. CASE phase # "dead"
    BY <1>5, <2>2, FloNumbers DEF FloInv, ExecutionsAreCounted, CheckpointIsCurrent
  <2> QED
    BY <2>1, <2>2
<1>10. ExecutionsAreCounted' /\ AttemptsAreCounted'
  BY <1>1, <1>5, <1>9 DEF FloInv, ExecutionsAreCounted, AttemptsAreCounted
<1> QED
  BY <1>1, <1>2, <1>6, <1>7, <1>8, <1>10 DEF FloInv

(* Every step keeps the invariant.                                         *)
LEMMA FloInvStep == FloInv /\ [MCNext]_mcVars => FloInv'
<1> SUFFICES ASSUME FloInv, Next \/ UNCHANGED vars PROVE FloInv'
  BY DEF MCNext, mcVars, Flow, Loop, OAuth, Mcp, Integration, Source, Model, Key
<1>1. CASE Next
  BY <1>1, FloStarts, FloRunsBody, FloRetries, FloFinishesNode, FloEnds, FloFails, FloStopAsked,
     FloCrashes, FloResumes DEF Next
<1>2. CASE UNCHANGED vars
  BY <1>2 DEF vars, FloInv, TypeOK, InOneOrder, FlightIsPlanned, CheckpointIsCurrent,
              ExecutionsAreCounted, AttemptsAreCounted, Unsaved, Left, Hidden, NextRunnable,
              Blocked, Upstream
<1> QED
  BY <1>1, <1>2

(* What was executed stays in the budget, and a flow without a cycle that  *)
(* finishes has run what it reached: of nodes that are left, one has none  *)
(* of them upstream, so it may run.                                        *)
LEMMA FloInvMeans == FloInv => TypeOK /\ FinishedIsComplete /\ BudgetHolds
<1> SUFFICES ASSUME FloInv PROVE TypeOK /\ FinishedIsComplete /\ BudgetHolds
  OBVIOUS
<1>1. {saved, live} \subseteq StateType /\ TypeOK
  BY DEF FloInv, TypeOK
<1>2. BudgetHolds
  <2>1. live.executions <= MAX_NODE_EXECUTIONS /\ saved.executions <= MAX_NODE_EXECUTIONS
    BY <1>1, FloNumbers DEF StateType
  <2> QED
    BY <2>1, FloNumbers DEF FloInv, ExecutionsAreCounted, AttemptsAreCounted, BudgetHolds, Hidden
<1>3. ASSUME phase = "finished", Acyclic PROVE live.reached \subseteq live.completed
  <2> DEFINE left == live.reached \ live.completed
  <2>1. left \in SUBSET Nodes /\ NextRunnable = {}
    BY <1>1, <1>3 DEF FloInv, StateType
  <2>2. SUFFICES ASSUME left # {} PROVE FALSE
    OBVIOUS
  <2>3. PICK n \in left : Upstream(n) \cap left = {}
    BY <1>3, <2>1, <2>2 DEF Acyclic
  <2>4. ~Blocked(n)
    BY <2>3 DEF Blocked
  <2> QED
    BY <2>1, <2>4 DEF NextRunnable
<1> QED
  BY <1>1, <1>2, <1>3 DEF FinishedIsComplete

(* A node starts from what the checkpoint has settled.                     *)
LEMMA FloStartsUnsettled ==
  FloInv /\ [MCNext]_mcVars =>
    [current.node = None /\ current'.node # None => current'.node \notin saved.completed]_vars
<1> SUFFICES ASSUME FloInv, Next, current.node = None, current'.node # None
             PROVE  current'.node \notin saved.completed
  BY DEF MCNext, mcVars, Flow, Loop, OAuth, Mcp, Integration, Source, Model, Key
<1>1. CASE startNode
  <2>1. PICK n \in NextRunnable : current'.node = n
    BY <1>1 DEF startNode
  <2>2. phase = "running"
    BY <1>1 DEF startNode, Ready
  <2>3. saved.completed = live.completed
    BY <2>2 DEF FloInv, CheckpointIsCurrent
  <2> QED
    BY <2>1, <2>3 DEF NextRunnable
<1>2. CASE runBody \/ retryBody \/ retryNode
  BY <1>2, FloNumbers DEF runBody, retryBody, retryNode, FloInv, FlightIsPlanned, Idle
<1>3. CASE finishNode \/ nodeFails
  BY <1>3 DEF finishNode, nodeFails
<1>4. CASE stopped \/ finish \/ overBudget \/ requestStop \/ crash \/ resume
  BY <1>4 DEF stopped, finish, overBudget, requestStop, crash, resume, Idle
<1> QED
  BY <1>1, <1>2, <1>3, <1>4 DEF Next

--------------------------------------------------------------------------------
(* THE TOOL LOOP.  Which calls have a result, what was executed and what   *)
(* was charged.                                                            *)

ToolCall == [round : Nat, nth : Nat \ {0}, kind : L!Kinds]
ModelCall == [round : Nat, nth : {0}, kind : {"model"}]
Message == [role : {"assistant"}, calls : Seq(ToolCall)] \cup [role : {"tool"}, call : ToolCall]

Results == {i \in DOMAIN messages : messages[i].role = "tool"}
Answered == {messages[i].call : i \in Results}

LopTypes ==
  /\ L!LopTypeOK /\ approveWrites \in BOOLEAN /\ stopping \in BOOLEAN
  /\ reason \in L!Reasons \cup {"none"}
  /\ messages \in Seq(Message) /\ pending \in Seq(ToolCall)
  /\ executions \in Seq(ToolCall) /\ billed \in Seq(ToolCall \cup ModelCall)

(* A call waits for its result in one place, and has none yet; the calls   *)
(* of a round join the conversation when the round is charged.             *)
PendingIsNew ==
  /\ at \notin {"answered", "calling", "owing", "recording", "waiting"} => pending = <<>>
  /\ at \in {"owing", "recording", "waiting"} => pending # <<>>
  /\ L!IsInjective(pending)
  /\ at # "answered" => L!ToSet(pending) \subseteq L!Made
  /\ L!ToSet(pending) \cap Answered = {}

(* Calls are numbered by their rounds; each is answered, waits, or was     *)
(* dropped.                                                                *)
CallsAreKept ==
  /\ \A call \in L!Made \cup L!ToSet(pending) : call.round <= asked
  /\ at # "failed" => L!Made \subseteq Answered \cup L!ToSet(pending) \cup dropped

(* A result stands once, behind the turn that made its call.               *)
ResultsStandOnce ==
  /\ \A i, k \in Results : messages[i].call = messages[k].call => i = k
  /\ \A i \in Results : \E j \in 1..(i - 1) : messages[i].call \in L!CallsOf(j)

(* What was executed has a result, or is about to have one.                *)
ExecutionsFit ==
  /\ L!IsInjective(executions)
  /\ at \notin {"owing", "recording", "failed"} => L!ToSet(executions) \subseteq Answered
  /\ at \in {"owing", "recording"} => L!ToSet(executions) \subseteq Answered \cup {Head(pending)}
  /\ approveWrites => \A i \in DOMAIN executions :
                        executions[i].kind = "write" => executions[i] \in approved

(* What is due is what was asked or executed and not yet charged.          *)
Dues == CASE at \in {"answered", "cut"} -> {L!Round(asked)}
          [] at = "owing" -> {Head(pending)}
          [] OTHER -> {}

Costs == L!Rounds(asked) \cup costly

ChargesFit ==
  /\ L!IsInjective(billed) /\ costly \subseteq L!ToSet(executions)
  /\ Dues \subseteq Costs
  /\ at # "failed" => L!Charged = Costs \ Dues
  /\ L!Charged \subseteq Costs /\ \A a, b \in Costs \ L!Charged : a = b

EndsMean ==
  /\ reason = "answered" => messages # <<>> /\ messages[Len(messages)] = L!Turn(<<>>)
  /\ reason = "stopped" => stopping
  /\ at = "cut" => stopping

LopInv ==
  /\ LopTypes /\ PendingIsNew /\ CallsAreKept /\ ResultsStandOnce
  /\ ExecutionsFit /\ ChargesFit /\ EndsMean

LEMMA LoopBounds ==
  /\ MaxRounds \in Nat /\ MaxAsked \in Nat /\ MaxCalls \in Nat /\ MaxResumes \in Nat
<1>1. {MaxRounds, MaxAsked, MaxCalls, MaxResumes} \subseteq Nat
  BY BoundsAssumption
<1> QED
  BY <1>1

(* A list that gets one more member, and one that loses its first.         *)
LEMMA OneMore ==
  ASSUME NEW S, NEW s \in Seq(S), NEW x \in S
  PROVE  /\ Append(s, x) \in Seq(S)
         /\ L!ToSet(Append(s, x)) = L!ToSet(s) \cup {x}
         /\ L!IsInjective(s) /\ x \notin L!ToSet(s) => L!IsInjective(Append(s, x))
         /\ \A i \in DOMAIN s : Append(s, x)[i] = s[i]
<1> DEFINE t == Append(s, x)
<1>1. /\ t \in Seq(S) /\ Len(t) = Len(s) + 1 /\ t[Len(t)] = x /\ Len(s) \in Nat
      /\ DOMAIN s = 1..Len(s) /\ DOMAIN t = 1..(Len(s) + 1)
      /\ \A i \in 1..Len(s) : t[i] = s[i]
  BY AppendProperties
<1> HIDE DEF t
<1>2. L!ToSet(t) = L!ToSet(s) \cup {x}
  <2>1. L!ToSet(t) \subseteq L!ToSet(s) \cup {x}
    BY <1>1 DEF L!ToSet
  <2>2. \A i \in DOMAIN s : s[i] = t[i] /\ i \in DOMAIN t
    BY <1>1
  <2>3. Len(t) \in DOMAIN t
    BY <1>1
  <2> QED
    BY <1>1, <2>1, <2>2, <2>3 DEF L!ToSet
<1>3. ASSUME L!IsInjective(s), x \notin L!ToSet(s) PROVE L!IsInjective(t)
  <2>1. SUFFICES ASSUME NEW a \in DOMAIN t, NEW b \in DOMAIN t, t[a] = t[b] PROVE a = b
    BY DEF L!IsInjective
  <2>2. \A i \in DOMAIN s : s[i] # x
    BY <1>3 DEF L!ToSet
  <2>3. CASE a \in DOMAIN s /\ b \in DOMAIN s
    BY <1>1, <1>3, <2>1, <2>3 DEF L!IsInjective
  <2>4. CASE a \notin DOMAIN s \/ b \notin DOMAIN s
    BY <1>1, <2>1, <2>2, <2>4
  <2> QED
    BY <2>3, <2>4
<1> QED
  BY <1>1, <1>2, <1>3 DEF t

LEMMA OneLess ==
  ASSUME NEW S, NEW s \in Seq(S), s # <<>>, L!IsInjective(s)
  PROVE  /\ Head(s) \in S /\ Head(s) \in L!ToSet(s) /\ Tail(s) \in Seq(S)
         /\ L!ToSet(Tail(s)) = L!ToSet(s) \ {Head(s)}
         /\ L!IsInjective(Tail(s))
<1> DEFINE t == Tail(s)
<1>1. /\ Head(s) = s[1] /\ t \in Seq(S) /\ Len(s) \in Nat /\ Len(s) > 0
      /\ DOMAIN s = 1..Len(s) /\ DOMAIN t = 1..(Len(s) - 1)
      /\ \A i \in 1..(Len(s) - 1) : t[i] = s[i + 1]
  BY HeadTailProperties, EmptySeq
<1>2. Head(s) \in S /\ Head(s) \in L!ToSet(s)
  BY <1>1 DEF L!ToSet
<1> HIDE DEF t
<1>3. \A i \in DOMAIN t : i + 1 \in DOMAIN s /\ i + 1 # 1 /\ t[i] = s[i + 1]
  BY <1>1
<1>4. L!ToSet(t) \subseteq L!ToSet(s) \ {Head(s)}
  <2>1. \A i \in DOMAIN t : s[i + 1] # s[1]
    BY <1>1, <1>3 DEF L!IsInjective
  <2> QED
    BY <1>1, <1>3, <2>1 DEF L!ToSet
<1>5. L!ToSet(s) \ {Head(s)} \subseteq L!ToSet(t)
  <2>1. \A i \in DOMAIN s : i # 1 => i - 1 \in DOMAIN t /\ t[i - 1] = s[i]
    BY <1>1
  <2> QED
    BY <1>1, <2>1 DEF L!ToSet
<1>6. L!IsInjective(t)
  BY <1>1, <1>3 DEF L!IsInjective
<1> QED
  BY <1>1, <1>2, <1>4, <1>5, <1>6 DEF t

(* The model's turn joins the conversation.                                *)
LEMMA TurnJoins ==
  ASSUME LopInv, NEW calls \in Seq(ToolCall), messages' = Append(messages, L!Turn(calls))
  PROVE  /\ messages' \in Seq(Message) /\ messages' # <<>>
         /\ messages'[Len(messages')] = L!Turn(calls)
         /\ Answered' = Answered /\ L!Made' = L!Made \cup L!ToSet(calls)
         /\ ResultsStandOnce'
<1> DEFINE turn == L!Turn(calls)
<1> PICK last : last = Len(messages) + 1
  OBVIOUS
<1>1. /\ turn \in Message /\ turn.role = "assistant" /\ turn.calls = calls
      /\ messages \in Seq(Message)
  BY DEF L!Turn, Message, LopInv, LopTypes
<1> HIDE DEF turn
<1>2. /\ messages' \in Seq(Message) /\ Len(messages') = Len(messages) + 1
      /\ messages'[Len(messages')] = turn /\ Len(messages) \in Nat
      /\ DOMAIN messages = 1..Len(messages) /\ DOMAIN messages' = 1..(Len(messages) + 1)
      /\ \A i \in DOMAIN messages : messages'[i] = messages[i] /\ i \in DOMAIN messages'
  BY <1>1, AppendProperties DEF turn
<1>3. Results' = Results
  BY <1>1, <1>2 DEF Results
<1>4. Answered' = Answered
  BY <1>2, <1>3 DEF Answered, Results
<1>5. \A i \in DOMAIN messages : L!CallsOf(i)' = L!CallsOf(i)
  BY <1>2 DEF L!CallsOf
<1>6. L!CallsOf(last)' = L!ToSet(calls)
  BY <1>1, <1>2 DEF L!CallsOf
<1>7. L!Made' = L!Made \cup L!ToSet(calls)
  <2>1. L!Made' = UNION {L!CallsOf(i)' : i \in 1..last}
    BY <1>2 DEF L!Made
  <2>2. L!Made = UNION {L!CallsOf(i) : i \in 1..Len(messages)}
    BY <1>2 DEF L!Made
  <2> QED
    BY <1>2, <1>5, <1>6, <2>1, <2>2
<1>8. ResultsStandOnce'
  <2>1. \A i \in Results : messages'[i] = messages[i] /\ \A j \in 1..(i - 1) : j \in DOMAIN messages
    BY <1>2 DEF Results
  <2>2. ASSUME NEW i \in Results PROVE \E j \in 1..(i - 1) : messages'[i].call \in L!CallsOf(j)'
    <3>1. PICK j \in 1..(i - 1) : messages[i].call \in L!CallsOf(j)
      BY DEF LopInv, ResultsStandOnce
    <3> QED
      BY <1>5, <2>1, <3>1
  <2>3. \A i, k \in Results : messages'[i].call = messages'[k].call => i = k
    BY <2>1 DEF LopInv, ResultsStandOnce
  <2> QED
    BY <1>3, <2>2, <2>3 DEF ResultsStandOnce
<1> QED
  BY <1>2, <1>4, <1>7, <1>8 DEF turn

(* The result of a call that has none joins it.                            *)
LEMMA ResultJoins ==
  ASSUME LopInv, NEW call \in ToolCall, call \in L!Made, call \notin Answered,
         messages' = Append(messages, L!Result(call))
  PROVE  /\ messages' \in Seq(Message)
         /\ Answered' = Answered \cup {call} /\ L!Made' = L!Made
         /\ ResultsStandOnce'
<1> DEFINE result == L!Result(call)
<1> PICK last : last = Len(messages) + 1
  OBVIOUS
<1>1. /\ result \in Message /\ result.role = "tool" /\ result.call = call
      /\ messages \in Seq(Message)
  BY DEF L!Result, Message, LopInv, LopTypes
<1> HIDE DEF result
<1>2. /\ messages' \in Seq(Message) /\ messages'[last] = result /\ Len(messages) \in Nat
      /\ DOMAIN messages = 1..Len(messages) /\ DOMAIN messages' = 1..last
      /\ \A i \in DOMAIN messages : messages'[i] = messages[i] /\ i \in DOMAIN messages'
  BY <1>1, AppendProperties DEF result
<1>3. Results' = Results \cup {last} /\ last \notin Results
  BY <1>1, <1>2 DEF Results
<1>4. \A i \in Results : messages'[i] = messages[i]
  BY <1>2 DEF Results
<1>5. Answered' = Answered \cup {call}
  <2>1. Answered' = {messages'[i].call : i \in Results'}
    BY DEF Answered
  <2>2. messages'[last].call = call
    BY <1>1, <1>2
  <2>3. \A i \in Results : messages'[i].call = messages[i].call
    BY <1>4
  <2>4. Answered = {messages[i].call : i \in Results}
    BY DEF Answered
  <2> QED
    BY ONLY <1>3, <2>1, <2>2, <2>3, <2>4
<1>6. \A i \in DOMAIN messages : L!CallsOf(i)' = L!CallsOf(i)
  BY <1>2 DEF L!CallsOf
<1>7. L!CallsOf(last)' = {}
  BY <1>1, <1>2 DEF L!CallsOf
<1>8. L!Made' = L!Made
  <2>1. L!Made' = UNION {L!CallsOf(i)' : i \in 1..last}
    BY <1>2 DEF L!Made
  <2>2. L!Made = UNION {L!CallsOf(i) : i \in 1..Len(messages)}
    BY <1>2 DEF L!Made
  <2> QED
    BY <1>2, <1>6, <1>7, <2>1, <2>2
<1>9. ResultsStandOnce'
  <2>1. ASSUME NEW i \in Results' PROVE \E j \in 1..(i - 1) : messages'[i].call \in L!CallsOf(j)'
    <3>1. CASE i \in Results
      <4>1. PICK j \in 1..(i - 1) : messages[i].call \in L!CallsOf(j)
        BY <3>1 DEF LopInv, ResultsStandOnce
      <4>2. j \in DOMAIN messages
        BY <1>2, <3>1, <4>1 DEF Results
      <4> QED
        BY <1>4, <1>6, <3>1, <4>1, <4>2
    <3>2. CASE i = last
      <4>1. PICK j \in DOMAIN messages : call \in L!CallsOf(j)
        BY DEF L!Made
      <4>2. j \in 1..(i - 1)
        BY <1>2, <3>2
      <4> QED
        BY <1>1, <1>2, <1>6, <3>2, <4>1, <4>2
    <3> QED
      BY <1>3, <3>1, <3>2
  <2>2. \A i, k \in Results : messages'[i].call = messages'[k].call => i = k
    BY <1>4 DEF LopInv, ResultsStandOnce
  <2>3. \A i \in Results : messages'[i].call \in Answered
    BY <1>4 DEF Answered
  <2>4. messages'[last].call = call
    BY <1>1, <1>2
  <2>5. \A i, k \in Results' : messages'[i].call = messages'[k].call => i = k
    BY ONLY <1>3, <2>2, <2>3, <2>4, call \notin Answered
  <2> QED
    BY <2>1, <2>5 DEF ResultsStandOnce
<1> QED
  BY <1>2, <1>5, <1>8, <1>9

(* What a model asks for: calls of its round, each once.                   *)
LEMMA WishedCalls ==
  ASSUME LopInv, NEW kinds \in L!Wishes
  PROVE  /\ L!Calls(kinds) \in Seq(ToolCall) /\ L!IsInjective(L!Calls(kinds))
         /\ \A call \in L!ToSet(L!Calls(kinds)) : call.round = asked + 1
<1> DEFINE calls == L!Calls(kinds)
<1>1. asked \in Nat
  BY LoopBounds DEF LopInv, LopTypes, L!LopTypeOK
<1>2. PICK n \in 0..MaxCalls : kinds \in [1..n -> L!Kinds]
  BY DEF L!Wishes
<1>3. n \in Nat
  BY <1>2, LoopBounds
<1>4. calls = [k \in 1..n |-> [round |-> asked + 1, nth |-> k, kind |-> kinds[k]]]
  BY <1>2 DEF L!Calls, L!Call
<1>5. \A k \in 1..n : [round |-> asked + 1, nth |-> k, kind |-> kinds[k]] \in ToolCall
  BY <1>1, <1>2, <1>3 DEF ToolCall
<1> HIDE DEF calls
<1>6. calls \in Seq(ToolCall)
  <2>1. calls \in [1..n -> ToolCall]
    BY <1>4, <1>5
  <2> QED
    BY <1>3, <2>1
<1>7. DOMAIN calls = 1..n /\ \A k \in 1..n : calls[k].nth = k /\ calls[k].round = asked + 1
  BY <1>4
<1>8. L!IsInjective(calls)
  BY <1>7 DEF L!IsInjective
<1>9. \A call \in L!ToSet(calls) : call.round = asked + 1
  BY <1>7 DEF L!ToSet
<1> QED
  BY <1>6, <1>8, <1>9 DEF calls

(* What the model made are calls, and what has a result is one of them.    *)
LEMMA MadeTypes == LopInv => L!Made \subseteq ToolCall /\ Answered \subseteq L!Made
<1> SUFFICES ASSUME LopInv PROVE L!Made \subseteq ToolCall /\ Answered \subseteq L!Made
  OBVIOUS
<1>1. messages \in Seq(Message)
  BY DEF LopInv, LopTypes
<1>2. DOMAIN messages = 1..Len(messages) /\ Len(messages) \in Nat
      /\ \A i \in DOMAIN messages : messages[i] \in Message
  BY <1>1
<1>3. \A i \in DOMAIN messages : L!CallsOf(i) \subseteq ToolCall
  <2>1. SUFFICES ASSUME NEW i \in DOMAIN messages, messages[i].role = "assistant"
                 PROVE  L!ToSet(messages[i].calls) \subseteq ToolCall
    BY DEF L!CallsOf
  <2>2. messages[i].calls \in Seq(ToolCall)
    BY <1>2, <2>1 DEF Message
  <2> QED
    BY <2>2 DEF L!ToSet
<1>4. ASSUME NEW i \in Results PROVE messages[i].call \in L!Made
  <2>1. PICK j \in 1..(i - 1) : messages[i].call \in L!CallsOf(j)
    BY DEF LopInv, ResultsStandOnce
  <2>2. j \in DOMAIN messages
    BY <1>2, <2>1 DEF Results
  <2> QED
    BY <2>1, <2>2 DEF L!Made
<1> QED
  BY <1>3, <1>4 DEF L!Made, Answered

(* Rounds are numbered, and no call is one.                                *)
LEMMA RoundsDiffer ==
  ASSUME LopInv
  PROVE  /\ asked \in Nat
         /\ L!Rounds(asked) \subseteq ModelCall /\ L!Round(asked) \in ModelCall
         /\ L!Round(asked + 1) \in ModelCall
         /\ L!Rounds(asked + 1) = L!Rounds(asked) \cup {L!Round(asked + 1)}
         /\ L!Round(asked + 1) \notin Costs
         /\ costly \subseteq ToolCall /\ ToolCall \cap ModelCall = {}
<1>1. asked \in Nat /\ executions \in Seq(ToolCall)
  BY LoopBounds DEF LopInv, LopTypes, L!LopTypeOK
<1>2. \A n \in Nat : L!Round(n) = [round |-> n, nth |-> 0, kind |-> "model"]
  BY DEF L!Round, L!Call
<1>3. \A n \in Nat : L!Round(n) \in ModelCall /\ L!Round(n).round = n
  BY <1>2 DEF ModelCall
<1>4. L!Rounds(asked) \subseteq ModelCall
  BY <1>1, <1>3 DEF L!Rounds
<1>5. 1..(asked + 1) = 1..asked \cup {asked + 1}
  BY <1>1
<1>6. L!Rounds(asked + 1) = L!Rounds(asked) \cup {L!Round(asked + 1)}
  BY <1>5 DEF L!Rounds
<1>7. costly \subseteq ToolCall
  BY <1>1 DEF LopInv, ChargesFit, L!ToSet
<1>8. ToolCall \cap ModelCall = {}
  BY DEF ToolCall, ModelCall
<1>9. L!Round(asked + 1) \notin L!Rounds(asked)
  BY <1>1, <1>3 DEF L!Rounds
<1> QED
  BY <1>1, <1>3, <1>4, <1>6, <1>7, <1>8, <1>9 DEF Costs

(* What a step that leaves the conversation alone leaves as it was.        *)
LEMMA ConversationStays ==
  ASSUME LopInv, UNCHANGED messages
  PROVE  /\ Answered' = Answered /\ L!Made' = L!Made /\ ResultsStandOnce'
         /\ messages \in Seq(Message)
BY DEF LopInv, LopTypes, ResultsStandOnce, Answered, Results, L!Made, L!CallsOf

LEMMA LopAsks ==
  ASSUME LopInv, NEW kinds \in L!Wishes, NEW seen \in BOOLEAN,
         L!Ask(L!Calls(kinds), seen)
  PROVE  LopInv'
<1> PICK wished : wished = L!Calls(kinds)
  OBVIOUS
<1> PICK calls : calls = IF seen THEN <<>> ELSE wished
  OBVIOUS
<1>1. /\ at = "asking" /\ round < MaxRounds /\ asked < MaxAsked
      /\ round' = round + 1 /\ asked' = asked + 1 /\ pending' = calls
      /\ at' = IF seen THEN "cut" ELSE "answered"
      /\ (seen => stopping)
      /\ UNCHANGED <<approveWrites, messages, reason, stopping, billed, executions, costly,
                     approved, resumes, dropped>>
  BY DEF L!Ask
<1>2. /\ calls \in Seq(ToolCall) /\ L!IsInjective(calls)
      /\ \A call \in L!ToSet(calls) : call.round = asked + 1
  <2>1. /\ <<>> \in Seq(ToolCall) /\ L!IsInjective(<<>>) /\ L!ToSet(<<>>) = {}
    BY DEF L!IsInjective, L!ToSet
  <2> QED
    BY <2>1, WishedCalls
<1>3. /\ L!LopTypeOK /\ approveWrites \in BOOLEAN /\ stopping \in BOOLEAN
      /\ reason = "none" /\ pending = <<>> /\ round \in Nat /\ asked \in Nat
      /\ executions \in Seq(ToolCall) /\ billed \in Seq(ToolCall \cup ModelCall)
  BY <1>1, LoopBounds DEF LopInv, LopTypes, PendingIsNew, L!LopTypeOK
<1>4. Answered' = Answered /\ L!Made' = L!Made /\ ResultsStandOnce' /\ messages \in Seq(Message)
  BY <1>1, ConversationStays
<1>5. at' \in {"cut", "answered"} /\ (at' # "answered" => pending' = <<>>)
  BY <1>1
<1>6. LopTypes'
  <2>1. round' \in 0..MaxRounds /\ asked' \in 0..MaxAsked /\ resumes' \in 0..MaxResumes
    BY <1>1, <1>3, LoopBounds DEF L!LopTypeOK
  <2> QED
    BY <1>1, <1>2, <1>3, <1>4, <1>5, <2>1 DEF LopTypes, L!LopTypeOK, L!Reasons
<1>7. \A call \in L!Made : call.round <= asked /\ call.round \in Nat
  BY MadeTypes DEF LopInv, CallsAreKept, ToolCall
<1>8. L!ToSet(calls) \cap Answered = {}
  BY <1>2, <1>3, <1>7, MadeTypes
<1>9. L!ToSet(pending)' = L!ToSet(calls) /\ (L!IsInjective(pending)' <=> L!IsInjective(calls))
  BY <1>1 DEF L!ToSet, L!IsInjective
<1>10. PendingIsNew'
  <2>1. at' # "answered" => L!ToSet(calls) = {}
    BY <1>1, <1>5 DEF L!ToSet
  <2> QED
    BY <1>2, <1>4, <1>5, <1>8, <1>9, <2>1 DEF PendingIsNew
<1>11. CallsAreKept'
  <2>1. L!Made \subseteq Answered \cup dropped
    BY <1>1, <1>3 DEF LopInv, CallsAreKept, L!ToSet
  <2>2. \A call \in L!Made \cup L!ToSet(calls) : call.round <= asked + 1
    BY <1>2, <1>3, <1>7
  <2> QED
    BY <1>1, <1>4, <1>5, <1>9, <2>1, <2>2 DEF CallsAreKept
<1>12. ExecutionsFit'
  BY <1>1, <1>4, <1>5 DEF LopInv, ExecutionsFit, L!IsInjective, L!ToSet
<1>13. ChargesFit'
  <2>1. /\ L!Charged = Costs /\ L!Charged' = L!Charged
        /\ L!IsInjective(billed)' /\ costly' \subseteq L!ToSet(executions)'
    BY <1>1 DEF LopInv, ChargesFit, Dues, L!Charged, L!IsInjective, L!ToSet
  <2>2. Costs' = Costs \cup {L!Round(asked + 1)} /\ L!Round(asked + 1) \notin Costs
    BY <1>1, RoundsDiffer DEF Costs, L!Rounds
  <2>3. Dues' = {L!Round(asked + 1)}
    BY <1>1, <1>5 DEF Dues
  <2> QED
    BY <1>5, <2>1, <2>2, <2>3 DEF ChargesFit
<1>14. EndsMean'
  BY <1>1, <1>3 DEF EndsMean
<1> QED
  BY <1>4, <1>6, <1>10, <1>11, <1>12, <1>13, <1>14 DEF LopInv

(* What is due is charged: once, for it was not charged before.            *)
LEMMA DueIsCharged ==
  ASSUME LopInv, NEW due, Dues = {due}, billed' = Append(billed, due),
         UNCHANGED <<executions, costly, asked>>, at # "failed",
         at' \notin {"answered", "cut", "owing"}
  PROVE  ChargesFit' /\ billed' \in Seq(ToolCall \cup ModelCall)
<1>1. /\ billed \in Seq(ToolCall \cup ModelCall) /\ L!IsInjective(billed)
      /\ L!Charged = Costs \ {due} /\ due \in Costs /\ costly \subseteq L!ToSet(executions)
  BY DEF LopInv, LopTypes, ChargesFit
<1>2. due \in ToolCall \cup ModelCall /\ due \notin L!Charged
  BY <1>1, RoundsDiffer DEF Costs
<1>3. /\ billed' \in Seq(ToolCall \cup ModelCall) /\ L!IsInjective(billed')
      /\ L!ToSet(billed') = L!ToSet(billed) \cup {due}
  BY <1>1, <1>2, OneMore DEF L!Charged
<1>4. L!Charged' = Costs
  BY <1>1, <1>3 DEF L!Charged
<1>5. /\ Costs' = Costs /\ Dues' = {} /\ costly' \subseteq L!ToSet(executions)'
      /\ L!IsInjective(billed)'
  BY <1>1, <1>3 DEF Costs, L!Rounds, Dues, L!ToSet, L!IsInjective
<1> QED
  BY <1>3, <1>4, <1>5 DEF ChargesFit

LEMMA LopChargesRound == ASSUME LopInv, L!ChargeRound PROVE LopInv'
<1>1. /\ at \in {"answered", "cut"} /\ billed' = Append(billed, L!Round(asked))
      /\ UNCHANGED <<approveWrites, round, asked, pending, stopping, executions, costly,
                     approved, resumes, dropped>>
  BY DEF L!ChargeRound
<1>2. \/ at = "cut" /\ at' = "over" /\ reason' = "stopped" /\ UNCHANGED messages
      \/ /\ at = "answered" /\ messages' = Append(messages, L!Turn(pending))
         /\ \/ pending = <<>> /\ at' = "over" /\ reason' = "answered"
            \/ at' = "calling" /\ UNCHANGED reason
  BY DEF L!ChargeRound, L!End
<1>3. /\ L!LopTypeOK /\ approveWrites \in BOOLEAN /\ stopping \in BOOLEAN
      /\ reason = "none" /\ pending \in Seq(ToolCall) /\ messages \in Seq(Message)
      /\ executions \in Seq(ToolCall) /\ (at = "cut" => pending = <<>> /\ stopping)
      /\ L!IsInjective(pending) /\ L!ToSet(pending) \cap Answered = {}
  BY <1>1 DEF LopInv, LopTypes, PendingIsNew, L!LopTypeOK, EndsMean
<1>4. /\ messages' \in Seq(Message) /\ Answered' = Answered /\ ResultsStandOnce'
      /\ L!Made' = L!Made \cup L!ToSet(pending)
      /\ reason' = "answered" => messages' # <<>> /\ messages'[Len(messages')] = L!Turn(<<>>)
  <2>1. CASE messages' = Append(messages, L!Turn(pending)) /\ at = "answered"
    BY <1>2, <1>3, <2>1, TurnJoins
  <2>2. CASE at = "cut"
    <3>1. UNCHANGED messages /\ L!ToSet(pending) = {} /\ reason' = "stopped"
      BY <1>2, <1>3, <2>2 DEF L!ToSet
    <3> QED
      BY <3>1, ConversationStays
  <2> QED
    BY <1>2, <2>1, <2>2
<1>5. ChargesFit' /\ billed' \in Seq(ToolCall \cup ModelCall)
  <2>1. Dues = {L!Round(asked)} /\ at # "failed" /\ at' \notin {"answered", "cut", "owing"}
    BY <1>1, <1>2 DEF Dues
  <2> QED
    BY <1>1, <2>1, DueIsCharged
<1>6. /\ at' \in {"over", "calling"} /\ (at' = "over" <=> reason' \in L!Reasons)
      /\ reason' \in {"none", "stopped", "answered"} /\ (at' = "over" => pending = <<>>)
      /\ reason' = "stopped" => stopping
  BY <1>2, <1>3 DEF L!Reasons
<1>7. LopTypes'
  BY <1>1, <1>3, <1>4, <1>5, <1>6 DEF LopTypes, L!LopTypeOK, L!Reasons
<1>8. L!ToSet(pending)' = L!ToSet(pending) /\ L!IsInjective(pending)' = L!IsInjective(pending)
  BY <1>1 DEF L!ToSet, L!IsInjective
<1>9. PendingIsNew'
  BY <1>1, <1>3, <1>4, <1>6, <1>8 DEF PendingIsNew
<1>10. CallsAreKept'
  BY <1>1, <1>4, <1>8 DEF LopInv, CallsAreKept
<1>11. ExecutionsFit'
  BY <1>1, <1>4, <1>6 DEF LopInv, ExecutionsFit, L!IsInjective, L!ToSet
<1>12. EndsMean'
  BY <1>1, <1>4, <1>6 DEF EndsMean
<1> QED
  BY <1>4, <1>5, <1>7, <1>9, <1>10, <1>11, <1>12 DEF LopInv

(* A call that waits is new, and may be executed.                          *)
LEMMA ExecutionJoins ==
  ASSUME LopInv, at \in {"calling", "waiting"}, pending # <<>>, NEW call, call = Head(pending),
         executions' \in {executions, Append(executions, call)},
         approveWrites' = approveWrites, approved \subseteq approved',
         approveWrites /\ call.kind = "write" /\ executions' # executions => call \in approved'
  PROVE  /\ call \in ToolCall /\ call \in L!ToSet(pending) /\ call \in L!Made
         /\ call \notin Answered /\ call \notin L!ToSet(executions)
         /\ executions' \in Seq(ToolCall) /\ L!IsInjective(executions)'
         /\ L!ToSet(executions) \subseteq L!ToSet(executions)'
         /\ L!ToSet(executions)' \subseteq Answered \cup {call}
         /\ executions' = Append(executions, call) => call \in L!ToSet(executions)'
         /\ (approveWrites => \A i \in DOMAIN executions :
                 executions[i].kind = "write" => executions[i] \in approved)'
<1>1. /\ pending \in Seq(ToolCall) /\ L!IsInjective(pending)
      /\ L!ToSet(pending) \subseteq L!Made /\ L!ToSet(pending) \cap Answered = {}
      /\ executions \in Seq(ToolCall)
      /\ L!IsInjective(executions) /\ L!ToSet(executions) \subseteq Answered
  BY DEF LopInv, LopTypes, PendingIsNew, ExecutionsFit
<1>2. call \in ToolCall /\ call \in L!ToSet(pending)
  BY <1>1, OneLess
<1>3. call \in L!Made /\ call \notin Answered /\ call \notin L!ToSet(executions)
  BY <1>1, <1>2
<1>4. /\ executions' \in Seq(ToolCall) /\ L!IsInjective(executions')
      /\ \/ executions' = executions
         \/ /\ executions' = Append(executions, call)
            /\ L!ToSet(executions') = L!ToSet(executions) \cup {call}
            /\ \A i \in DOMAIN executions : executions'[i] = executions[i]
  <2>1. CASE executions' = executions
    BY <1>1, <2>1
  <2>2. CASE executions' = Append(executions, call)
    BY <1>1, <1>2, <1>3, <2>2, OneMore
  <2> QED
    BY <2>1, <2>2
<1>5. executions' = Append(executions, call) => executions' # executions
  BY <1>1, <1>2, AppendProperties
<1>6. ASSUME approveWrites, NEW i \in DOMAIN executions', executions'[i].kind = "write"
      PROVE  executions'[i] \in approved'
  <2>1. CASE i \in DOMAIN executions /\ executions'[i] = executions[i]
    BY <1>6, <2>1 DEF LopInv, ExecutionsFit
  <2>2. CASE executions' = Append(executions, call) /\ i \notin DOMAIN executions
    <3>1. executions'[i] = call
      <4>1. /\ DOMAIN executions' = 1..(Len(executions) + 1) /\ Len(executions) \in Nat
            /\ DOMAIN executions = 1..Len(executions)
            /\ executions'[Len(executions) + 1] = call
        BY <1>1, <1>2, <2>2, AppendProperties
      <4>2. i \in DOMAIN executions' /\ i \notin DOMAIN executions
        BY <2>2
      <4>3. i = Len(executions) + 1
        BY ONLY <4>1, <4>2
      <4> QED
        BY <4>1, <4>3
    <3> QED
      BY <1>5, <1>6, <2>2, <3>1
  <2> QED
    BY <1>4, <2>1, <2>2
<1>7. /\ L!IsInjective(executions)' <=> L!IsInjective(executions')
      /\ L!ToSet(executions)' = L!ToSet(executions')
  BY DEF L!IsInjective, L!ToSet
<1> QED
  BY <1>1, <1>2, <1>3, <1>4, <1>5, <1>6, <1>7

LEMMA LopRunsTool ==
  ASSUME LopInv, NEW outcome \in L!Outcomes, NEW priced \in BOOLEAN, L!RunTool(outcome, priced)
  PROVE  LopInv'
<1> PICK call : call = Head(pending)
  OBVIOUS
<1>1. /\ at = "calling" /\ pending # <<>> /\ ~(approveWrites /\ call.kind = "write")
      /\ at' = IF priced THEN "owing" ELSE "recording"
      /\ executions' = IF L!Executes(outcome) THEN Append(executions, call) ELSE executions
      /\ costly' = IF priced THEN costly \cup {call} ELSE costly
      /\ (priced => L!Executes(outcome))
      /\ UNCHANGED <<approveWrites, round, asked, messages, pending, reason, stopping, billed,
                     approved, resumes, dropped>>
  BY DEF L!RunTool, L!NeedsApproval
<1>2. at' \in {"owing", "recording"} /\ (at' = "owing" <=> priced)
  BY <1>1
<1>3. /\ call \in ToolCall /\ call \notin Answered /\ call \notin L!ToSet(executions)
      /\ executions' \in Seq(ToolCall) /\ L!IsInjective(executions)'
      /\ L!ToSet(executions) \subseteq L!ToSet(executions)'
      /\ L!ToSet(executions)' \subseteq Answered \cup {call}
      /\ executions' = Append(executions, call) => call \in L!ToSet(executions)'
      /\ (approveWrites => \A i \in DOMAIN executions :
              executions[i].kind = "write" => executions[i] \in approved)'
  BY <1>1, ExecutionJoins
<1>4. Answered' = Answered /\ L!Made' = L!Made /\ ResultsStandOnce' /\ messages \in Seq(Message)
  BY <1>1, ConversationStays
<1>5. L!ToSet(pending)' = L!ToSet(pending) /\ L!IsInjective(pending)' = L!IsInjective(pending)
  BY <1>1 DEF L!ToSet, L!IsInjective
<1>6. reason \notin L!Reasons /\ reason # "answered"
  BY <1>1 DEF LopInv, LopTypes, L!LopTypeOK, L!Reasons
<1>7. LopTypes'
  BY <1>1, <1>2, <1>3, <1>4, <1>6 DEF LopInv, LopTypes, L!LopTypeOK
<1>8. PendingIsNew'
  BY <1>1, <1>2, <1>4, <1>5 DEF LopInv, PendingIsNew
<1>9. CallsAreKept'
  BY <1>1, <1>2, <1>4, <1>5 DEF LopInv, CallsAreKept
<1>10. ExecutionsFit'
  BY <1>1, <1>2, <1>3, <1>4 DEF ExecutionsFit
<1>11. ChargesFit'
  <2>1. /\ L!Charged = Costs /\ L!Charged' = L!Charged /\ L!IsInjective(billed)'
        /\ costly \subseteq L!ToSet(executions)
    BY <1>1 DEF LopInv, ChargesFit, Dues, L!Charged, L!IsInjective, L!ToSet
  <2>2. call \notin Costs
    BY <1>3, <2>1, RoundsDiffer DEF Costs
  <2>3. CASE priced
    <3>1. Costs' = Costs \cup {call} /\ Dues' = {call}
      BY <1>1, <1>2, <2>3 DEF Costs, L!Rounds, Dues
    <3> QED
      BY <1>1, <1>2, <1>3, <2>1, <2>2, <2>3, <3>1 DEF ChargesFit
  <2>4. CASE ~priced
    <3>1. Costs' = Costs /\ Dues' = {}
      BY <1>1, <1>2, <2>4 DEF Costs, L!Rounds, Dues
    <3> QED
      BY <1>1, <1>2, <1>3, <2>1, <2>4, <3>1 DEF ChargesFit
  <2> QED
    BY <2>3, <2>4
<1>12. EndsMean'
  BY <1>1, <1>6 DEF LopInv, EndsMean
<1> QED
  BY <1>4, <1>7, <1>8, <1>9, <1>10, <1>11, <1>12 DEF LopInv

LEMMA LopChargesCall == ASSUME LopInv, L!ChargeCall PROVE LopInv'
<1> PICK call : call = Head(pending)
  OBVIOUS
<1>1. /\ at \in {"owing", "recording"} /\ at' = "calling"
      /\ billed' = IF at = "owing" THEN Append(billed, call) ELSE billed
      /\ messages' = Append(messages, L!Result(call)) /\ pending' = Tail(pending)
      /\ UNCHANGED <<approveWrites, round, asked, reason, stopping, executions, costly,
                     approved, resumes, dropped>>
  BY DEF L!ChargeCall
<1>2. /\ pending \in Seq(ToolCall) /\ L!IsInjective(pending) /\ pending # <<>>
      /\ L!ToSet(pending) \subseteq L!Made /\ L!ToSet(pending) \cap Answered = {}
      /\ billed \in Seq(ToolCall \cup ModelCall) /\ executions \in Seq(ToolCall)
      /\ L!ToSet(executions) \subseteq Answered \cup {call}
  BY <1>1 DEF LopInv, LopTypes, PendingIsNew, ExecutionsFit
<1>3. /\ call \in ToolCall /\ pending' \in Seq(ToolCall)
      /\ L!ToSet(pending') = L!ToSet(pending) \ {call} /\ L!IsInjective(pending')
      /\ call \in L!ToSet(pending)
  BY <1>1, <1>2, OneLess
<1>4. /\ messages' \in Seq(Message)
      /\ Answered' = Answered \cup {call} /\ L!Made' = L!Made /\ ResultsStandOnce'
  BY <1>1, <1>2, <1>3, ResultJoins
<1>5. ChargesFit' /\ billed' \in Seq(ToolCall \cup ModelCall)
  <2>1. CASE at = "owing"
    <3>1. Dues = {call}
      BY <2>1 DEF Dues
    <3> QED
      BY <1>1, <2>1, <3>1, DueIsCharged
  <2>2. CASE at = "recording"
    <3>1. UNCHANGED billed /\ Dues = {} /\ Dues' = {} /\ Costs' = Costs
      BY <1>1, <2>2 DEF Dues, Costs, L!Rounds
    <3> QED
      BY <1>1, <1>2, <2>2, <3>1 DEF LopInv, ChargesFit, L!Charged, L!ToSet, L!IsInjective
  <2> QED
    BY <1>1, <2>1, <2>2
<1>6. reason \notin L!Reasons /\ reason # "answered"
  BY <1>1 DEF LopInv, LopTypes, L!LopTypeOK, L!Reasons
<1>7. LopTypes'
  BY <1>1, <1>3, <1>4, <1>5, <1>6 DEF LopInv, LopTypes, L!LopTypeOK
<1>8. L!ToSet(pending)' = L!ToSet(pending') /\ (L!IsInjective(pending)' <=> L!IsInjective(pending'))
  BY DEF L!ToSet, L!IsInjective
<1>9. PendingIsNew'
  BY <1>1, <1>2, <1>3, <1>4, <1>8 DEF PendingIsNew
<1>10. CallsAreKept'
  BY <1>1, <1>3, <1>4, <1>8 DEF LopInv, CallsAreKept
<1>11. ExecutionsFit'
  BY <1>1, <1>2, <1>4 DEF LopInv, ExecutionsFit, L!IsInjective, L!ToSet
<1>12. EndsMean'
  BY <1>1, <1>6 DEF LopInv, EndsMean
<1> QED
  BY <1>4, <1>5, <1>7, <1>9, <1>10, <1>11, <1>12 DEF LopInv

(* A charge that does not go through leaves one answer unpaid at most.     *)
LEMMA LopFailsToCharge == ASSUME LopInv, L!ChargeFails PROVE LopInv'
<1>1. /\ at \in {"answered", "cut", "owing", "recording"} /\ at' = "failed" /\ pending' = <<>>
      /\ billed' \in {billed, billed \o L!Due}
      /\ UNCHANGED <<approveWrites, round, asked, messages, reason, stopping, executions,
                     costly, approved, resumes, dropped>>
  BY DEF L!ChargeFails
<1>2. Answered' = Answered /\ L!Made' = L!Made /\ ResultsStandOnce' /\ messages \in Seq(Message)
  BY <1>1, ConversationStays
<1>3. /\ billed \in Seq(ToolCall \cup ModelCall) /\ executions \in Seq(ToolCall)
      /\ reason = "none"
  BY <1>1 DEF LopInv, LopTypes, L!LopTypeOK
<1>4. /\ L!ToSet(pending)' = {} /\ L!IsInjective(pending)'
  BY <1>1 DEF L!ToSet, L!IsInjective
<1>5. ChargesFit' /\ billed' \in Seq(ToolCall \cup ModelCall)
  <2>1. Dues' = {} /\ Costs' = Costs
    BY <1>1 DEF Dues, Costs, L!Rounds
  <2>2. CASE billed' = billed
    BY <1>1, <1>3, <2>1, <2>2 DEF LopInv, ChargesFit, L!Charged, L!ToSet, L!IsInjective
  <2>3. CASE billed' # billed
    <3>1. CASE at = "recording"
      <4>1. billed \o <<>> = billed
        BY <1>3
      <4> QED
        BY <1>1, <2>3, <3>1, <4>1 DEF L!Due
    <3>2. CASE at \in {"answered", "cut", "owing"}
      <4>1. PICK due : Dues = {due} /\ L!Due = <<due>>
        BY <3>2 DEF Dues, L!Due
      <4>2. due \in ToolCall \cup ModelCall
        BY <4>1, RoundsDiffer DEF LopInv, ChargesFit, Costs
      <4>3. billed \o <<due>> = Append(billed, due)
        BY <1>3, <4>2
      <4> QED
        BY <1>1, <2>3, <3>2, <4>1, <4>3, DueIsCharged
    <3> QED
      BY <1>1, <3>1, <3>2
  <2> QED
    BY <2>2, <2>3
<1>6. LopTypes'
  <2>1. <<>> \in Seq(ToolCall)
    OBVIOUS
  <2> QED
    BY <1>1, <1>2, <1>3, <1>5, <2>1 DEF LopInv, LopTypes, L!LopTypeOK, L!Reasons
<1>7. PendingIsNew'
  BY <1>1, <1>4 DEF PendingIsNew
<1>8. CallsAreKept'
  BY <1>1, <1>2, <1>4 DEF LopInv, CallsAreKept
<1>9. ExecutionsFit'
  BY <1>1 DEF LopInv, ExecutionsFit, L!IsInjective, L!ToSet
<1>10. EndsMean'
  BY <1>1, <1>3 DEF EndsMean
<1> QED
  BY <1>2, <1>5, <1>6, <1>7, <1>8, <1>9, <1>10 DEF LopInv

LEMMA LopResumes ==
  ASSUME LopInv, NEW yes \in BOOLEAN, NEW outcome \in L!Outcomes, L!Resume(yes, outcome)
  PROVE  LopInv'
<1> PICK call : call = Head(pending)
  OBVIOUS
<1>1. /\ at = "waiting" /\ resumes < MaxResumes /\ resumes' = resumes + 1
      /\ approved' = IF yes THEN approved \cup {call} ELSE approved
      /\ executions' = IF yes /\ L!Executes(outcome) THEN Append(executions, call)
                                                     ELSE executions
      /\ messages' = Append(messages, L!Result(call))
      /\ dropped' = dropped \cup L!ToSet(Tail(pending)) /\ pending' = <<>> /\ round' = 0
      /\ \/ at' = "asking" /\ UNCHANGED reason
         \/ stopping /\ at' = "over" /\ reason' = "stopped"
      /\ UNCHANGED <<approveWrites, asked, stopping, billed, costly>>
  BY DEF L!Resume, L!End
<1>2. /\ pending \in Seq(ToolCall) /\ L!IsInjective(pending) /\ pending # <<>>
      /\ reason = "none"
  BY <1>1 DEF LopInv, LopTypes, PendingIsNew, L!LopTypeOK
<1>3. L!ToSet(Tail(pending)) = L!ToSet(pending) \ {call}
  BY <1>2, OneLess
<1>4. /\ call \in ToolCall /\ call \in L!Made /\ call \in L!ToSet(pending)
      /\ call \notin Answered
      /\ executions' \in Seq(ToolCall) /\ L!IsInjective(executions)'
      /\ L!ToSet(executions) \subseteq L!ToSet(executions)'
      /\ L!ToSet(executions)' \subseteq Answered \cup {call}
      /\ (approveWrites => \A i \in DOMAIN executions :
              executions[i].kind = "write" => executions[i] \in approved)'
  BY <1>1, <1>2, ExecutionJoins
<1>5. /\ messages' \in Seq(Message)
      /\ Answered' = Answered \cup {call} /\ L!Made' = L!Made /\ ResultsStandOnce'
  BY <1>1, <1>4, ResultJoins
<1>6. ChargesFit'
  <2>1. Dues = {} /\ Dues' = {} /\ Costs' = Costs
    BY <1>1 DEF Dues, Costs, L!Rounds
  <2> QED
    BY <1>1, <1>4, <2>1 DEF LopInv, ChargesFit, L!Charged, L!ToSet, L!IsInjective
<1>7. LopTypes'
  <2>1. resumes' \in 0..MaxResumes /\ round' \in 0..MaxRounds
    BY <1>1, LoopBounds DEF LopInv, LopTypes, L!LopTypeOK
  <2>2. pending' \in Seq(ToolCall)
    BY <1>1
  <2> QED
    BY <1>1, <1>2, <1>4, <1>5, <2>1, <2>2 DEF LopInv, LopTypes, L!LopTypeOK, L!Reasons
<1>8. L!ToSet(pending)' = {} /\ L!IsInjective(pending)'
  BY <1>1 DEF L!ToSet, L!IsInjective
<1>9. PendingIsNew'
  BY <1>1, <1>8 DEF PendingIsNew
<1>10. CallsAreKept'
  BY <1>1, <1>3, <1>5, <1>8 DEF LopInv, CallsAreKept
<1>11. ExecutionsFit'
  BY <1>1, <1>4, <1>5 DEF ExecutionsFit
<1>12. EndsMean'
  BY <1>1, <1>2 DEF EndsMean
<1> QED
  BY <1>5, <1>6, <1>7, <1>9, <1>10, <1>11, <1>12 DEF LopInv

(* The steps that move only the loop, or end it.                           *)
LEMMA LopMoves ==
  ASSUME LopInv,
         UNCHANGED <<approveWrites, round, asked, messages, pending, billed, executions,
                     costly, approved, resumes, dropped>>,
         \/ at' = at
         \/ /\ at \in {"asking", "calling", "waiting"}
            /\ at' \in {"asking", "calling", "waiting", "over", "failed"}
            /\ at' \notin {"calling", "waiting"} => pending = <<>>
            /\ at' = "waiting" => pending # <<>>,
         at' = "over" <=> reason' \in L!Reasons, reason' \in L!Reasons \cup {"none"},
         stopping' \in BOOLEAN, stopping => stopping',
         reason' = "answered" => reason = "answered",
         reason' = "stopped" => stopping
  PROVE  LopInv'
<1>1. Answered' = Answered /\ L!Made' = L!Made /\ ResultsStandOnce'
  BY ConversationStays
<1>2. L!ToSet(pending)' = L!ToSet(pending) /\ L!IsInjective(pending)' = L!IsInjective(pending)
  BY DEF L!ToSet, L!IsInjective
<1>3. LopTypes'
  BY DEF LopInv, LopTypes, L!LopTypeOK
<1>4. PendingIsNew'
  BY <1>1, <1>2 DEF LopInv, PendingIsNew
<1>5. CallsAreKept'
  BY <1>1, <1>2 DEF LopInv, CallsAreKept
<1>6. ExecutionsFit'
  BY <1>1 DEF LopInv, ExecutionsFit, L!ToSet, L!IsInjective
<1>7. ChargesFit'
  <2>1. /\ Costs' = Costs /\ L!Charged' = L!Charged /\ L!IsInjective(billed)' = L!IsInjective(billed)
        /\ costly' = costly /\ L!ToSet(executions)' = L!ToSet(executions)
    BY DEF Costs, L!Rounds, L!Charged, L!ToSet, L!IsInjective
  <2>2. CASE at' = at
    <3>1. Dues' = Dues
      BY <2>2 DEF Dues
    <3> QED
      BY <2>1, <2>2, <3>1 DEF LopInv, ChargesFit
  <2>3. CASE at \in {"asking", "calling", "waiting"} /\ at' \notin {"answered", "cut", "owing"}
    <3>1. Dues = {} /\ Dues' = {}
      BY <2>3 DEF Dues
    <3> QED
      BY <2>1, <2>3, <3>1 DEF LopInv, ChargesFit
  <2> QED
    BY <2>2, <2>3
<1>8. EndsMean'
  BY DEF LopInv, EndsMean
<1> QED
  BY <1>1, <1>3, <1>4, <1>5, <1>6, <1>7, <1>8 DEF LopInv

LEMMA LopInvInit == MCInit => LopInv
<1> SUFFICES ASSUME L!LopInit PROVE LopInv
  BY DEF MCInit
<1>1. /\ approveWrites \in BOOLEAN /\ at = "asking" /\ round = 0 /\ asked = 0
      /\ messages = <<>> /\ pending = <<>> /\ reason = "none" /\ stopping = FALSE
      /\ billed = <<>> /\ executions = <<>> /\ costly = {} /\ resumes = 0
  BY DEF L!LopInit
<1>2. Results = {} /\ Answered = {} /\ L!Made = {}
  BY <1>1 DEF Results, Answered, L!Made
<1>3. L!ToSet(<<>>) = {} /\ L!IsInjective(<<>>)
  BY DEF L!ToSet, L!IsInjective
<1>4. LopTypes
  <2>1. L!LopTypeOK
    BY <1>1, LoopBounds DEF L!LopTypeOK, L!Reasons
  <2>2. /\ <<>> \in Seq(Message) /\ <<>> \in Seq(ToolCall)
        /\ <<>> \in Seq(ToolCall \cup ModelCall)
    OBVIOUS
  <2> QED
    BY <1>1, <2>1, <2>2 DEF LopTypes
<1>5. PendingIsNew /\ CallsAreKept /\ ResultsStandOnce /\ EndsMean
  BY <1>1, <1>2, <1>3 DEF PendingIsNew, CallsAreKept, ResultsStandOnce, EndsMean
<1>6. ExecutionsFit
  BY <1>1, <1>2, <1>3 DEF ExecutionsFit
<1>7. ChargesFit
  <2>1. Costs = {} /\ Dues = {} /\ L!Charged = {}
    BY <1>1, <1>3 DEF Costs, Dues, L!Rounds, L!Charged
  <2> QED
    BY <1>1, <1>3, <2>1 DEF ChargesFit
<1> QED
  BY <1>4, <1>5, <1>6, <1>7 DEF LopInv

(* Every step keeps the invariant.                                         *)
LEMMA LopInvStep == LopInv /\ [MCNext]_mcVars => LopInv'
<1> SUFFICES ASSUME LopInv, L!LopNext \/ UNCHANGED lopVars PROVE LopInv'
  BY DEF MCNext, mcVars, Flow, Loop, OAuth, Mcp, Integration, Source, Model, Key
<1>1. /\ at = "over" <=> reason \in L!Reasons
      /\ reason \in L!Reasons \cup {"none"} /\ stopping \in BOOLEAN
      /\ at = "asking" => pending = <<>>
      /\ at = "waiting" => pending # <<>>
      /\ reason = "stopped" => stopping
  BY DEF LopInv, LopTypes, L!LopTypeOK, PendingIsNew, EndsMean
<1>2. CASE L!AskFails \/ L!NoRoundsLeft \/ L!AwaitApproval
  BY <1>1, <1>2, LopMoves DEF L!AskFails, L!NoRoundsLeft, L!AwaitApproval, L!End, L!Reasons
<1>3. ASSUME NEW bounds \in {"ok", "ceiling", "no_credits"}, L!CheckBounds(bounds)
      PROVE  LopInv'
  BY <1>1, <1>3, LopMoves DEF L!CheckBounds, L!End, L!Reasons
<1>4. CASE L!RequestStop
  BY <1>1, <1>4, LopMoves DEF L!RequestStop, L!Reasons
<1>5. CASE UNCHANGED lopVars
  BY <1>1, <1>5, LopMoves DEF lopVars
<1> QED
  BY <1>2, <1>3, <1>4, <1>5, LopAsks, LopChargesRound, LopRunsTool, LopChargesCall,
     LopFailsToCharge, LopResumes DEF L!LopNext

LEMMA LopInvMeans == LopInv => L!LoopIsAccounted
<1> SUFFICES ASSUME LopInv PROVE L!LoopIsAccounted
  OBVIOUS
<1>1. messages \in Seq(Message) /\ L!LopTypeOK
  BY DEF LopInv, LopTypes
<1>2. /\ DOMAIN messages = 1..Len(messages) /\ Len(messages) \in Nat
      /\ \A i \in DOMAIN messages : messages[i] \in Message
  BY <1>1
<1>3. ASSUME NEW call \in ToolCall, NEW i \in DOMAIN messages
      PROVE  messages[i] = L!Result(call) <=> i \in Results /\ messages[i].call = call
  BY <1>2 DEF Results, L!Result, Message
<1>4. \A i \in Results : messages[i].call \in ToolCall
  BY MadeTypes DEF Answered
<1>5. ASSUME NEW i \in DOMAIN messages, messages[i].role = "tool"
      PROVE  /\ L!ResultsAt(messages[i].call) = {i}
             /\ \E j \in 1..(i - 1) : messages[i].call \in L!CallsOf(j)
  <2>1. i \in Results
    BY <1>5 DEF Results
  <2>2. PICK call \in ToolCall : call = messages[i].call
    BY <1>4, <2>1
  <2>3. L!ResultsAt(call) = {k \in Results : messages[k].call = call}
    BY <1>3 DEF L!ResultsAt, Results
  <2> QED
    BY <2>1, <2>2, <2>3 DEF LopInv, ResultsStandOnce
<1>6. ASSUME at = "asking", NEW call \in L!Made
      PROVE  L!ResultsAt(call) # {} \/ call \in dropped
  <2>1. call \in Answered \/ call \in dropped
    BY <1>6 DEF LopInv, PendingIsNew, CallsAreKept, L!ToSet
  <2>2. ASSUME NEW i \in Results, messages[i].call = call PROVE i \in L!ResultsAt(call)
    BY <1>3, <2>2, MadeTypes DEF L!ResultsAt, Results
  <2> QED
    BY <2>1, <2>2 DEF Answered
<1>7. L!ResultsAnswerCalls
  BY <1>5, <1>6 DEF L!ResultsAnswerCalls
<1>8. /\ L!IsInjective(billed) /\ L!IsInjective(executions)
      /\ L!Charged \subseteq Costs /\ costly \subseteq L!ToSet(executions)
      /\ approveWrites => \A i \in DOMAIN executions :
                            executions[i].kind = "write" => executions[i] \in approved
  BY DEF LopInv, ChargesFit, ExecutionsFit
<1>10. /\ \A a, b \in L!Owed : a = b
       /\ L!Owed # {} => at \in {"answered", "cut", "owing", "failed"}
  <2>1. L!Owed = Costs \ L!Charged
    BY DEF L!Owed, Costs
  <2>2. Dues # {} => at \in {"answered", "cut", "owing"}
    BY DEF Dues
  <2>3. \A a, b \in Costs \ L!Charged : a = b
    BY DEF LopInv, ChargesFit
  <2>4. at # "failed" => L!Owed \subseteq Dues
    BY <2>1 DEF LopInv, ChargesFit
  <2> QED
    BY <2>1, <2>2, <2>3, <2>4
<1>9. /\ reason = "answered" => L!Last(messages) = L!Turn(<<>>)
      /\ reason = "stopped" => stopping
  BY DEF LopInv, EndsMean, L!Last
<1> QED
  BY <1>1, <1>7, <1>8, <1>9, <1>10 DEF L!LoopIsAccounted, Costs

--------------------------------------------------------------------------------
(* THE THEOREMS.                                                           *)

(* A connection is shown as what it is at its provider: for every set of   *)
(* calls, people and authorizations, an authorization is completed by      *)
(* who started it, and while no two refreshes crossed and no answer was    *)
(* lost the row's status is what the provider would say.                   *)
THEOREM ConnectionsTellTheTruth == MCSpec => []ConnectionTellsTheTruth
<1>1. OauInv => ConnectionTellsTheTruth
  BY DEF OauInv, CompletedByTheirOwn, RowTellsTheTruth, ConnectionTellsTheTruth,
         O!ConnectionTellsTheTruth, O!Refreshing, Alive
<1> QED
  BY <1>1, OauInvInit, OauInvStep, PTL DEF MCSpec

(* A run reaches the service its workspace means: for every set of owners, *)
(* saves, discoveries and runs, the MCP server a call reached was switched *)
(* on with the tool on its allowlist and was the workspace's own whenever  *)
(* it has one, a cached list is of the row's own URL unless a save         *)
(* overlapped its discovery, and an integration is used with the key its   *)
(* row was last given.                                                     *)
THEOREM ConnectionsReachTheRightService == MCSpec => []ReachesTheRightService
<1>1. McpInv /\ IntInv => ReachesTheRightService
  BY McpInvMeans, IntInvMeans DEF ReachesTheRightService
<1> QED
  BY <1>1, McpInvInit, McpInvStep, IntInvInit, IntInvStep, PTL DEF MCSpec

(* Only what was reviewed is executed: for every set of sources, queries,  *)
(* runs and edits, the statement an agent ran, with the source it ran on,  *)
(* was written or approved by a person; and a stored schema is the one of  *)
(* the row's DSN unless a save overlapped another write.                   *)
THEOREM ConnectionsOnlyReviewedRuns == MCSpec => []OnlyReviewedRuns
<1>1. DtsInv => OnlyReviewedRuns
  BY DEF DtsInv, Reviewed, SchemasFit, OnlyReviewedRuns, D!OnlyReviewedRuns
<1> QED
  BY <1>1, DtsInvInit, DtsInvStep, PTL DEF MCSpec

(* The catalogue keeps up: for every set of processes, edits and checks, a *)
(* process answers from an old snapshot only until it expires once, the    *)
(* one that wrote sees its write, a model is offered as an administrator   *)
(* wants it unless edits overlapped, and a verdict is about the stored key *)
(* unless a check was overtaken.                                           *)
THEOREM ConnectionsCatalogueKeepsUp == MCSpec => []CatalogueKeepsUp
<1>1. CatInv /\ KeyInv => CatalogueKeepsUp
  BY CatInvMeans DEF KeyInv, CatalogueKeepsUp
<1> QED
  BY <1>1, CatInvInit, CatInvStep, KeyInvInit, KeyInvStep, PTL DEF MCSpec

(* A flow is carried out: for every flow and every limit, its budget of    *)
(* node executions holds over all attempts, what each attempt that died    *)
(* hid and the retries behind a first try apart, and a flow without a      *)
(* cycle that finishes has run every node it reached; and for every bound, *)
(* a tool loop that has not failed charges each round it was answered and  *)
(* each priced call once, one that fails leaves at most one of them        *)
(* uncharged, and each call is executed once, on its own yes where one is  *)
(* needed, its result behind the call it answers.                          *)
THEOREM FlowsAreCarriedOut == MCSpec => []FlowIsCarriedOut
<1>1. FloInv /\ LopInv => FlowIsCarriedOut
  BY FloInvMeans, LopInvMeans DEF FlowIsCarriedOut
<1> QED
  BY <1>1, FloInvInit, FloInvStep, LopInvInit, LopInvStep, PTL DEF MCSpec

(* What is settled stays settled: a node that starts, in whichever         *)
(* attempt, is none that the checkpoint has as completed.                  *)
THEOREM SettledNodesStaySettled == MCSpec => SettledStaysSettled
<1> QED
  BY FloInvInit, FloInvStep, FloStartsUnsettled, PTL DEF MCSpec, SettledStaysSettled
================================================================================
