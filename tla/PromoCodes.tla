------------------------------- MODULE PromoCodes ------------------------------
(***************************************************************************)
(* One promo code between the workspaces that redeem it and the            *)
(* administrators who create, switch and delete it (promo.service.ts).     *)
(* A redemption is one transaction that holds the code's row lock; what it *)
(* writes is seen when it commits.                                         *)
(***************************************************************************)
EXTENDS Integers, FiniteSets

CONSTANTS Workspaces,  \* each may redeem the code once
          Redeemers,   \* redemption requests
          MaxRedemptions, \* values maxRedemptions may be given, None for no limit
          None

VARIABLES code,       \* the promo_code row, None when there is none
          redemption, \* workspaces with a promo_redemption row
          granted,    \* workspaces with a ledger row promo:<code>:<workspace>
          redeeming,  \* what each request has read under the lock
          lock,       \* who holds the row: a request, "admin" or None
          asked       \* requests that have begun

proVars == <<code, redemption, granted, redeeming, lock, asked>>

PromoCodeRow ==
  [active : BOOLEAN, expired : BOOLEAN, redeemedCount : Nat,
   maxRedemptions : MaxRedemptions]
Redeeming == [workspace : Workspaces, promo : PromoCodeRow, claimed : BOOLEAN]

\* None is no row and nobody, and "admin" is no request.
ASSUME ProAssumption ==
  /\ MaxRedemptions \subseteq Nat \cup {None}
  /\ None \notin PromoCodeRow \cup Redeeming \cup Redeemers \cup {"admin"}
  /\ "admin" \notin Redeemers

ProTypeOK ==
  /\ code \in PromoCodeRow \cup {None}
  /\ redemption \subseteq Workspaces /\ granted \subseteq Workspaces
  /\ redeeming \in [Redeemers -> Redeeming \cup {None}]
  /\ lock \in Redeemers \cup {"admin", None} /\ asked \subseteq Redeemers

ProInit ==
  /\ code = None /\ redemption = {} /\ granted = {}
  /\ redeeming = [r \in Redeemers |-> None] /\ lock = None /\ asked = {}

--------------------------------------------------------------------------------
(* statusOf: inactive before expired before exhausted.                     *)
StatusOf(row) ==
  CASE ~row.active -> "inactive"
    [] row.expired -> "expired"
    [] row.maxRedemptions # None /\ row.redeemedCount >= row.maxRedemptions ->
         "exhausted"
    [] OTHER -> "active"

Create(limit) ==
  /\ code = None
  /\ code' = [active |-> TRUE, expired |-> FALSE, redeemedCount |-> 0,
              maxRedemptions |-> limit]
  /\ UNCHANGED <<redemption, granted, redeeming, lock, asked>>

(* expiresAt passes; no row changes, only what statusOf says of it.        *)
Expire ==
  /\ code # None /\ ~code.expired /\ code' = [code EXCEPT !.expired = TRUE]
  /\ UNCHANGED <<redemption, granted, redeeming, lock, asked>>

(* setActive: one UPDATE, which waits for a transaction that has the row.  *)
SetActive(active) ==
  /\ code # None /\ lock = None
  /\ code' = [code EXCEPT !.active = active]
  /\ UNCHANGED <<redemption, granted, redeeming, lock, asked>>

(* remove: the check and the delete are under one lock.                    *)
LockById ==
  /\ code # None /\ lock = None /\ lock' = "admin"
  /\ UNCHANGED <<code, redemption, granted, redeeming, asked>>

Remove ==
  /\ lock = "admin" /\ lock' = None
  /\ IF code.redeemedCount > 0 THEN UNCHANGED <<code, redemption>>
     ELSE code' = None /\ redemption' = {}
  /\ UNCHANGED <<granted, redeeming, asked>>

--------------------------------------------------------------------------------
\* Mutant: the row is read without FOR UPDATE.
LockByCode_NoLock(r, w) ==
  /\ r \notin asked /\ asked' = asked \cup {r} /\ code # None
  /\ redeeming' = [redeeming EXCEPT
       ![r] = [workspace |-> w, promo |-> code, claimed |-> FALSE]]
  /\ UNCHANGED <<code, redemption, granted, lock>>

(* redeem, lockByCode: the transaction begins, and waits for the row.      *)
LockByCode(r, w) ==
  /\ r \notin asked /\ lock = None /\ asked' = asked \cup {r}
  /\ IF code = None THEN UNCHANGED <<redeeming, lock>>   \* NotFoundError
     ELSE /\ lock' = r
          /\ redeeming' = [redeeming EXCEPT
               ![r] = [workspace |-> w, promo |-> code, claimed |-> FALSE]]
  /\ UNCHANGED <<code, redemption, granted>>

Release(r) ==
  /\ redeeming' = [redeeming EXCEPT ![r] = None]
  /\ lock' = IF lock = r THEN None ELSE lock

(* The code must be active and the workspace must not have redeemed it;    *)
(* otherwise the transaction ends having written nothing.                  *)
MayRedeem(r) ==
  /\ StatusOf(redeeming[r].promo) = "active"
  /\ redeeming[r].workspace \notin redemption

Refuse(r) ==
  /\ redeeming[r] # None /\ ~redeeming[r].claimed /\ ~MayRedeem(r)
  /\ Release(r) /\ UNCHANGED <<code, redemption, granted, asked>>

(* insertRedemption and incrementRedeemedCount, not yet committed.         *)
Claim(r) ==
  /\ redeeming[r] # None /\ ~redeeming[r].claimed /\ MayRedeem(r)
  /\ redeeming' = [redeeming EXCEPT ![r].claimed = TRUE]
  /\ UNCHANGED <<code, redemption, granted, lock, asked>>

(* grantWithin runs in the same transaction, and all three writes commit.  *)
Commit(r) ==
  /\ redeeming[r] # None /\ redeeming[r].claimed /\ code # None
  /\ redemption' = redemption \cup {redeeming[r].workspace}
  /\ code' = [code EXCEPT !.redeemedCount = @ + 1]
  /\ granted' = granted \cup {redeeming[r].workspace}
  /\ Release(r) /\ UNCHANGED asked

(* The grant fails, or the process dies: the transaction is rolled back.   *)
RollBack(r) ==
  /\ redeeming[r] # None /\ Release(r)
  /\ UNCHANGED <<code, redemption, granted, asked>>

ProNext ==
  \/ \E n \in MaxRedemptions : Create(n)
  \/ Expire \/ LockById \/ Remove
  \/ \E active \in BOOLEAN : SetActive(active)
  \/ \E r \in Redeemers :
       \/ \E w \in Workspaces : LockByCode(r, w)
       \/ Refuse(r) \/ Claim(r) \/ Commit(r) \/ RollBack(r)

ProSpec == ProInit /\ [][ProNext]_proVars

--------------------------------------------------------------------------------
(* However redemptions, switches and deletions overlap: the count on the   *)
(* code is the number of its redemptions and within its limit, and credit  *)
(* was given exactly to the workspaces that have a redemption.             *)
CodesAreHonoured ==
  /\ ProTypeOK /\ granted = redemption
  /\ code # None =>
       /\ code.redeemedCount = Cardinality(redemption)
       /\ code.maxRedemptions # None => code.redeemedCount <= code.maxRedemptions
  /\ code = None => redemption = {}
================================================================================
