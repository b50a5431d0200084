-------------------------- MODULE AutoReloadProofs --------------------------
(***************************************************************************)
(* Machine-checked theorems about AutoReload, for every set of workspaces, *)
(* scans, handlers and purchases, every bound and every price of the       *)
(* catalogue's packs: its types, that what was bought is credited, and that*)
(* it implements TopUps.                                                   *)
(***************************************************************************)
EXTENDS AutoReload, TLAPS

USE PacksAssumption, AmountsAssumption, BoundsAssumption

-----------------------------------------------------------------------------
(* What a purchase is.                                                     *)
Purchase ==
  [kind : {"auto", "checkout"}, ws : Workspaces, pack : Packs,
   outcome : {"succeeded", "pending", "declined"}, seen : Nat]

HandlerState ==
  {IdleHandler} \cup [phase : {"grant", "record", "release"}, of : Purchases]

\* Every pack is worth a number of credits.
LEMMA PackType == \A pack \in Packs : TOPUP_PACKS[pack].credits \in Nat
BY DEF TOPUP_PACKS

LEMMA PurchaseType ==
  ASSUME TypeOK, NEW p \in Purchases, Created(p)
  PROVE  purchases[p] \in Purchase /\ CreditsOf(p) \in Nat
BY PackType DEF TypeOK, Created, CreditsOf, Purchase

\* A handler that is not idle works on a purchase.
LEMMA HandlerType ==
  ASSUME TypeOK, NEW h \in Handlers, handlers[h].phase \in {"grant", "record", "release"}
  PROVE  handlers[h] \in [phase : {"grant", "record", "release"}, of : Purchases]
BY DEF TypeOK, IdleHandler

-----------------------------------------------------------------------------
(* The part of the state that scans keep, and what a step may do to it.    *)
ScanOK(scan) ==
  /\ scan.phase \in {"idle", "listed", "charging", "failed"}
  /\ scan.phase # "idle" => scan.left \subseteq Candidate
  /\ scan.phase = "charging" => scan.candidate \in Candidate
  /\ scan.phase = "failed" => scan.ws \in Workspaces

ScansOK == DOMAIN scans = Scanners /\ \A s \in Scanners : ScanOK(scans[s])

\* An event is delivered only of a purchase that was made.
Started ==
  \A h \in Handlers : handlers[h] # IdleHandler => Created(handlers[h].of)

Typed == TypeOK /\ ScansOK

\* A step that replaces one scan by a typed one keeps all of them typed.
LEMMA OneScan ==
  ASSUME ScansOK, NEW s \in Scanners, NEW scan, ScanOK(scan),
         scans' = [scans EXCEPT ![s] = scan]
  PROVE  ScansOK'
BY DEF ScansOK, ScanOK

\* A purchase stays what was bought, by whom and how; all that changes of it is
\* that a pending payment settles.
SameOrder(p) ==
  /\ purchases'[p] # NoPurchase
  /\ purchases'[p].kind = purchases[p].kind
  /\ purchases'[p].ws = purchases[p].ws /\ purchases'[p].pack = purchases[p].pack
  /\ purchases'[p].outcome = purchases[p].outcome \/ purchases[p].outcome = "pending"

\* A new purchase keeps the others.
LEMMA NewPurchaseType ==
  ASSUME TypeOK, NEW p \in Purchases, NEW kind \in {"auto", "checkout"},
         NEW w \in Workspaces, NEW pack \in Packs,
         NEW outcome \in {"succeeded", "pending", "declined"}, NEW seen \in Nat,
         NewPurchase(p, kind, w, pack, outcome, seen)
  PROVE  /\ purchases' \in [Purchases -> {NoPurchase} \cup Purchase]
         /\ \A q \in Purchases : Created(q) => purchases'[q] = purchases[q]
BY DEF TypeOK, NewPurchase, Purchase, Created

\* A payment that settles leaves everything else of its purchase.
LEMMA SettlesType ==
  ASSUME TypeOK, NEW p \in Purchases, NEW outcome \in {"succeeded", "declined"},
         PaymentSettles(p, outcome)
  PROVE  /\ purchases' \in [Purchases -> {NoPurchase} \cup Purchase]
         /\ \A q \in Purchases : Created(q) => SameOrder(q)
<1>1. purchases[p] \in Purchase /\ purchases[p].outcome = "pending"
  <2>1. purchases[p] \in {NoPurchase} \cup Purchase
    BY DEF TypeOK, Purchase
  <2>2. purchases[p].kind = "checkout" /\ purchases[p].outcome = "pending"
    BY DEF PaymentSettles
  <2>3. QED
    BY <2>1, <2>2 DEF NoPurchase
<1>2. [purchases[p] EXCEPT !.outcome = outcome] \in Purchase
  BY <1>1 DEF Purchase
<1>3. purchases' = [purchases EXCEPT ![p] = [purchases[p] EXCEPT !.outcome = outcome]]
  BY DEF PaymentSettles
<1>4. /\ purchases'[p] = [purchases[p] EXCEPT !.outcome = outcome]
      /\ \A q \in Purchases : q # p => purchases'[q] = purchases[q]
  BY <1>3 DEF TypeOK
<1>5. SameOrder(p)
  BY <1>1, <1>2, <1>4 DEF SameOrder, Purchase, NoPurchase
<1>6. QED
  BY <1>2, <1>3, <1>4, <1>5 DEF TypeOK, Purchase, SameOrder, Created

\* The customer's settings, and how a failed charge leaves them.
SettingsOK ==
  /\ settings \in [Workspaces ->
       [enabled : BOOLEAN, threshold : Nat \cup {Null}, pack : Packs \cup {"none"}]]
  /\ \A w \in Workspaces : settings[w].enabled => settings[w].pack \in Packs

LEMMA ReleaseType ==
  ASSUME SettingsOK, NEW w \in Workspaces, ReleaseFailed(w)
  PROVE  SettingsOK'
<1>1. settings' \in [Workspaces ->
       [enabled : BOOLEAN, threshold : Nat \cup {Null}, pack : Packs \cup {"none"}]]
  BY ZenonT(60) DEF SettingsOK, ReleaseFailed
<1>2. ASSUME NEW v \in Workspaces, settings'[v].enabled PROVE settings'[v].pack \in Packs
  BY <1>2 DEF SettingsOK, ReleaseFailed
<1>3. QED
  BY <1>1, <1>2 DEF SettingsOK

LEMMA TypeInit == Init => Typed
BY DEF Init, Typed, TypeOK, ScansOK, ScanOK, IdleScan, IdleHandler, Off, Null

LEMMA TypeStep == Typed /\ Started /\ [Next]_vars => Typed'
<1> SUFFICES ASSUME Typed, Started, [Next]_vars PROVE Typed'
  OBVIOUS
<1> USE DEF Null
<1>t. TypeOK /\ ScansOK
  BY DEF Typed
<1>s. SettingsOK
  BY <1>t DEF TypeOK, SettingsOK
<1>1. ASSUME NEW w \in Workspaces, NEW t \in Thresholds, NEW pack \in Packs,
             updateEnable(w, t, pack)
      PROVE  Typed'
  <2>1. used' \in [updates : Nat, crashes : Nat, redeliveries : Nat, delayed : Nat]
    BY <1>1, <1>t DEF TypeOK, updateEnable, Use
  <2>2. [enabled |-> TRUE, threshold |-> t, pack |-> pack] \in
          [enabled : BOOLEAN, threshold : Nat \cup {Null}, pack : Packs \cup {"none"}]
    OBVIOUS
  <2>3. SettingsOK'
    BY <1>1, <1>t, <2>2 DEF TypeOK, updateEnable, SettingsOK
  <2>4. QED
    BY <1>1, <1>t, <2>1, <2>3
    DEF Typed, TypeOK, ScansOK, ScanOK, updateEnable, moneyVars, SettingsOK
<1>2. ASSUME NEW w \in Workspaces, updateDisable(w) PROVE Typed'
  BY <1>2, <1>t DEF Typed, TypeOK, ScansOK, ScanOK, updateDisable, moneyVars, Use, Off
<1>3. ASSUME NEW w \in Workspaces, SubscriptionChanges(w) PROVE Typed'
  BY <1>3, <1>t
  DEF Typed, TypeOK, ScansOK, ScanOK, SubscriptionChanges, moneyVars, settingsVars, Use
<1>4. ASSUME NEW w \in Workspaces, NEW c \in Spends, Spend(w, c) PROVE Typed'
  BY <1>4, <1>t DEF Typed, TypeOK, ScansOK, ScanOK, Spend, settingsVars
<1>5. ASSUME NEW w \in Workspaces, NEW p \in Purchases, NEW pack \in Packs,
             NEW outcome \in {"succeeded", "pending"},
             CheckoutCompleted(w, p, pack, outcome)
      PROVE  Typed'
  <2>1. shortfall[w] \in Nat
    BY <1>t DEF TypeOK
  <2>2. purchases' \in [Purchases -> {NoPurchase} \cup Purchase]
    BY <1>5, <1>t, <2>1, NewPurchaseType DEF CheckoutCompleted
  <2>3. used' \in [updates : Nat, crashes : Nat, redeliveries : Nat, delayed : Nat]
    BY <1>5, <1>t DEF CheckoutCompleted, TypeOK, Use
  <2>4. QED
    BY <1>5, <1>t, <2>2, <2>3
    DEF Typed, TypeOK, ScansOK, ScanOK, CheckoutCompleted, settingsVars, moneyVars, Purchase
<1>14. ASSUME NEW p \in Purchases, NEW outcome \in {"succeeded", "declined"},
              PaymentSettles(p, outcome)
       PROVE  Typed'
  <2>1. purchases' \in [Purchases -> {NoPurchase} \cup Purchase]
    BY <1>14, <1>t, SettlesType DEF PaymentSettles
  <2>2. QED
    BY <1>14, <1>t, <2>1
    DEF Typed, TypeOK, ScansOK, ScanOK, PaymentSettles, settingsVars, moneyVars, Purchase
<1>6. ASSUME NEW s \in Scanners, ScanStep(s) PROVE Typed'
  <2>s. ScanOK(scans[s])
    BY <1>t DEF ScansOK
  <2>0. ASSUME ScansOK', purchases' \in [Purchases -> {NoPurchase} \cup Purchase],
               UNCHANGED <<entitled, moneyVars, acknowledged, handlers, used>>,
               SettingsOK', failure' \subseteq Workspaces, locked' \subseteq Workspaces
        PROVE  Typed'
    BY <2>0, <1>t DEF Typed, TypeOK, ScansOK, ScanOK, moneyVars, Purchase, SettingsOK
  <2>u. UNCHANGED settings => SettingsOK'
    BY <1>t DEF TypeOK, SettingsOK
  <2>k. UNCHANGED purchases => purchases' \in [Purchases -> {NoPurchase} \cup Purchase]
    BY <1>t DEF TypeOK, Purchase
  <2>1. ASSUME runScan(s) PROVE Typed'
    <3>1. Candidates \subseteq Candidate
      BY <1>t DEF Candidates, Candidate, TypeOK
    <3>2. ScanOK(Listed(Candidates))
      BY <3>1 DEF ScanOK, Listed
    <3>3. ScansOK'
      BY <2>1, <1>t, <3>2, OneScan DEF runScan
    <3>4. QED
      BY <2>1, <2>0, <2>u, <2>k, <3>3, <1>t DEF runScan, settingsVars, TypeOK
  <2>2. ASSUME ScanEnds(s) PROVE Typed'
    <3>1. ScanOK(IdleScan)
      BY DEF ScanOK, IdleScan
    <3>2. ScansOK'
      BY <2>2, <1>t, <3>1, OneScan DEF ScanEnds
    <3>3. QED
      BY <2>2, <2>0, <2>u, <2>k, <3>2, <1>t DEF ScanEnds, settingsVars, TypeOK
  <2>3. ASSUME NEW c \in (IF scans[s].phase = "listed" THEN scans[s].left ELSE {}),
               claimAutoReloadLock(s, c)
        PROVE  Typed'
    <3>1. c \in Candidate /\ scans[s].left \subseteq Candidate
      BY <2>3, <2>s DEF ScanOK, claimAutoReloadLock
    <3>2. ScanOK([phase |-> "charging", left |-> scans[s].left \ {c}, candidate |-> c])
      BY <3>1 DEF ScanOK
    <3>3. scans' = [scans EXCEPT ![s] =
                      [phase |-> "charging", left |-> scans[s].left \ {c}, candidate |-> c]]
      BY <2>3, <1>t DEF claimAutoReloadLock, ScansOK
    <3>4. ScansOK'
      BY <1>t, <3>2, <3>3, OneScan
    <3>5. QED
      BY <2>3, <2>0, <2>u, <2>k, <3>1, <3>4, <1>t DEF claimAutoReloadLock, TypeOK, Candidate
  <2>4. ASSUME NEW c \in (IF scans[s].phase = "listed" THEN scans[s].left ELSE {}),
               ScanSkips(s, c)
        PROVE  Typed'
    <3>1. scans[s].left \subseteq Candidate
      BY <2>4, <2>s DEF ScanOK, ScanSkips
    <3>2. ScanOK(Listed(scans[s].left \ {c}))
      BY <3>1 DEF ScanOK, Listed
    <3>3. scans' = [scans EXCEPT ![s] = Listed(scans[s].left \ {c})]
      BY <2>4, <1>t DEF ScanSkips, ScansOK
    <3>4. ScansOK'
      BY <1>t, <3>2, <3>3, OneScan
    <3>5. QED
      BY <2>4, <2>0, <2>u, <2>k, <3>4, <1>t DEF ScanSkips, settingsVars, TypeOK
  <2>c. scans[s].phase = "charging" =>
          /\ scans[s].candidate.ws \in Workspaces /\ scans[s].candidate.pack \in Packs
          /\ scans[s].candidate.seen \in Nat
          /\ ScanOK(Listed(scans[s].left))
          /\ ScanOK([phase |-> "failed", left |-> scans[s].left,
                     ws |-> scans[s].candidate.ws])
    BY <2>s DEF ScanOK, Candidate, Listed
  <2>5. ASSUME NEW p \in Purchases, NEW outcome \in {"succeeded", "declined"},
               ChargeCreates(s, p, outcome)
        PROVE  Typed'
    <3>1. purchases' \in [Purchases -> {NoPurchase} \cup Purchase]
      BY <2>5, <2>c, <1>t, NewPurchaseType DEF ChargeCreates
    <3>2. scans' = [scans EXCEPT ![s] = Listed(scans[s].left)]
      BY <2>5, <1>t DEF ChargeCreates, ScansOK
    <3>3. ScansOK'
      BY <2>5, <1>t, <2>c, <3>2, OneScan DEF ChargeCreates
    <3>4. QED
      BY <2>5, <2>0, <2>u, <3>1, <3>3, <1>t DEF ChargeCreates, settingsVars, TypeOK
  <2>f. ASSUME ScanFails(s), scans[s].phase = "charging" PROVE ScansOK'
    <3>1. scans' = [scans EXCEPT ![s] =
                      [phase |-> "failed", left |-> scans[s].left,
                       ws |-> scans[s].candidate.ws]]
      BY <2>f, <1>t DEF ScanFails, ScansOK
    <3>2. QED
      BY <2>f, <1>t, <2>c, <3>1, OneScan
  <2>6. ASSUME ChargeFails(s) PROVE Typed'
    BY <2>6, <2>0, <2>u, <2>k, <2>f, <1>t DEF ChargeFails, settingsVars, TypeOK
  <2>7. ASSUME NEW p \in Purchases, NEW outcome \in {"succeeded", "declined"},
               ChargeThrows(s, p, outcome)
        PROVE  Typed'
    <3>1. purchases' \in [Purchases -> {NoPurchase} \cup Purchase]
      BY <2>7, <2>c, <1>t, NewPurchaseType DEF ChargeThrows
    <3>2. QED
      BY <2>7, <2>0, <2>u, <2>f, <3>1, <1>t DEF ChargeThrows, settingsVars, TypeOK
  <2>8. ASSUME ScanReleases(s) PROVE Typed'
    <3>1. scans[s].ws \in Workspaces /\ ScanOK(Listed(scans[s].left))
      BY <2>8, <2>s DEF ScanReleases, ScanOK, Listed
    <3>2. scans' = [scans EXCEPT ![s] = Listed(scans[s].left)]
      BY <2>8, <1>t DEF ScanReleases, ScansOK
    <3>3. ScansOK'
      BY <1>t, <3>1, <3>2, OneScan
    <3>4. QED
      BY <2>8, <2>0, <2>k, <3>1, <3>3, <1>s, <1>t, ReleaseType
      DEF ScanReleases, ReleaseFailed, TypeOK
  <2>9. QED
    BY <1>6, <2>1, <2>2, <2>3, <2>4, <2>5, <2>6, <2>7, <2>8 DEF ScanStep
<1>7. ASSUME NEW s \in Scanners, ScanCrashes(s) PROVE Typed'
  <2>1. ScanOK(IdleScan)
    BY DEF ScanOK, IdleScan
  <2>2. ScansOK'
    BY <1>7, <1>t, <2>1, OneScan DEF ScanCrashes
  <2>3. QED
    BY <1>7, <1>t, <2>2
    DEF Typed, TypeOK, ScansOK, ScanOK, ScanCrashes, settingsVars, moneyVars, Use
<1>8. ASSUME NEW w \in Workspaces, LeaseExpires(w) PROVE Typed'
  BY <1>8, <1>t DEF Typed, TypeOK, ScansOK, ScanOK, LeaseExpires, moneyVars
<1>9. ASSUME NEW h \in Handlers, NEW p \in Purchases, Deliver(h, p) PROVE Typed'
  <2>1. handlers' \in [Handlers -> HandlerState]
    BY <1>9, <1>t DEF Deliver, TypeOK, HandlerState
  <2>2. QED
    BY <1>9, <1>t, <2>1
    DEF Typed, TypeOK, ScansOK, ScanOK, Deliver, settingsVars, moneyVars, Use, HandlerState
<1>10. ASSUME NEW h \in Handlers, HandlerStep(h) PROVE Typed'
  <2>1. CASE HandlerGrants(h)
    <3>1. handlers[h] \in [phase : {"grant", "record", "release"}, of : Purchases]
      BY <2>1, <1>t, HandlerType DEF HandlerGrants
    <3>2. handlers' \in [Handlers -> HandlerState]
      BY <2>1, <1>t, <3>1 DEF HandlerGrants, TypeOK, HandlerState
    <3>3. balance' \in [Workspaces -> Nat] /\ shortfall' \in [Workspaces -> Nat]
      <4>1. CASE handlers[h].of \in credited
        BY <2>1, <1>t, <4>1 DEF HandlerGrants, TypeOK
      <4>2. CASE handlers[h].of \notin credited
        \* The event was delivered, so its purchase was made.
        <5>1. Created(handlers[h].of)
          BY <2>1, <1>t, <3>1 DEF HandlerGrants, Started, IdleHandler
        <5>2. purchases[handlers[h].of].ws \in Workspaces
              /\ CreditsOf(handlers[h].of) \in Nat
          BY <1>t, <3>1, <5>1, PurchaseType DEF Purchase
        <5>3. QED
          BY <2>1, <1>t, <4>2, <5>2 DEF HandlerGrants, TypeOK
      <4>3. QED
        BY <4>1, <4>2
    <3>4. QED
      BY <2>1, <1>t, <3>1, <3>2, <3>3
      DEF Typed, TypeOK, ScansOK, ScanOK, HandlerGrants, settingsVars, HandlerState
  <2>2. CASE HandlerRecords(h)
    <3>1. handlers[h] \in [phase : {"grant", "record", "release"}, of : Purchases]
      BY <2>2, <1>t, HandlerType DEF HandlerRecords
    <3>2. handlers' \in [Handlers -> HandlerState]
      BY <2>2, <1>t, <3>1 DEF HandlerRecords, TypeOK, HandlerState
    <3>3. QED
      BY <2>2, <1>t, <3>1, <3>2
      DEF Typed, TypeOK, ScansOK, ScanOK, HandlerRecords, settingsVars, HandlerState
  <2>3. CASE HandlerReleases(h)
    <3>1. handlers[h] \in [phase : {"grant", "record", "release"}, of : Purchases]
      BY <2>3, <1>t, HandlerType DEF HandlerReleases
    <3>2. handlers' \in [Handlers -> HandlerState]
      BY <2>3, <1>t DEF HandlerReleases, TypeOK, HandlerState
    <3>3. purchases[handlers[h].of].ws \in Workspaces
      <4>1. Created(handlers[h].of)
        BY <2>3, <1>t, <3>1 DEF HandlerReleases, Started, IdleHandler
      <4>2. QED
        BY <1>t, <3>1, <4>1, PurchaseType DEF Purchase
    <3>4. SettingsOK' /\ failure' \subseteq Workspaces /\ locked' \subseteq Workspaces
      <4>1. CASE Granting(handlers[h].of)
        BY <2>3, <1>s, <1>t, <3>3, <4>1
        DEF HandlerReleases, ReleaseSucceeded, TypeOK, SettingsOK
      <4>2. CASE ~Granting(handlers[h].of)
        <5>1. ReleaseFailed(purchases[handlers[h].of].ws)
          BY <2>3, <4>2 DEF HandlerReleases
        <5>2. SettingsOK'
          BY <1>s, <3>3, <5>1, ReleaseType
        <5>3. QED
          BY <1>t, <3>3, <5>1, <5>2 DEF ReleaseFailed, TypeOK
      <4>3. QED
        BY <4>1, <4>2
    <3>5. acknowledged' \subseteq Purchases
      BY <2>3, <1>t, <3>1 DEF HandlerReleases, TypeOK
    <3>6. QED
      BY <2>3, <1>t, <3>2, <3>4, <3>5
      DEF Typed, TypeOK, ScansOK, ScanOK, HandlerReleases, moneyVars, HandlerState,
          SettingsOK
  <2>4. QED
    BY <1>10, <2>1, <2>2, <2>3 DEF HandlerStep
<1>11. ASSUME NEW h \in Handlers, HandlerCrashes(h) PROVE Typed'
  BY <1>11, <1>t
  DEF Typed, TypeOK, ScansOK, ScanOK, HandlerCrashes, settingsVars, moneyVars, Use
<1>12. CASE UNCHANGED vars
  BY <1>12, <1>t, SMTT(60) DEF Typed, TypeOK, ScansOK, ScanOK, vars
<1>13. QED
  BY <1>1, <1>2, <1>3, <1>4, <1>5, <1>6, <1>7, <1>8, <1>9, <1>10, <1>11, <1>12, <1>14 DEF Next

-----------------------------------------------------------------------------
(* Stripe forgets nothing: a purchase stays what was bought, and one that   *)
(* its event grants is granted by every later delivery of it.               *)
Kept ==
  \A p \in Purchases :
    Created(p) => SameOrder(p) /\ (Granting(p)' <=> Granting(p))

LEMMA PurchasesKept == TypeOK /\ [Next]_vars => Kept
<1> SUFFICES ASSUME TypeOK, [Next]_vars PROVE Kept
  OBVIOUS
<1>0. ASSUME NEW p \in Purchases, NEW kind, NEW w, NEW pack, NEW outcome, NEW seen,
             NewPurchase(p, kind, w, pack, outcome, seen)
      PROVE  Kept
  <2>1. \A q \in Purchases : Created(q) => purchases'[q] = purchases[q]
    BY <1>0 DEF TypeOK, NewPurchase, Created
  <2>2. QED
    BY <2>1 DEF Kept, SameOrder, Granting, Succeeded, Created
<1>1. ASSUME NEW w \in Workspaces, NEW p \in Purchases, NEW pack \in Packs,
             NEW outcome \in {"succeeded", "pending"},
             CheckoutCompleted(w, p, pack, outcome)
      PROVE  Kept
  BY <1>0, <1>1 DEF CheckoutCompleted
<1>5. ASSUME NEW p \in Purchases, NEW outcome \in {"succeeded", "declined"},
             PaymentSettles(p, outcome)
      PROVE  Kept
  <2>1. \A q \in Purchases : Created(q) => SameOrder(q)
    BY <1>5, SettlesType
  <2>2. \A q \in Purchases : q # p => purchases'[q] = purchases[q]
    BY <1>5 DEF PaymentSettles, TypeOK
  <2>3. Created(p) /\ purchases[p].kind = "checkout"
    BY <1>5 DEF PaymentSettles, Created, NoPurchase
  <2>4. Granting(p) /\ Granting(p)'
    BY <2>1, <2>3 DEF Granting, SameOrder, Created
  <2>5. QED
    BY <2>1, <2>2, <2>4 DEF Kept, Granting, Succeeded, Created
<1>3. CASE UNCHANGED purchases
  BY <1>3 DEF Kept, SameOrder, Granting, Succeeded, Created
<1>2. ASSUME NEW s \in Scanners, ScanStep(s) PROVE Kept
  <2>1. ASSUME NEW p \in Purchases, NEW outcome,
               ChargeCreates(s, p, outcome) \/ ChargeThrows(s, p, outcome)
        PROVE  Kept
    BY <1>0, <2>1 DEF ChargeCreates, ChargeThrows
  <2>2. QED
    BY <1>2, <1>3, <2>1
    DEF ScanStep, runScan, ScanEnds, claimAutoReloadLock, ScanSkips, ChargeFails,
        ScanReleases
<1>4. QED
  BY <1>1, <1>2, <1>3, <1>5
  DEF Next, vars, updateEnable, updateDisable, SubscriptionChanges, Spend, ScanCrashes,
      LeaseExpires, Deliver, HandlerStep, HandlerGrants, HandlerRecords, HandlerReleases,
      HandlerCrashes

(* How far a handler is tells what is committed: it works on a purchase     *)
(* that was made, grants only what its event grants, is behind the grant   *)
(* only when the credit is there.                                           *)
Committed(h) ==
  LET p == handlers[h].of
  IN  handlers[h] # IdleHandler =>
        /\ Created(p)
        /\ handlers[h].phase = "grant" => Granting(p)
        /\ handlers[h].phase = "record" => p \in credited
        /\ handlers[h].phase = "release" /\ Granting(p) => p \in credited

\* What the answered events and the credit rows speak of was made, too.
KnownToStripe ==
  /\ \A p \in acknowledged : Created(p)
  /\ \A h \in Handlers : Committed(h)

Inv == Typed /\ KnownToStripe /\ PaidIsCredited

LEMMA InvInit == Init => Inv
BY TypeInit DEF Init, Inv, KnownToStripe, Committed, PaidIsCredited

\* A handler that a step leaves alone stays where the credit says it is.
LEMMA OthersStayCommitted ==
  ASSUME Typed, Kept, credited \subseteq credited', NEW h \in Handlers, Committed(h),
         handlers'[h] = handlers[h]
  PROVE  Committed(h)'
<1>1. handlers[h] # IdleHandler => handlers[h].of \in Purchases
  BY DEF Typed, TypeOK
<1>2. QED
  BY <1>1 DEF Committed, Kept, SameOrder, Created

\* Nor does what was answered, recorded and credited change under it.
LEMMA RowsStay ==
  ASSUME Typed, Kept, KnownToStripe, PaidIsCredited,
         UNCHANGED <<credited, payments, acknowledged>>
  PROVE  PaidIsCredited' /\ \A p \in acknowledged' : Created(p)'
<1>1. acknowledged \subseteq Purchases /\ credited \subseteq Purchases
  BY DEF Typed, TypeOK
<1>2. QED
  <2>1. \A p \in Purchases : Created(p) => Created(p)' /\ (Granting(p)' <=> Granting(p))
    BY DEF Kept, SameOrder, Created
  <2>2. \A p \in credited : Created(p)
    BY DEF PaidIsCredited, Granting
  <2>3. QED
    BY <1>1, <2>1, <2>2 DEF KnownToStripe, PaidIsCredited

LEMMA InvStep == Inv /\ [Next]_vars => Inv'
<1> SUFFICES ASSUME Inv, [Next]_vars PROVE Inv'
  OBVIOUS
<1>i. Typed /\ TypeOK /\ KnownToStripe /\ PaidIsCredited
  BY DEF Inv, Typed
<1>k. Kept
  BY <1>i, PurchasesKept
<1>t. Typed'
  BY <1>i, TypeStep DEF KnownToStripe, Committed, Started
<1>o. ASSUME credited \subseteq credited', NEW h \in Handlers, handlers'[h] = handlers[h]
      PROVE  Committed(h)'
  BY <1>o, <1>i, <1>k, OthersStayCommitted DEF KnownToStripe
<1>h. DOMAIN handlers = Handlers
  BY <1>i DEF TypeOK
<1>0. CASE UNCHANGED <<handlers, credited, payments, acknowledged>>
  BY <1>0, <1>i, <1>k, <1>t, <1>o, RowsStay DEF Inv, KnownToStripe
<1>1. ASSUME NEW h \in Handlers, NEW p \in Purchases, Deliver(h, p) PROVE Inv'
  <2>1. purchases' = purchases /\ credited' = credited /\ payments' = payments
        /\ acknowledged' = acknowledged
    BY <1>1 DEF Deliver, moneyVars
  <2>2. ASSUME NEW g \in Handlers PROVE Committed(g)'
    <3>1. CASE g = h
      BY <1>1, <1>h, <2>1, <3>1 DEF Deliver, Committed, Created, Succeeded, Granting
    <3>2. CASE g # h
      BY <1>1, <1>o, <2>1, <3>2, <1>h DEF Deliver
    <3>3. QED
      BY <3>1, <3>2
  <2>3. QED
    BY <1>i, <1>k, <1>t, <2>1, <2>2, RowsStay DEF Inv, KnownToStripe
<1>2. ASSUME NEW h \in Handlers, HandlerGrants(h) PROVE Inv'
  <2>1. handlers[h] # IdleHandler /\ handlers[h].of \in Purchases
        /\ Created(handlers[h].of) /\ Granting(handlers[h].of)
    BY <1>2, <1>i, HandlerType DEF HandlerGrants, KnownToStripe, Committed, IdleHandler
  <2>2. credited' = credited \cup {handlers[h].of} /\ purchases' = purchases
        /\ payments' = payments /\ acknowledged' = acknowledged
    BY <1>2 DEF HandlerGrants
  <2>3. handlers'[h].phase = "record" /\ handlers'[h].of = handlers[h].of
    BY <1>2, <1>h, <1>i, HandlerType DEF HandlerGrants
  <2>4. ASSUME NEW g \in Handlers PROVE Committed(g)'
    <3>1. CASE g = h
      BY <2>1, <2>2, <2>3, <3>1 DEF Committed, Created, Succeeded, Granting
    <3>2. CASE g # h
      BY <1>2, <1>o, <2>2, <3>2, <1>h DEF HandlerGrants
    <3>3. QED
      BY <3>1, <3>2
  <2>5. PaidIsCredited' /\ \A p \in acknowledged' : Created(p)'
    BY <1>i, <2>1, <2>2 DEF PaidIsCredited, KnownToStripe, Created, Succeeded, Granting
  <2>6. QED
    BY <1>t, <2>4, <2>5 DEF Inv, KnownToStripe
<1>3. ASSUME NEW h \in Handlers, HandlerRecords(h) PROVE Inv'
  <2>1. handlers[h].of \in Purchases /\ Created(handlers[h].of)
        /\ handlers[h].of \in credited
    BY <1>3, <1>i, HandlerType DEF HandlerRecords, KnownToStripe, Committed, IdleHandler
  <2>2. credited' = credited /\ purchases' = purchases
        /\ payments' = payments \cup {handlers[h].of}
        /\ acknowledged' \subseteq acknowledged \cup {handlers[h].of}
    BY <1>3 DEF HandlerRecords
  <2>3. \/ handlers'[h] = IdleHandler
        \/ handlers'[h].phase = "release" /\ handlers'[h].of = handlers[h].of
    BY <1>3, <1>h, <1>i, HandlerType DEF HandlerRecords
  <2>4. ASSUME NEW g \in Handlers PROVE Committed(g)'
    <3>1. CASE g = h
      BY <2>1, <2>2, <2>3, <3>1 DEF Committed, Created, Succeeded, Granting
    <3>2. CASE g # h
      BY <1>3, <1>o, <2>2, <3>2, <1>h DEF HandlerRecords
    <3>3. QED
      BY <3>1, <3>2
  <2>5. PaidIsCredited' /\ \A p \in acknowledged' : Created(p)'
    BY <1>i, <2>1, <2>2 DEF PaidIsCredited, KnownToStripe, Created, Succeeded, Granting
  <2>6. QED
    BY <1>t, <2>4, <2>5 DEF Inv, KnownToStripe
<1>4. ASSUME NEW h \in Handlers, HandlerReleases(h) PROVE Inv'
  <2>1. handlers[h].of \in Purchases /\ Created(handlers[h].of)
        /\ (Granting(handlers[h].of) => handlers[h].of \in credited)
    BY <1>4, <1>i, HandlerType DEF HandlerReleases, KnownToStripe, Committed, IdleHandler
  <2>2. credited' = credited /\ purchases' = purchases /\ payments' = payments
        /\ acknowledged' = acknowledged \cup {handlers[h].of}
    BY <1>4 DEF HandlerReleases, moneyVars
  <2>3. ASSUME NEW g \in Handlers PROVE Committed(g)'
    <3>1. CASE g = h
      BY <1>4, <1>h, <3>1 DEF HandlerReleases, Committed
    <3>2. CASE g # h
      BY <1>4, <1>o, <2>2, <3>2, <1>h DEF HandlerReleases
    <3>3. QED
      BY <3>1, <3>2
  <2>4. PaidIsCredited' /\ \A p \in acknowledged' : Created(p)'
    BY <1>i, <2>1, <2>2 DEF PaidIsCredited, KnownToStripe, Created, Succeeded, Granting
  <2>5. QED
    BY <1>t, <2>3, <2>4 DEF Inv, KnownToStripe
<1>5. ASSUME NEW h \in Handlers, HandlerCrashes(h) PROVE Inv'
  <2>1. UNCHANGED <<purchases, credited, payments, acknowledged>>
    BY <1>5 DEF HandlerCrashes, moneyVars
  <2>2. ASSUME NEW g \in Handlers PROVE Committed(g)'
    <3>1. CASE g = h
      BY <1>5, <1>h, <3>1 DEF HandlerCrashes, Committed
    <3>2. CASE g # h
      BY <1>5, <1>o, <2>1, <3>2, <1>h DEF HandlerCrashes
    <3>3. QED
      BY <3>1, <3>2
  <2>3. QED
    BY <1>i, <1>k, <1>t, <2>1, <2>2, RowsStay DEF Inv, KnownToStripe
<1>6. ASSUME NEW s \in Scanners, ScanStep(s) \/ ScanCrashes(s) PROVE Inv'
  BY <1>0, <1>6
  DEF ScanStep, runScan, ScanEnds, claimAutoReloadLock, ScanSkips, ChargeCreates,
      ChargeFails, ChargeThrows, ScanReleases, ScanCrashes, moneyVars
<1>7. QED
  BY <1>0, <1>1, <1>2, <1>3, <1>4, <1>5, <1>6
  DEF Next, HandlerStep, vars, updateEnable, updateDisable, SubscriptionChanges, Spend,
      CheckoutCompleted, PaymentSettles, LeaseExpires, moneyVars

LEMMA InvHolds == Spec => []Inv
BY InvInit, InvStep, PTL DEF Spec

-----------------------------------------------------------------------------
(* Every state of scans, handlers, rows and Stripe is well typed, so no     *)
(* handler or scan meets a purchase or a setting it cannot read.            *)
THEOREM AutoReloadTyped == Spec => []TypeOK
<1>1. Inv => TypeOK
  BY DEF Inv, Typed
<1>2. QED
  BY <1>1, InvHolds, PTL

(* What was bought is credited before it is recorded or answered, through   *)
(* crashes, repeated and overlapping deliveries (stripe.service.ts,         *)
(* handleWebhook), and nothing is credited but a charge that succeeded or a *)
(* checkout reported complete, paid for or still to be paid.                *)
THEOREM CreditedBeforeRecorded == Spec => []PaidIsCredited
<1>1. Inv => PaidIsCredited
  BY DEF Inv
<1>2. QED
  BY <1>1, InvHolds, PTL

-----------------------------------------------------------------------------
(* A failure code on the row and auto-reload switched on exclude each       *)
(* other, however scans, webhooks and customers interleave: the next tick   *)
(* does not charge the card that failed.                                    *)
OffOnceFailed == \A w \in failure : ~settings[w].enabled

LEMMA FailureStep == Inv /\ OffOnceFailed /\ [Next]_vars => OffOnceFailed'
<1> SUFFICES ASSUME Inv, OffOnceFailed, [Next]_vars PROVE OffOnceFailed'
  OBVIOUS
<1>t. failure \subseteq Workspaces /\ DOMAIN settings = Workspaces
      /\ \A w \in Workspaces : settings[w] \in
           [enabled : BOOLEAN, threshold : Nat \cup {Null}, pack : Packs \cup {"none"}]
  BY DEF Inv, Typed, TypeOK
<1>0. CASE UNCHANGED <<settings, failure>>
  BY <1>0 DEF OffOnceFailed
<1>1. ASSUME NEW w \in Workspaces, NEW t, NEW pack, updateEnable(w, t, pack)
      PROVE  OffOnceFailed'
  BY <1>1, <1>t DEF updateEnable, OffOnceFailed
<1>2. ASSUME NEW w \in Workspaces, updateDisable(w) PROVE OffOnceFailed'
  BY <1>2, <1>t DEF updateDisable, OffOnceFailed, Off
<1>3. ASSUME NEW w \in Workspaces, ReleaseFailed(w) PROVE OffOnceFailed'
  BY <1>3, <1>t DEF ReleaseFailed, OffOnceFailed
<1>4. ASSUME NEW w, ReleaseSucceeded(w) PROVE OffOnceFailed'
  BY <1>4 DEF ReleaseSucceeded, OffOnceFailed
<1>5. ASSUME NEW s \in Scanners, ScanStep(s) PROVE OffOnceFailed'
  <2>1. CASE ScanReleases(s)
    <3>1. scans[s].ws \in Workspaces
      BY <2>1 DEF Inv, Typed, ScansOK, ScanOK, ScanReleases
    <3>2. QED
      BY <1>3, <2>1, <3>1 DEF ScanReleases
  <2>2. CASE ~ScanReleases(s)
    BY <1>0, <1>5, <2>2
    DEF ScanStep, runScan, ScanEnds, claimAutoReloadLock, ScanSkips, ChargeCreates,
        ChargeFails, ChargeThrows, settingsVars
  <2>3. QED
    BY <2>1, <2>2
<1>6. ASSUME NEW h \in Handlers, HandlerStep(h) PROVE OffOnceFailed'
  <2>1. CASE HandlerReleases(h)
    <3>1. handlers[h].of \in Purchases /\ Created(handlers[h].of)
      BY <2>1, HandlerType DEF HandlerReleases, Inv, Typed, KnownToStripe, Committed,
                               IdleHandler
    <3>2. purchases[handlers[h].of].ws \in Workspaces
      BY <3>1, PurchaseType DEF Inv, Typed, Purchase
    <3>3. QED
      BY <1>3, <1>4, <2>1, <3>2 DEF HandlerReleases
  <2>2. CASE ~HandlerReleases(h)
    BY <1>0, <1>6, <2>2 DEF HandlerStep, HandlerGrants, HandlerRecords, settingsVars
  <2>3. QED
    BY <2>1, <2>2
<1>7. QED
  BY <1>0, <1>1, <1>2, <1>5, <1>6
  DEF Next, vars, SubscriptionChanges, Spend, CheckoutCompleted, PaymentSettles, ScanCrashes,
      LeaseExpires, Deliver, HandlerCrashes, settingsVars

(* A workspace whose last charge failed stays off until somebody switches   *)
(* it on again (autoreload.service.ts, update and charge).                  *)
THEOREM FailedStaysOff == Spec => []FailedMeansOff
<1>1. Init => OffOnceFailed
  BY DEF Init, OffOnceFailed
<1>2. Inv => Typed
  BY DEF Inv
<1>3. Inv /\ OffOnceFailed => FailedMeansOff
  BY DEF Inv, Typed, OffOnceFailed, FailedMeansOff
<1>4. QED
  BY <1>1, <1>2, <1>3, InvHolds, FailureStep, PTL DEF Spec

-----------------------------------------------------------------------------
(* The refinement of TopUps: what was bought is what its event grants.      *)
LEMMA BuyOrStutter ==
  ASSUME TypeOK, NEW p \in Purchases, NEW kind \in {"auto", "checkout"},
         NEW w \in Workspaces, NEW pack \in Packs,
         NEW outcome \in {"succeeded", "pending", "declined"}, NEW seen \in Nat,
         NewPurchase(p, kind, w, pack, outcome, seen), UNCHANGED <<credited, balance>>
  PROVE  [Promise!Next]_(Promise!vars)
<1>1. ASSUME NEW q \in Purchases, q # p PROVE Orders'[q] = Orders[q]
  BY <1>1 DEF TypeOK, NewPurchase, Orders, Granting, Succeeded, Created
<1>2. Orders[p] = [bought |-> FALSE]
  BY DEF NewPurchase, Orders, Granting, Succeeded
<1>3. purchases'[p] = [kind |-> kind, ws |-> w, pack |-> pack, outcome |-> outcome,
                       seen |-> seen]
  BY DEF TypeOK, NewPurchase
<1>4. CASE kind = "checkout" \/ outcome = "succeeded"
  <2>1. Orders'[p] = [bought |-> TRUE, ws |-> w, pack |-> pack]
    <3>1. /\ purchases'[p].kind # NoPurchase.kind
          /\ purchases'[p].kind = "checkout" \/ purchases'[p].outcome = "succeeded"
          /\ purchases'[p].ws = w /\ purchases'[p].pack = pack
      BY <1>3, <1>4 DEF NoPurchase
    <3>2. purchases'[p] # NoPurchase
      BY <3>1
    <3>3. QED
      BY <3>1, <3>2 DEF Orders, Granting, Succeeded, Created
  <2>2. Orders' = [Orders EXCEPT ![p] = [bought |-> TRUE, ws |-> w, pack |-> pack]]
    BY <1>1, <2>1 DEF Orders
  <2>3. Promise!Buy(p, w, pack)
    BY <1>2, <2>2 DEF Promise!Buy, Promise!Bought, Promise!NotBought
  <2>4. QED
    BY <2>3 DEF Promise!Next
<1>5. CASE kind # "checkout" /\ outcome # "succeeded"
  <2>1. Orders'[p] = [bought |-> FALSE]
    BY <1>3, <1>5 DEF Orders, Granting, Succeeded, Created
  <2>2. Orders' = Orders
    BY <1>1, <1>2, <2>1 DEF Orders
  <2>3. QED
    BY <2>2 DEF Promise!vars
<1>6. QED
  BY <1>4, <1>5

LEMMA StepOfTopUps == Inv /\ [Next]_vars => [Promise!Next]_(Promise!vars)
<1> SUFFICES ASSUME Inv, [Next]_vars PROVE [Promise!Next]_(Promise!vars)
  OBVIOUS
<1>i. TypeOK /\ ScansOK /\ KnownToStripe
  BY DEF Inv, Typed
<1>0. CASE UNCHANGED <<purchases, credited, balance>>
  BY <1>0 DEF Promise!vars, Orders, Granting, Succeeded, Created
<1>1. ASSUME NEW w \in Workspaces, NEW p \in Purchases, NEW pack \in Packs,
             NEW outcome \in {"succeeded", "pending"},
             CheckoutCompleted(w, p, pack, outcome)
      PROVE  [Promise!Next]_(Promise!vars)
  <2>1. shortfall[w] \in Nat
    BY <1>i DEF TypeOK
  <2>2. QED
    BY <1>1, <1>i, <2>1, BuyOrStutter DEF CheckoutCompleted, moneyVars
<1>6. ASSUME NEW p \in Purchases, NEW outcome \in {"succeeded", "declined"},
             PaymentSettles(p, outcome)
      PROVE  [Promise!Next]_(Promise!vars)
  <2>1. Kept
    BY <1>6, <1>i, PurchasesKept
  <2>2. ASSUME NEW q \in Purchases PROVE Orders'[q] = Orders[q]
    <3>1. CASE Created(q)
      BY <2>1, <3>1 DEF Kept, SameOrder, Orders
    <3>2. CASE ~Created(q)
      BY <1>6, <3>2, <1>i DEF PaymentSettles, TypeOK, Created, Orders, Granting, Succeeded,
                              NoPurchase
    <3>3. QED
      BY <3>1, <3>2
  <2>3. Orders' = Orders
    BY <2>2 DEF Orders
  <2>4. QED
    BY <1>6, <2>3 DEF PaymentSettles, moneyVars, Promise!vars
<1>2. ASSUME NEW w \in Workspaces, NEW c \in Spends, Spend(w, c)
      PROVE  [Promise!Next]_(Promise!vars)
  <2>1. Promise!Draw(w, c)
    BY <1>2 DEF Spend, Promise!Draw, Orders, Granting, Succeeded, Created
  <2>2. QED
    BY <2>1 DEF Promise!Next
<1>3. ASSUME NEW s \in Scanners, ScanStep(s) PROVE [Promise!Next]_(Promise!vars)
  <2>1. ASSUME NEW p \in Purchases, NEW outcome \in {"succeeded", "declined"},
               ChargeCreates(s, p, outcome) \/ ChargeThrows(s, p, outcome)
        PROVE  [Promise!Next]_(Promise!vars)
    <3>1. scans[s].candidate \in Candidate
      BY <1>i, <2>1 DEF ScansOK, ScanOK, ChargeCreates, ChargeThrows
    <3>2. QED
      BY <1>i, <2>1, <3>1, BuyOrStutter DEF Candidate, ChargeCreates, ChargeThrows, moneyVars
  <2>2. CASE UNCHANGED <<purchases, credited, balance>>
    BY <1>0, <2>2
  <2>3. CASE \E p \in Purchases, outcome \in {"succeeded", "declined"} :
               ChargeCreates(s, p, outcome) \/ ChargeThrows(s, p, outcome)
    BY <2>1, <2>3
  <2>4. QED
    BY <1>3, <2>2, <2>3
    DEF ScanStep, runScan, ScanEnds, claimAutoReloadLock, ScanSkips, ChargeFails,
        ScanReleases, moneyVars
<1>4. ASSUME NEW h \in Handlers, HandlerGrants(h) PROVE [Promise!Next]_(Promise!vars)
  <2>1. CASE handlers[h].of \in credited
    BY <1>0, <1>4, <2>1 DEF HandlerGrants
  <2>2. CASE handlers[h].of \notin credited
    <3> DEFINE p == handlers[h].of
    <3>1. p \in Purchases /\ Granting(p)
      BY <1>4, <1>i, HandlerType DEF HandlerGrants, KnownToStripe, Committed, IdleHandler
    <3>2. Orders[p] = [bought |-> TRUE, ws |-> purchases[p].ws, pack |-> purchases[p].pack]
      BY <3>1 DEF Orders
    <3>3. Orders' = Orders
      BY <1>4 DEF HandlerGrants, Orders, Granting, Succeeded, Created
    <3>4. /\ credited' = credited \cup {p}
          /\ balance' = [balance EXCEPT ![purchases[p].ws] = @ + CreditsOf(p)]
      BY <1>4, <2>2 DEF HandlerGrants
    <3>5. Promise!Credit(p)
      <4>1. Orders[p] # [bought |-> FALSE]
        BY <3>2
      <4>2. QED
        BY <2>2, <3>2, <3>3, <3>4, <4>1
        DEF Promise!Credit, Promise!Bought, Promise!NotBought, CreditsOf, TOPUP_PACKS,
            Promise!TOPUP_PACKS
    <3>6. QED
      BY <3>1, <3>5 DEF Promise!Next
  <2>3. QED
    BY <2>1, <2>2
<1>5. QED
  BY <1>0, <1>1, <1>2, <1>3, <1>4, <1>6
  DEF Next, vars, updateEnable, updateDisable, SubscriptionChanges, ScanCrashes,
      LeaseExpires, Deliver, HandlerStep, HandlerRecords, HandlerReleases, HandlerCrashes,
      moneyVars

(* AutoReload implements TopUps: scans, leases, webhooks in any order and   *)
(* number, and crashes between their three commits amount to purchases      *)
(* that are bought once and credited once, in full, to who bought them.       *)
THEOREM ImplementsTopUps == Spec => CreditedExactlyOnce
<1>1. Init => Promise!Init
  BY DEF Init, Promise!Init, Promise!NotBought, Orders, Granting, Succeeded, Created
<1>2. QED
  BY <1>1, InvHolds, StepOfTopUps, PTL DEF Spec, CreditedExactlyOnce, Promise!Safety
=============================================================================
