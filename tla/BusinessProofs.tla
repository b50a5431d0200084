---------------------------- MODULE BusinessProofs ---------------------------
(***************************************************************************)
(* Machine-checked theorems about what happens around the runs and the     *)
(* ledger: the mirror of Stripe, the refill schedule, triggers, outgoing   *)
(* webhooks, the versions of an agent, the prices of the plans and promo   *)
(* codes; for every number of workspaces, requests, scans, deliveries and  *)
(* writers, and every bound.  Each part has an invariant of its own, and   *)
(* the end of the module puts them together.                               *)
(***************************************************************************)
EXTENDS MCBusiness, FiniteSetTheorems, SequenceTheorems, TLAPS

(* A step of a behaviour is a step of one part, and no other part moves.   *)
LEMMA PartsMove ==
  [MCNext]_mcVars =>
    /\ [ProNext]_proVars
    /\ S!StrNext \/ UNCHANGED strVars
    /\ F!RefNext \/ UNCHANGED refVars
    /\ T!TrgNext \/ UNCHANGED trgVars
    /\ W!WhkNext \/ UNCHANGED whkVars
    /\ V!VerNext \/ UNCHANGED verVars
    /\ P!Next \/ UNCHANGED plaVars
  BY DEF MCNext, mcVars, Promo, Stripe, Refill, Trigger, Webhook, Version, Price

--------------------------------------------------------------------------------
(* What a handler is at work on.                                           *)
Delivery == [event : Nat, step : {"mirror", "refill"}]

(* The newest event of an object says what the object at Stripe is.        *)
Newest(i, object) ==
  /\ i \in DOMAIN events /\ events[i].object = object
  /\ \A j \in DOMAIN events : events[j].object = object => j <= i
StripeIsNewest ==
  /\ stripe.plan # "none" =>
       \E i \in DOMAIN events :
         /\ Newest(i, "subscription")
         /\ events[i].plan = stripe.plan /\ events[i].status = stripe.status
  /\ stripe.plan = "none" => \A i \in DOMAIN events : events[i].object # "subscription"
  /\ invoice # "open" =>
       \E i \in DOMAIN events : Newest(i, "invoice") /\ events[i].status = invoice

(* An event that was answered was written, or a newer one of its object;   *)
(* or it is of an invoice and was dropped.                                 *)
AnsweredAreWritten ==
  /\ unanswered \subseteq DOMAIN events
  /\ \A i \in DOMAIN events :
       i \in unanswered \/ i <= latest[events[i].object] \/ i \in dropped
  /\ \A i \in dropped : i \in DOMAIN events /\ events[i].object = "invoice"
  /\ \A o \in {"subscription", "invoice"} :
       latest[o] # 0 => latest[o] \in DOMAIN events /\ events[latest[o]].object = o

(* A handler that is about to refill wrote its event.                      *)
HandlersWrote ==
  \A h \in Handlers : handling[h] # None =>
    /\ handling[h].event \in DOMAIN events
    /\ handling[h].step = "refill" =>
         /\ events[handling[h].event].object = "subscription"
         /\ handling[h].event <= latest["subscription"]

(* In order, the rows say what the newest event that was written says; and *)
(* the month's credits are given, or that event is still owed.             *)
Pays(i) ==
  events[i].object = "subscription" /\ events[i].status = "active"
    /\ events[i].plan \in PaidPlans
RowsAreNewest ==
  ~reordered =>
    /\ latest["subscription"] # 0 =>
         /\ subscription.status = events[latest["subscription"]].status
         /\ events[latest["subscription"]].plan \in PaidPlans
              => subscription.plan = events[latest["subscription"]].plan
    /\ latest["invoice"] # 0 => payment = events[latest["invoice"]].status
    /\ \A i \in DOMAIN events :
         Pays(i) /\ i \notin unanswered => refilled \/ i < latest["subscription"]

(* Without overlapping checkouts there is one customer, or one to come: it *)
(* is on the row, it pays, and no invoice of its is dropped.               *)
OneCustomer ==
  /\ customers + visit <= MaxVisits
  /\ events # << >> => payer > 0
  /\ customers > 0 => customerId > 0
  /\ ~crossed => customers + visit <= 1 /\ dropped = {}

StrInv ==
  /\ S!StrTypeOK /\ events \in Seq(S!Event) /\ Len(events) <= MaxEvents
  /\ handling \in [Handlers -> Delivery \cup {None}]
  /\ latest \in [{"subscription", "invoice"} -> Nat]
  /\ {refilled, reordered, crossed} \subseteq BOOLEAN
  /\ StripeIsNewest /\ AnsweredAreWritten /\ HandlersWrote /\ RowsAreNewest /\ OneCustomer

(* At the start nothing was bought.                                        *)
LEMMA StrInvInit == MCInit => StrInv
<1> SUFFICES ASSUME MCInit PROVE StrInv
  OBVIOUS
<1> USE DEF MCInit, S!StrInit
<1>1. events = <<>> /\ events \in Seq(S!Event) /\ Len(events) = 0 /\ DOMAIN events = {}
  OBVIOUS
<1>2. S!StrTypeOK /\ Len(events) <= MaxEvents
  BY <1>1, BoundsAssumption DEF S!StrTypeOK, S!SubscriptionRow, S!Statuses, S!PaymentRow
<1>3. /\ handling \in [Handlers -> Delivery \cup {None}]
      /\ latest \in [{"subscription", "invoice"} -> Nat]
      /\ {refilled, reordered, crossed} \subseteq BOOLEAN
  OBVIOUS
<1>4. StripeIsNewest /\ HandlersWrote /\ RowsAreNewest
  BY <1>1 DEF StripeIsNewest, HandlersWrote, RowsAreNewest
<1>5. AnsweredAreWritten /\ OneCustomer
  BY <1>1, BoundsAssumption DEF AnsweredAreWritten, OneCustomer
<1> QED
  BY <1>1, <1>2, <1>3, <1>4, <1>5 DEF StrInv

(* The invariant says which events there are.                              *)
LEMMA StrFacts ==
  StrInv => /\ DOMAIN events = 1 .. Len(events) /\ Len(events) \in 0 .. MaxEvents
            /\ unanswered \subseteq 1 .. Len(events)
            /\ latest["subscription"] \in 0 .. Len(events)
            /\ latest["invoice"] \in 0 .. Len(events)
            /\ \A i \in DOMAIN events :
                 /\ events[i] \in S!Event
                 /\ events[i].object \in {"subscription", "invoice"}
<1> SUFFICES ASSUME StrInv
             PROVE  /\ DOMAIN events = 1 .. Len(events) /\ Len(events) \in 0 .. MaxEvents
                    /\ unanswered \subseteq 1 .. Len(events)
                    /\ latest["subscription"] \in 0 .. Len(events)
                    /\ latest["invoice"] \in 0 .. Len(events)
                    /\ \A i \in DOMAIN events :
                         /\ events[i] \in S!Event
                         /\ events[i].object \in {"subscription", "invoice"}
  OBVIOUS
<1>1. /\ events \in Seq(S!Event) /\ Len(events) <= MaxEvents /\ MaxEvents \in Nat
      /\ latest \in [{"subscription", "invoice"} -> Nat]
  BY BoundsAssumption DEF StrInv
<1>2. DOMAIN events = 1 .. Len(events) /\ Len(events) \in 0 .. MaxEvents
  BY <1>1
<1>3. \A i \in DOMAIN events : events[i] \in S!Event
  BY <1>1
<1>4. \A e \in S!Event : e.object \in {"subscription", "invoice"}
  BY DEF S!Event
<1>5. /\ unanswered \subseteq DOMAIN events
      /\ \A o \in {"subscription", "invoice"} :
           latest[o] # 0 => latest[o] \in DOMAIN events
  BY DEF StrInv, AnsweredAreWritten
<1>6. latest["subscription"] \in 0 .. Len(events) /\ latest["invoice"] \in 0 .. Len(events)
  BY <1>1, <1>2, <1>5
<1> QED
  BY <1>2, <1>3, <1>4, <1>5, <1>6

(* Who pays is a customer there is.                                        *)
LEMMA Billed ==
  ASSUME StrInv, S!BillsCustomer, customers' = customers
  PROVE  payer' \in 0 .. customers'
  BY DEF StrInv, S!StrTypeOK, S!BillsCustomer

(* Stripe makes an event and the server knows nothing of it yet.           *)
LEMMA EventMadeBy ==
  ASSUME StrInv, NEW e \in S!Event, S!MakeEvent(e),
         S!BillsCustomer,
         UNCHANGED <<handling, subscription, refilled, payment, customerId, customers,
                     visit, latest, reordered, dropped, crossed>>,
         S!StrTypeOK', StripeIsNewest'
  PROVE  StrInv'
<1>1. /\ Len(events) < MaxEvents /\ events' = Append(events, e)
      /\ unanswered' = unanswered \cup {Len(events) + 1}
  BY DEF S!MakeEvent
<1>2. /\ events \in Seq(S!Event) /\ DOMAIN events = 1 .. Len(events) /\ Len(events) \in Nat
      /\ MaxEvents \in Nat
  BY StrFacts, BoundsAssumption DEF StrInv
<1>3. /\ events' \in Seq(S!Event) /\ Len(events') = Len(events) + 1
      /\ DOMAIN events' = 1 .. Len(events) + 1
      /\ \A i \in DOMAIN events : i \in DOMAIN events' /\ events'[i] = events[i]
  BY <1>1, <1>2, AppendProperties
<1>4. Len(events') <= MaxEvents
  BY <1>1, <1>2, <1>3
<1>5. AnsweredAreWritten'
  <2>1. unanswered' \subseteq DOMAIN events'
    BY <1>1, <1>2, <1>3, StrFacts
  <2>2. ASSUME NEW i \in DOMAIN events'
        PROVE  i \in unanswered' \/ i <= latest'[events'[i].object] \/ i \in dropped'
    <3>1. CASE i = Len(events) + 1
      BY <1>1, <3>1
    <3>2. CASE i # Len(events) + 1
      <4>1. i \in DOMAIN events /\ events'[i] = events[i] /\ dropped' = dropped
        BY <1>2, <1>3, <3>2
      <4> QED
        BY <1>1, <4>1 DEF StrInv, AnsweredAreWritten
    <3> QED
      BY <3>1, <3>2
  <2>3. ASSUME NEW o \in {"subscription", "invoice"}, latest'[o] # 0
        PROVE  latest'[o] \in DOMAIN events' /\ events'[latest'[o]].object = o
    BY <1>3, <2>3 DEF StrInv, AnsweredAreWritten
  <2>4. \A i \in dropped' : i \in DOMAIN events' /\ events'[i].object = "invoice"
    BY <1>3 DEF StrInv, AnsweredAreWritten
  <2> QED
    BY <2>1, <2>2, <2>3, <2>4 DEF AnsweredAreWritten
<1>6. HandlersWrote'
  BY <1>3 DEF StrInv, HandlersWrote
<1>7. RowsAreNewest'
  <2> SUFFICES ASSUME ~reordered
               PROVE  /\ latest["subscription"] # 0 =>
                           /\ subscription.status = events'[latest["subscription"]].status
                           /\ events'[latest["subscription"]].plan \in PaidPlans
                                => subscription.plan = events'[latest["subscription"]].plan
                      /\ latest["invoice"] # 0
                           => payment = events'[latest["invoice"]].status
                      /\ \A i \in DOMAIN events' : Pays(i)' /\ i \notin unanswered'
                           => refilled \/ i < latest["subscription"]
    BY DEF RowsAreNewest
  <2>1. \A o \in {"subscription", "invoice"} :
          latest[o] # 0 => events'[latest[o]] = events[latest[o]]
    BY <1>3 DEF StrInv, AnsweredAreWritten
  <2>2. ASSUME NEW i \in DOMAIN events', Pays(i)', i \notin unanswered'
        PROVE  refilled \/ i < latest["subscription"]
    <3>1. i \in DOMAIN events /\ i \notin unanswered /\ events'[i] = events[i]
      BY <1>1, <1>2, <1>3, <2>2
    <3>2. Pays(i)
      BY <2>2, <3>1 DEF Pays
    <3> QED
      BY <3>1, <3>2 DEF StrInv, RowsAreNewest
  <2> QED
    BY <2>1, <2>2 DEF StrInv, RowsAreNewest
<1>8. OneCustomer'
  BY DEF StrInv, OneCustomer, S!BillsCustomer
<1> QED
  BY <1>3, <1>4, <1>5, <1>6, <1>7, <1>8 DEF StrInv

(* Stripe changes the subscription or charges the invoice.                 *)
LEMMA StrStripe ==
  ASSUME StrInv,
         \/ \E p \in PaidPlans \cup {"unknown"}, s \in S!Statuses : S!ChangeSubscription(p, s)
         \/ \E s \in {"paid", "failed"} : S!ChargeInvoice(s)
  PROVE  StrInv'
<1>4. events \in Seq(S!Event) /\ MaxEvents \in Nat
  BY BoundsAssumption DEF StrInv
<1>5. Len(events) \in Nat /\ unanswered \subseteq 1 .. Len(events)
  BY StrFacts, <1>4
<1>0. /\ events \in Seq(S!Event) /\ DOMAIN events = 1 .. Len(events) /\ Len(events) \in Nat
      /\ MaxEvents \in Nat /\ unanswered \subseteq 1 .. Len(events)
  BY <1>4, <1>5
<1> PICK n : n = Len(events) + 1
  OBVIOUS
<1>1. ASSUME NEW e \in S!Event, S!MakeEvent(e)
      PROVE  /\ DOMAIN events' = 1 .. n /\ events'[n] = e
             /\ \A i \in DOMAIN events : i \in DOMAIN events' /\ events'[i] = events[i]
             /\ \A i \in DOMAIN events' : events'[i] \in S!Event
             /\ unanswered' \subseteq 1 .. MaxEvents
  <2>1. Len(events) < MaxEvents /\ events' = Append(events, e)
        /\ unanswered' = unanswered \cup {Len(events) + 1}
    BY <1>1 DEF S!MakeEvent
  <2>2. events' \in Seq(S!Event) /\ DOMAIN events' = 1 .. Len(events) + 1
        /\ events'[Len(events) + 1] = e
        /\ \A i \in DOMAIN events : i \in DOMAIN events' /\ events'[i] = events[i]
    BY <1>0, <2>1, AppendProperties
  <2>3. n \in 1 .. MaxEvents /\ \A i \in unanswered : i \in 1 .. MaxEvents
    BY <1>0, <2>1
  <2>4. unanswered' \subseteq 1 .. MaxEvents
    BY <2>1, <2>3
  <2>5. \A i \in DOMAIN events' : events'[i] \in S!Event
    BY <2>2
  <2> QED
    BY <2>2, <2>4, <2>5
<1>2. ASSUME NEW p \in PaidPlans \cup {"unknown"}, NEW s \in S!Statuses,
             S!ChangeSubscription(p, s)
      PROVE  StrInv'
  <2> DEFINE e == [object |-> "subscription", plan |-> p, status |-> s]
  <2>1. /\ stripe' = [plan |-> p, status |-> s] /\ S!MakeEvent(e) /\ S!BillsCustomer
        /\ UNCHANGED <<invoice, handling, subscription, refilled, payment, customerId,
                       customers, visit, latest, reordered, dropped, crossed>>
    BY <1>2 DEF S!ChangeSubscription, S!serverVars
  <2>2. /\ e \in S!Event /\ e.object = "subscription" /\ e.plan = p /\ e.status = s
        /\ p # "none"
    BY PlansAssumption DEF S!Event
  <2> HIDE DEF e
  <2>3. /\ DOMAIN events' = 1 .. n /\ events'[n] = e
        /\ \A i \in DOMAIN events : i \in DOMAIN events' /\ events'[i] = events[i]
        /\ \A i \in DOMAIN events' : events'[i] \in S!Event
        /\ unanswered' \subseteq 1 .. MaxEvents
    BY <1>1, <2>1, <2>2
  <2>4. S!StrTypeOK'
    BY <2>1, <2>3, Billed DEF StrInv, S!StrTypeOK
  <2>5. Newest(n, "subscription")'
    BY <1>0, <2>2, <2>3 DEF Newest
  <2>6. /\ stripe'.plan = p /\ stripe'.status = s
        /\ n \in DOMAIN events' /\ events'[n].plan = p
        /\ events'[n].status = s
    BY <1>0, <2>1, <2>2, <2>3
  <2>7. ASSUME NEW i \in DOMAIN events, Newest(i, "invoice")
        PROVE  Newest(i, "invoice")'
    BY <1>0, <2>2, <2>3, <2>7 DEF Newest
  <2>8. invoice' # "open" =>
          \E i \in DOMAIN events' : Newest(i, "invoice")' /\ events'[i].status = invoice'
    BY <2>1, <2>3, <2>7 DEF StrInv, StripeIsNewest
  <2>9. StripeIsNewest'
    BY <2>2, <2>5, <2>6, <2>8 DEF StripeIsNewest
  <2> QED
    BY <2>1, <2>2, <2>4, <2>9, EventMadeBy
<1>3. ASSUME NEW s \in {"paid", "failed"}, S!ChargeInvoice(s)
      PROVE  StrInv'
  <2> DEFINE e == [object |-> "invoice", status |-> s]
  <2>1. /\ invoice' = s /\ S!MakeEvent(e) /\ S!BillsCustomer
        /\ UNCHANGED <<stripe, handling, subscription, refilled, payment, customerId,
                       customers, visit, latest, reordered, dropped, crossed>>
    BY <1>3 DEF S!ChargeInvoice, S!serverVars
  <2>2. e \in S!Event /\ e.object = "invoice" /\ e.status = s
    BY DEF S!Event
  <2> HIDE DEF e
  <2>3. /\ DOMAIN events' = 1 .. n /\ events'[n] = e
        /\ \A i \in DOMAIN events : i \in DOMAIN events' /\ events'[i] = events[i]
        /\ \A i \in DOMAIN events' : events'[i] \in S!Event
        /\ unanswered' \subseteq 1 .. MaxEvents
    BY <1>1, <2>1, <2>2
  <2>4. S!StrTypeOK'
    BY <2>1, <2>3, Billed DEF StrInv, S!StrTypeOK
  <2>5. Newest(n, "invoice")' /\ n \in DOMAIN events'
        /\ events'[n].status = s
    BY <1>0, <2>2, <2>3 DEF Newest
  <2>6. ASSUME NEW i \in DOMAIN events, Newest(i, "subscription")
        PROVE  Newest(i, "subscription")'
    BY <1>0, <2>2, <2>3, <2>6 DEF Newest
  <2>7. stripe'.plan # "none" =>
          \E i \in DOMAIN events' :
            /\ Newest(i, "subscription")'
            /\ events'[i].plan = stripe'.plan /\ events'[i].status = stripe'.status
    BY <2>1, <2>3, <2>6 DEF StrInv, StripeIsNewest
  <2>8. stripe'.plan = "none" => \A i \in DOMAIN events' : events'[i].object # "subscription"
    BY <1>0, <2>1, <2>2, <2>3 DEF StrInv, StripeIsNewest
  <2>9. StripeIsNewest'
    BY <2>1, <2>5, <2>7, <2>8 DEF StripeIsNewest
  <2> QED
    BY <2>1, <2>2, <2>4, <2>9, EventMadeBy
<1> QED
  BY <1>2, <1>3

(* Nothing changes but who handles what.                                   *)
LEMMA HandedBy ==
  ASSUME StrInv, handling' \in [Handlers -> Delivery \cup {None}], HandlersWrote',
         UNCHANGED <<stripe, invoice, events, unanswered, subscription, refilled, payment,
                     customerId, customers, visit, payer, latest, reordered, dropped,
                     crossed>>
  PROVE  StrInv'
<1>1. /\ S!StrTypeOK' /\ StripeIsNewest' /\ AnsweredAreWritten' /\ OneCustomer'
      /\ events' \in Seq(S!Event) /\ Len(events') <= MaxEvents
      /\ latest' \in [{"subscription", "invoice"} -> Nat]
      /\ {refilled, reordered, crossed}' \subseteq BOOLEAN
  BY DEF StrInv, S!StrTypeOK, StripeIsNewest, Newest, AnsweredAreWritten, OneCustomer
<1>2. RowsAreNewest'
  BY DEF StrInv, RowsAreNewest, Pays
<1> QED
  BY <1>1, <1>2 DEF StrInv

(* A delivery begins, or is dropped by the handler that had it.            *)
LEMMA StrHandling ==
  ASSUME StrInv, NEW h \in Handlers,
         S!HandlerFails(h) \/ \E i \in 1 .. MaxEvents : S!Deliver(h, i)
  PROVE  StrInv'
<1>1. CASE S!HandlerFails(h)
  <2>1. handling' = [handling EXCEPT ![h] = None]
    BY <1>1 DEF S!HandlerFails
  <2>2. handling' \in [Handlers -> Delivery \cup {None}]
    BY <2>1 DEF StrInv
  <2>3. HandlersWrote'
    BY <1>1, <2>1 DEF StrInv, HandlersWrote, S!HandlerFails
  <2> QED
    BY <1>1, <2>2, <2>3, HandedBy DEF S!HandlerFails, S!serverVars
<1>2. ASSUME NEW i \in 1 .. MaxEvents, S!Deliver(h, i)
      PROVE  StrInv'
  <2> DEFINE new == [event |-> i, step |-> "mirror"]
  <2>1. i \in DOMAIN events /\ handling' = [handling EXCEPT ![h] = new]
    BY <1>2 DEF S!Deliver
  <2>2. new \in Delivery /\ new.event = i /\ new.step = "mirror"
    BY BoundsAssumption DEF Delivery
  <2> HIDE DEF new
  <2>3. handling' \in [Handlers -> Delivery \cup {None}]
    BY <2>1, <2>2 DEF StrInv
  <2>4. HandlersWrote'
    BY <1>2, <2>1, <2>2 DEF StrInv, HandlersWrote, S!Deliver
  <2> QED
    BY <1>2, <2>3, <2>4, HandedBy DEF S!Deliver, S!serverVars
<1> QED
  BY <1>1, <1>2

(* The newest event written goes up to the one that is written now; in     *)
(* order, it is that one.                                                  *)
LEMMA Noted ==
  ASSUME StrInv, NEW h \in Handlers, NEW o \in {"subscription", "invoice"},
         S!At(h, "mirror", o), S!NoteOrder(h)
  PROVE  \E i \in DOMAIN events :
           /\ i = handling[h].event /\ events[i].object = o
           /\ latest' \in [{"subscription", "invoice"} -> Nat]
           /\ latest'[o] \in DOMAIN events /\ events[latest'[o]].object = o
           /\ i <= latest'[o] /\ latest[o] <= latest'[o]
           /\ \A q \in {"subscription", "invoice"} : q # o => latest'[q] = latest[q]
           /\ reordered' \in BOOLEAN
           /\ ~reordered' => ~reordered /\ latest'[o] = i
<1>1. PICK i : i = handling[h].event
  OBVIOUS
<1>2. /\ handling[h] # None /\ i \in DOMAIN events /\ events[i].object = o
  BY <1>1 DEF S!At, S!Handled, StrInv, HandlersWrote
<1>3. /\ latest' = [latest EXCEPT ![o] = IF i > latest[o] THEN i ELSE latest[o]]
      /\ reordered' = (reordered \/ i < latest[o])
  BY <1>1, <1>2 DEF S!NoteOrder, S!Handled
<1>4. /\ latest \in [{"subscription", "invoice"} -> Nat] /\ i \in Nat \ {0}
      /\ latest[o] # 0 => latest[o] \in DOMAIN events /\ events[latest[o]].object = o
      /\ reordered \in BOOLEAN
  BY <1>2, StrFacts DEF StrInv, AnsweredAreWritten
<1>5. /\ latest'[o] = IF i > latest[o] THEN i ELSE latest[o]
      /\ \A q \in {"subscription", "invoice"} : q # o => latest'[q] = latest[q]
      /\ latest' \in [{"subscription", "invoice"} -> Nat]
  BY <1>3, <1>4
<1>6. /\ latest'[o] \in DOMAIN events /\ events[latest'[o]].object = o
      /\ i <= latest'[o] /\ latest[o] <= latest'[o]
      /\ i >= latest[o] => latest'[o] = i
  <2>1. latest[o] \in Nat
    BY <1>4
  <2>2. CASE i > latest[o]
    BY <1>2, <1>4, <1>5, <2>1, <2>2
  <2>3. CASE ~(i > latest[o])
    BY <1>2, <1>4, <1>5, <2>1, <2>3
  <2> QED
    BY <2>2, <2>3
<1>7. reordered' \in BOOLEAN
  BY <1>3, <1>4
<1>8. ~reordered' => ~reordered /\ latest'[o] = i
  <2>1. latest[o] \in Nat
    BY <1>4
  <2>2. ~(i < latest[o]) => latest'[o] = i
    BY <1>4, <1>6, <2>1
  <2>3. ~reordered' => ~reordered /\ ~(i < latest[o])
    BY <1>3
  <2> QED
    BY <2>2, <2>3
<1> QED
  BY <1>1, <1>2, <1>5, <1>6, <1>7, <1>8

(* A handler writes the row of its event's object, and answers the event   *)
(* or goes on to the refill.                                               *)
LEMMA WrittenBy ==
  ASSUME StrInv, NEW h \in Handlers, NEW o \in {"subscription", "invoice"}, NEW i \in DOMAIN events,
         i = handling[h].event, events[i].object = o,
         latest' \in [{"subscription", "invoice"} -> Nat],
         latest'[o] \in DOMAIN events, events[latest'[o]].object = o,
         i <= latest'[o], latest[o] <= latest'[o],
         \A q \in {"subscription", "invoice"} : q # o => latest'[q] = latest[q],
         reordered' \in BOOLEAN, ~reordered' => ~reordered /\ latest'[o] = i,
         handling' \in [Handlers -> Delivery \cup {None}],
         \A g \in Handlers \ {h} : handling'[g] = handling[g],
         \/ handling'[h] = None /\ unanswered' = unanswered \ {i} /\ ~Pays(i)
         \/ /\ handling'[h] # None /\ handling'[h].event = i /\ unanswered' = unanswered
            /\ o = "subscription",
         ~reordered' =>
           /\ o = "subscription" => /\ subscription'.status = events[i].status
                                    /\ events[i].plan \in PaidPlans
                                         => subscription'.plan = events[i].plan
           /\ o = "invoice" => subscription' = subscription
           /\ o = "invoice" => payment' = events[i].status
           /\ o = "subscription" => payment' = payment,
         subscription' \in S!SubscriptionRow, payment' \in S!PaymentRow,
         customerId' \in 0 .. customers, customerId' > 0 \/ customerId' = customerId,
         UNCHANGED <<stripe, invoice, events, refilled, customers, visit, payer, dropped,
                     crossed>>
  PROVE  StrInv'
<1>1. S!StrTypeOK'
  BY DEF StrInv, S!StrTypeOK
<1>2. StripeIsNewest' /\ OneCustomer'
  BY DEF StrInv, StripeIsNewest, Newest, OneCustomer
<1>0. /\ latest \in [{"subscription", "invoice"} -> Nat] /\ i \in Nat \ {0}
      /\ DOMAIN events = 1 .. Len(events)
      /\ \A q \in {"subscription", "invoice"} : latest[q] <= latest'[q]
      /\ \A j \in DOMAIN events : j \in Nat /\ events[j].object \in {"subscription", "invoice"}
  BY StrFacts DEF StrInv
<1>3. AnsweredAreWritten'
  <2>1. unanswered' \subseteq DOMAIN events
    BY DEF StrInv, AnsweredAreWritten
  <2>2. ASSUME NEW j \in DOMAIN events, j \notin unanswered'
        PROVE  j <= latest'[events[j].object] \/ j \in dropped
    <3>1. CASE j = i
      BY <3>1
    <3>2. CASE j # i
      <4>1. j <= latest[events[j].object] \/ j \in dropped
        BY <2>2, <3>2 DEF StrInv, AnsweredAreWritten
      <4> QED
        BY <1>0, <4>1
    <3> QED
      BY <3>1, <3>2
  <2>3. ASSUME NEW q \in {"subscription", "invoice"}, latest'[q] # 0
        PROVE  latest'[q] \in DOMAIN events /\ events[latest'[q]].object = q
    <3>1. CASE q = o
      BY <3>1
    <3>2. CASE q # o
      BY <2>3, <3>2 DEF StrInv, AnsweredAreWritten
    <3> QED
      BY <3>1, <3>2
  <2>4. \A j \in dropped : j \in DOMAIN events /\ events[j].object = "invoice"
    BY DEF StrInv, AnsweredAreWritten
  <2> QED
    BY <2>1, <2>2, <2>3, <2>4 DEF AnsweredAreWritten
<1>4. HandlersWrote'
  <2> SUFFICES ASSUME NEW g \in Handlers, handling'[g] # None
               PROVE  /\ handling'[g].event \in DOMAIN events
                      /\ handling'[g].step = "refill" =>
                           /\ events[handling'[g].event].object = "subscription"
                           /\ handling'[g].event <= latest'["subscription"]
    BY DEF HandlersWrote
  <2>1. CASE g = h
    BY <2>1
  <2>2. CASE g # h
    <3>1. handling[g] # None /\ handling'[g] = handling[g]
      BY <2>2
    <3>2. /\ handling[g].event \in DOMAIN events
          /\ handling[g].step = "refill" =>
               /\ events[handling[g].event].object = "subscription"
               /\ handling[g].event <= latest["subscription"]
      BY <3>1 DEF StrInv, HandlersWrote
    <3> QED
      BY <1>0, <3>1, <3>2
  <2> QED
    BY <2>1, <2>2
<1>5. RowsAreNewest'
  <2> SUFFICES ASSUME ~reordered'
               PROVE  /\ latest'["subscription"] # 0 =>
                           /\ subscription'.status = events[latest'["subscription"]].status
                           /\ events[latest'["subscription"]].plan \in PaidPlans
                                => subscription'.plan = events[latest'["subscription"]].plan
                      /\ latest'["invoice"] # 0
                           => payment' = events[latest'["invoice"]].status
                      /\ \A j \in DOMAIN events : Pays(j) /\ j \notin unanswered'
                           => refilled \/ j < latest'["subscription"]
    BY DEF RowsAreNewest, Pays
  <2>1. ~reordered /\ latest'[o] = i
    OBVIOUS
  <2>2. /\ latest'["subscription"] # 0 =>
             /\ subscription'.status = events[latest'["subscription"]].status
             /\ events[latest'["subscription"]].plan \in PaidPlans
                  => subscription'.plan = events[latest'["subscription"]].plan
        /\ latest'["invoice"] # 0 => payment' = events[latest'["invoice"]].status
    <3>1. CASE o = "subscription"
      BY <2>1, <3>1 DEF StrInv, RowsAreNewest
    <3>2. CASE o = "invoice"
      BY <2>1, <3>2 DEF StrInv, RowsAreNewest
    <3> QED
      BY <3>1, <3>2
  <2>3. ASSUME NEW j \in DOMAIN events, Pays(j), j \notin unanswered'
        PROVE  refilled \/ j < latest'["subscription"]
    <3>1. j \notin unanswered
      BY <2>3
    <3>2. refilled \/ j < latest["subscription"]
      BY <2>1, <2>3, <3>1 DEF StrInv, RowsAreNewest
    <3> QED
      BY <1>0, <3>2
  <2> QED
    BY <2>2, <2>3
<1> QED
  BY <1>1, <1>2, <1>3, <1>4, <1>5 DEF StrInv

(* The subscription is mirrored, and a plan that pays goes on to a refill. *)
LEMMA StrMirrors ==
  ASSUME StrInv, NEW h \in Handlers, S!MirrorSubscription(h)
  PROVE  StrInv'
<1>1. PICK i \in DOMAIN events :
        /\ i = handling[h].event /\ events[i].object = "subscription"
        /\ latest' \in [{"subscription", "invoice"} -> Nat]
        /\ latest'["subscription"] \in DOMAIN events
        /\ events[latest'["subscription"]].object = "subscription"
        /\ i <= latest'["subscription"] /\ latest["subscription"] <= latest'["subscription"]
        /\ \A q \in {"subscription", "invoice"} : q # "subscription" => latest'[q] = latest[q]
        /\ reordered' \in BOOLEAN
        /\ ~reordered' => ~reordered /\ latest'["subscription"] = i
  BY Noted DEF S!MirrorSubscription
<1>2. /\ handling[h] # None /\ S!Handled(h) = events[i]
      /\ subscription' = S!Mirrored(subscription, events[i]) /\ customerId' = payer
      /\ UNCHANGED <<stripe, invoice, events, refilled, payment, customers, visit, payer,
                     dropped, crossed>>
  BY <1>1 DEF S!MirrorSubscription, S!At, S!Handled
<1>3. /\ events[i] \in S!Event /\ events[i].status \in S!Statuses
  BY <1>1, StrFacts DEF S!Event, S!Statuses
<1>4. /\ subscription' \in S!SubscriptionRow /\ subscription'.status = events[i].status
      /\ events[i].plan \in PaidPlans => subscription'.plan = events[i].plan
  BY <1>2, <1>3 DEF S!Mirrored, S!SubscriptionRow, StrInv, S!StrTypeOK
<1>5. /\ handling \in [Handlers -> Delivery \cup {None}] /\ handling[h] \in Delivery
      /\ payment' \in S!PaymentRow /\ payment' = payment
  BY <1>2 DEF StrInv, S!StrTypeOK
<1>7. customerId' \in 0 .. customers /\ customerId' > 0
  <2>1. events # << >>
    BY <1>1
  <2> QED
    BY <1>2, <2>1 DEF StrInv, S!StrTypeOK, OneCustomer
<1>6. /\ handling' \in [Handlers -> Delivery \cup {None}]
      /\ \A g \in Handlers \ {h} : handling'[g] = handling[g]
      /\ \/ handling'[h] = None /\ unanswered' = unanswered \ {i} /\ ~Pays(i)
         \/ /\ handling'[h] # None /\ handling'[h].event = i /\ unanswered' = unanswered
  <2>1. CASE events[i].status = "active" /\ events[i].plan \in PaidPlans
    <3> DEFINE new == [handling[h] EXCEPT !.step = "refill"]
    <3>1. handling' = [handling EXCEPT ![h] = new] /\ unanswered' = unanswered
      BY <1>2, <2>1 DEF S!MirrorSubscription
    <3>2. new \in Delivery /\ new.event = i
      BY <1>1, <1>5 DEF Delivery
    <3> HIDE DEF new
    <3>3. new # None
      BY <3>2, NoneAssumption DEF Delivery
    <3> QED
      BY <1>5, <3>1, <3>2, <3>3
  <2>2. CASE ~(events[i].status = "active" /\ events[i].plan \in PaidPlans)
    <3>1. handling' = [handling EXCEPT ![h] = None] /\ unanswered' = unanswered \ {i}
      BY <1>1, <1>2, <2>2 DEF S!MirrorSubscription, S!Answer
    <3>2. ~Pays(i)
      BY <2>2 DEF Pays
    <3> QED
      BY <1>5, <3>1, <3>2
  <2> QED
    BY <2>1, <2>2
<1> QED
  BY <1>1, <1>2, <1>4, <1>5, <1>6, <1>7, WrittenBy

(* The payment is recorded.                                                *)
LEMMA StrRecords ==
  ASSUME StrInv, NEW h \in Handlers, S!RecordPayment(h)
  PROVE  StrInv'
<1>1. PICK i \in DOMAIN events :
        /\ i = handling[h].event /\ events[i].object = "invoice"
        /\ latest' \in [{"subscription", "invoice"} -> Nat]
        /\ latest'["invoice"] \in DOMAIN events
        /\ events[latest'["invoice"]].object = "invoice"
        /\ i <= latest'["invoice"] /\ latest["invoice"] <= latest'["invoice"]
        /\ \A q \in {"subscription", "invoice"} : q # "invoice" => latest'[q] = latest[q]
        /\ reordered' \in BOOLEAN
        /\ ~reordered' => ~reordered /\ latest'["invoice"] = i
  BY Noted DEF S!RecordPayment
<1>2. /\ payment' = events[i].status /\ handling' = [handling EXCEPT ![h] = None]
      /\ unanswered' = unanswered \ {i}
      /\ UNCHANGED <<stripe, invoice, events, subscription, refilled, customers, visit,
                     payer, customerId, dropped, crossed>>
  BY <1>1 DEF S!RecordPayment, S!Handled, S!Answer
<1>3. payment' \in S!PaymentRow
  BY <1>1, <1>2, StrFacts DEF S!Event, S!PaymentRow
<1>4. /\ handling' \in [Handlers -> Delivery \cup {None}] /\ handling'[h] = None
      /\ \A g \in Handlers \ {h} : handling'[g] = handling[g] /\ ~Pays(i)
  BY <1>1, <1>2 DEF StrInv, Pays
<1>5. ~Pays(i)
  BY <1>1 DEF Pays
<1>6. subscription' \in S!SubscriptionRow /\ customerId' \in 0 .. customers
  BY <1>2 DEF StrInv, S!StrTypeOK
<1> QED
  BY <1>1, <1>2, <1>3, <1>4, <1>5, <1>6, WrittenBy

(* The invoice of a customer that is not on the row is answered, no more.  *)
LEMMA StrDrops ==
  ASSUME StrInv, NEW h \in Handlers, S!DropInvoice(h)
  PROVE  StrInv'
<1>0. PICK i : i = handling[h].event
  OBVIOUS
<1>1. /\ handling[h] # None /\ i \in DOMAIN events /\ events[i].object = "invoice"
      /\ customerId # payer /\ dropped' = dropped \cup {i}
      /\ handling' = [handling EXCEPT ![h] = None] /\ unanswered' = unanswered \ {i}
      /\ UNCHANGED <<stripe, invoice, events, subscription, refilled, payment, customers,
                     visit, payer, customerId, latest, reordered, crossed>>
  BY <1>0 DEF StrInv, HandlersWrote, S!DropInvoice, S!Answer, S!At, S!Handled
<1>2. handling' \in [Handlers -> Delivery \cup {None}] /\ S!StrTypeOK'
  BY <1>1 DEF StrInv, S!StrTypeOK
<1>3. StripeIsNewest' /\ AnsweredAreWritten' /\ HandlersWrote'
  BY <1>1 DEF StrInv, StripeIsNewest, Newest, AnsweredAreWritten, HandlersWrote
<1>4. RowsAreNewest'
  BY <1>1 DEF StrInv, RowsAreNewest, Pays
<1>5. crossed
  <2>1. events # << >>
    BY <1>1
  <2>2. /\ payer \in 0 .. customers /\ customerId \in 0 .. customers /\ payer > 0
        /\ customers > 0 => customerId > 0
        /\ customers \in Nat /\ visit \in Nat
    BY <2>1, BoundsAssumption DEF StrInv, S!StrTypeOK, OneCustomer
  <2>3. customers + visit > 1
    BY <1>1, <2>2
  <2> QED
    BY <2>2, <2>3 DEF StrInv, OneCustomer
<1>6. OneCustomer'
  BY <1>1, <1>5 DEF StrInv, OneCustomer
<1> QED
  BY <1>1, <1>2, <1>3, <1>4, <1>6 DEF StrInv

(* The refill reads the row again; in order, it finds what its event said. *)
LEMMA StrRefills ==
  ASSUME StrInv, NEW h \in Handlers, S!RefillCredits(h)
  PROVE  StrInv'
<1>0. PICK i : i = handling[h].event
  OBVIOUS
<1>1. /\ handling[h] # None /\ i \in DOMAIN events /\ events[i].object = "subscription"
      /\ i <= latest["subscription"] /\ i \in Nat
      /\ handling' = [handling EXCEPT ![h] = None] /\ unanswered' = unanswered \ {i}
      /\ refilled' = (refilled \/ (subscription.status = "active" /\ subscription.plan # "free"))
      /\ UNCHANGED <<stripe, invoice, events, subscription, payment, customers, visit,
                     payer, customerId, latest, reordered, dropped, crossed>>
  BY <1>0, StrFacts DEF StrInv, HandlersWrote, S!RefillCredits, S!Answer, S!At
<1>2. refilled' \in BOOLEAN /\ (refilled => refilled')
  BY <1>1 DEF StrInv
<1>3. handling' \in [Handlers -> Delivery \cup {None}] /\ S!StrTypeOK'
  BY <1>1 DEF StrInv, S!StrTypeOK
<1>4. StripeIsNewest' /\ OneCustomer'
  BY <1>1 DEF StrInv, StripeIsNewest, Newest, OneCustomer
<1>5. AnsweredAreWritten'
  BY <1>1 DEF StrInv, AnsweredAreWritten
<1>6. HandlersWrote'
  BY <1>1 DEF StrInv, HandlersWrote
<1>7. RowsAreNewest'
  <2>1. ASSUME ~reordered, NEW j \in DOMAIN events, Pays(j), j \notin unanswered'
        PROVE  refilled' \/ j < latest["subscription"]
    <3>1. CASE j \notin unanswered
      BY <1>2, <2>1, <3>1 DEF StrInv, RowsAreNewest
    <3>2. CASE j \in unanswered
      <4>1. j = i
        BY <1>1, <2>1, <3>2
      <4>2. CASE i < latest["subscription"]
        BY <4>1, <4>2
      <4>3. CASE ~(i < latest["subscription"])
        <5>1. latest["subscription"] = i /\ i # 0
          BY <1>1, <4>3, StrFacts
        <5>2. subscription.status = "active" /\ subscription.plan \in PaidPlans
          BY <2>1, <4>1, <5>1 DEF StrInv, RowsAreNewest, Pays
        <5> QED
          BY <1>1, <5>2, PlansAssumption
      <4> QED
        BY <4>2, <4>3
    <3> QED
      BY <3>1, <3>2
  <2>2. ASSUME NEW j PROVE Pays(j)' = Pays(j)
    BY <1>1 DEF Pays
  <2> QED
    BY <1>1, <2>1, <2>2 DEF StrInv, RowsAreNewest
<1> QED
  BY <1>1, <1>2, <1>3, <1>4, <1>5, <1>6, <1>7 DEF StrInv

(* A checkout begins, or makes its customer.                               *)
LEMMA StrCheckouts ==
  ASSUME StrInv, S!BeginCheckout \/ S!EnsureCustomer
  PROVE  StrInv'
<1>0. /\ customers \in 0 .. MaxVisits /\ visit \in 0 .. MaxVisits /\ MaxVisits \in Nat
      /\ crossed \in BOOLEAN /\ customerId \in 0 .. customers /\ payer \in 0 .. customers
      /\ customers + visit <= MaxVisits
      /\ events # << >> => payer > 0
      /\ customers > 0 => customerId > 0
      /\ ~crossed => customers + visit <= 1 /\ dropped = {}
  BY BoundsAssumption DEF StrInv, S!StrTypeOK, OneCustomer
<1>1. /\ UNCHANGED <<stripe, invoice, events, unanswered, handling, subscription, refilled,
                      payment, payer, latest, reordered, dropped>>
      /\ customers' \in 0 .. MaxVisits /\ visit' \in 0 .. MaxVisits
      /\ customerId' \in 0 .. customers' /\ payer' \in 0 .. customers'
      /\ crossed' \in BOOLEAN /\ OneCustomer'
  <2>1. CASE S!BeginCheckout
    <3>1. /\ customers + visit < MaxVisits /\ customerId = 0 /\ visit' = visit + 1
          /\ crossed' = (crossed \/ visit > 0)
          /\ UNCHANGED <<customers, customerId, payer, events, dropped>>
      BY <2>1 DEF S!BeginCheckout, S!serverVars
    <3>2. visit' \in 0 .. MaxVisits /\ customers' + visit' <= MaxVisits
      BY <1>0, <3>1
    <3>3. crossed' \in BOOLEAN /\ customerId' \in 0 .. customers'
      BY <1>0, <3>1
    <3>4. ~crossed' => ~crossed /\ ~(visit > 0)
      BY <3>1
    <3>5. customers = 0
      BY <1>0, <3>1
    <3>6. ~crossed' => customers' + visit' <= 1 /\ dropped' = {}
      BY <1>0, <3>1, <3>4, <3>5
    <3> QED
      BY <1>0, <2>1, <3>1, <3>2, <3>3, <3>6 DEF S!BeginCheckout, S!serverVars, OneCustomer
  <2>2. CASE S!EnsureCustomer
    <3>1. /\ visit > 0 /\ visit' = visit - 1 /\ customers' = customers + 1
          /\ customerId' = customers + 1 /\ crossed' = (crossed \/ customerId # 0)
          /\ UNCHANGED <<payer, events, dropped>>
      BY <2>2 DEF S!EnsureCustomer
    <3>2. /\ visit' \in 0 .. MaxVisits /\ customers' \in 0 .. MaxVisits
          /\ customers' + visit' <= MaxVisits
      BY <1>0, <3>1
    <3>3. /\ crossed' \in BOOLEAN /\ customerId' \in 0 .. customers' /\ customerId' > 0
          /\ payer' \in 0 .. customers'
      BY <1>0, <3>1
    <3>4. ~crossed' => ~crossed /\ customerId = 0
      BY <3>1
    <3>5. ~crossed' => customers' + visit' <= 1 /\ dropped' = {}
      BY <1>0, <3>1, <3>4
    <3> QED
      BY <1>0, <2>2, <3>1, <3>2, <3>3, <3>5 DEF S!EnsureCustomer, OneCustomer
  <2> QED
    BY <2>1, <2>2
<1>2. S!StrTypeOK'
  BY <1>1 DEF StrInv, S!StrTypeOK
<1>3. /\ handling' \in [Handlers -> Delivery \cup {None}] /\ events' \in Seq(S!Event)
      /\ Len(events') <= MaxEvents /\ latest' \in [{"subscription", "invoice"} -> Nat]
      /\ {refilled, reordered, crossed}' \subseteq BOOLEAN
  BY <1>1 DEF StrInv
<1>4. StripeIsNewest' /\ AnsweredAreWritten' /\ HandlersWrote'
  BY <1>1 DEF StrInv, StripeIsNewest, Newest, AnsweredAreWritten, HandlersWrote
<1>5. RowsAreNewest'
  BY <1>1 DEF StrInv, RowsAreNewest, Pays
<1> QED
  BY <1>1, <1>2, <1>3, <1>4, <1>5 DEF StrInv

(* No step of this part, and none of another, breaks the invariant.        *)
LEMMA StrInvStep ==
  ASSUME StrInv, S!StrNext \/ UNCHANGED strVars
  PROVE  StrInv'
<1>1. CASE UNCHANGED strVars
  <2>1. UNCHANGED <<stripe, invoice, events, unanswered, handling, subscription, refilled,
                    payment, customers, visit, payer, customerId, latest, reordered,
                    dropped, crossed>>
    BY <1>1 DEF strVars
  <2>2. S!StrTypeOK' /\ OneCustomer'
    BY <2>1 DEF StrInv, S!StrTypeOK, OneCustomer
  <2>3. StripeIsNewest' /\ AnsweredAreWritten' /\ HandlersWrote'
    BY <2>1 DEF StrInv, StripeIsNewest, Newest, AnsweredAreWritten, HandlersWrote
  <2>4. RowsAreNewest'
    BY <2>1 DEF StrInv, RowsAreNewest, Pays
  <2> QED
    BY <2>1, <2>2, <2>3, <2>4 DEF StrInv
<1>2. CASE S!StrNext
  BY <1>2, StrStripe, StrHandling, StrMirrors, StrRecords, StrDrops, StrRefills,
     StrCheckouts
     DEF S!StrNext
<1> QED
  BY <1>1, <1>2

(* What it is for: what Stripe says and is paid for, once all is answered. *)
LEMMA StrInvIsEnough == StrInv => S!SyncedIsGranted
<1> SUFFICES ASSUME StrInv PROVE S!SyncedIsGranted
  OBVIOUS
<1>1. S!StrTypeOK /\ (~crossed => customers <= 1 /\ dropped = {})
  <2>1. /\ customers \in Int /\ visit \in Nat
        /\ ~crossed => customers + visit <= 1 /\ dropped = {}
    BY BoundsAssumption DEF StrInv, S!StrTypeOK, OneCustomer
  <2> QED
    BY <2>1 DEF StrInv
<1>0. /\ DOMAIN events = 1 .. Len(events) /\ Len(events) \in Nat
      /\ latest["subscription"] \in 0 .. Len(events)
      /\ latest["invoice"] \in 0 .. Len(events)
      /\ \A o \in {"subscription", "invoice"} :
           latest[o] # 0 => latest[o] \in DOMAIN events /\ events[latest[o]].object = o
  BY StrFacts DEF StrInv, AnsweredAreWritten
<1>2. ASSUME S!InSync, NEW o \in {"subscription", "invoice"}, NEW i \in DOMAIN events,
             Newest(i, o), i \notin dropped
      PROVE  latest[o] = i /\ latest[o] # 0 /\ ~reordered /\ i \notin unanswered
  <2>1. i <= latest[o] /\ latest[o] # 0
    BY <1>0, <1>2 DEF S!InSync, StrInv, AnsweredAreWritten, Newest
  <2>2. latest[o] <= i
    BY <1>0, <1>2, <2>1 DEF Newest
  <2> QED
    BY <1>0, <1>2, <2>1, <2>2 DEF S!InSync
<1>3. ASSUME S!InSync, S!Subscriptions # {}
      PROVE  /\ subscription.status = stripe.status
             /\ stripe.plan \in PaidPlans => subscription.plan = stripe.plan
             /\ stripe.plan \in PaidPlans /\ stripe.status = "active" => refilled
  <2>1. stripe.plan # "none"
    BY <1>3 DEF S!Subscriptions, StrInv, StripeIsNewest
  <2>2. PICK i \in DOMAIN events :
          /\ Newest(i, "subscription")
          /\ events[i].plan = stripe.plan /\ events[i].status = stripe.status
    BY <2>1 DEF StrInv, StripeIsNewest
  <2>3. latest["subscription"] = i /\ latest["subscription"] # 0 /\ ~reordered
        /\ i \notin unanswered
    BY <1>2, <1>3, <2>2 DEF StrInv, AnsweredAreWritten, Newest
  <2>4. /\ subscription.status = events[i].status
        /\ events[i].plan \in PaidPlans => subscription.plan = events[i].plan
    BY <2>3 DEF StrInv, RowsAreNewest
  <2>5. Pays(i) => refilled
    BY <1>0, <2>3 DEF StrInv, RowsAreNewest
  <2>6. stripe.plan \in PaidPlans /\ stripe.status = "active" => Pays(i)
    BY <2>2 DEF Pays, Newest
  <2> QED
    BY <2>2, <2>4, <2>5, <2>6
<1>4. ASSUME S!InSync, invoice # "open"
      PROVE  payment = invoice \/ S!InvoiceLost
  <2>1. PICK i \in DOMAIN events : Newest(i, "invoice") /\ events[i].status = invoice
    BY <1>4 DEF StrInv, StripeIsNewest
  <2>2. CASE i \in dropped
    BY <2>1, <2>2 DEF S!InvoiceLost, Newest
  <2>3. CASE i \notin dropped
    <3>1. latest["invoice"] = i /\ latest["invoice"] # 0 /\ ~reordered
      BY <1>2, <1>4, <2>1, <2>3
    <3> QED
      BY <2>1, <3>1 DEF StrInv, RowsAreNewest
  <2> QED
    BY <2>2, <2>3
<1> QED
  BY <1>1, <1>3, <1>4 DEF S!SyncedIsGranted

--------------------------------------------------------------------------------
(* What is granted lies before the next date, which is a month away at     *)
(* most: this is inductive as it stands.                                   *)
LEMMA RefInvInit == MCInit => F!RefilledIsNotDue
<1> SUFFICES ASSUME MCInit PROVE F!RefilledIsNotDue
  OBVIOUS
<1>1. /\ MaxMonth \in Nat \ {0} /\ JobAttempts \in Nat \ {0} /\ MaxFailures \in Nat
      /\ MaxChanges \in Nat /\ FirstPlans \subseteq Workspaces
  BY BoundsAssumption, PlansAssumption
<1>2. /\ month = 1 /\ resetAt = [w \in Workspaces |-> 1] /\ refills = {}
  BY DEF MCInit, F!RefInit
<1>3. F!RefTypeOK
  BY <1>1 DEF MCInit, F!RefInit, F!RefTypeOK, F!Months, F!JobState
<1>4. \A w \in Workspaces : resetAt[w] <= month + 1
  BY <1>2
<1> QED
  BY <1>2, <1>3, <1>4 DEF F!RefilledIsNotDue

(* Steps that grant nothing and move no date.                              *)
LEMMA RefKept ==
  ASSUME F!RefilledIsNotDue, F!RefTypeOK', UNCHANGED <<resetAt, refills>>,
         month' = month \/ month' = month + 1
  PROVE  F!RefilledIsNotDue'
<1>1. month \in Nat /\ \A w \in Workspaces : resetAt[w] \in Nat
  BY BoundsAssumption DEF F!RefilledIsNotDue, F!RefTypeOK, F!Months
<1>2. \A w \in Workspaces : resetAt[w] <= month' + 1
  BY <1>1 DEF F!RefilledIsNotDue
<1> QED
  BY <1>2 DEF F!RefilledIsNotDue

LEMMA RefInvStep ==
  ASSUME F!RefilledIsNotDue, F!RefNext \/ UNCHANGED refVars
  PROVE  F!RefilledIsNotDue'
<1>0. /\ MaxMonth \in Nat \ {0} /\ JobAttempts \in Nat \ {0} /\ MaxFailures \in Nat
      /\ MaxChanges \in Nat
  BY BoundsAssumption
<1>t. F!RefTypeOK
  BY DEF F!RefilledIsNotDue
<1>m. /\ month \in 1 .. MaxMonth /\ resetAt \in [Workspaces -> 1 .. MaxMonth + 1]
      /\ refills \subseteq Workspaces \X (1 .. MaxMonth)
      /\ failures \in 0 .. MaxFailures /\ changed \in 0 .. MaxChanges
      /\ onPlan \subseteq Workspaces
  BY <1>t DEF F!RefTypeOK, F!Months
<1>1. CASE F!MonthTurns
  <2>1. month' = month + 1 /\ month' \in 1 .. MaxMonth
        /\ UNCHANGED <<resetAt, onPlan, refills, job, tries, scan, failures, changed>>
    BY <1>0, <1>1, <1>m DEF F!MonthTurns
  <2>2. F!RefTypeOK'
    BY <1>t, <2>1 DEF F!RefTypeOK, F!Months
  <2> QED
    BY <2>1, <2>2, RefKept
<1>2. CASE F!ScanPlanRefills \/ F!ScanFails
  <2>1. CASE F!ScanPlanRefills
    <3>1. PICK b \in F!DueBatch : scan' = b
      BY <2>1 DEF F!ScanPlanRefills
    <3>2. scan' \subseteq Workspaces
      BY <3>1 DEF F!DueBatch, F!Due
    <3>3. UNCHANGED <<month, resetAt, onPlan, refills, job, tries, failures, changed>>
      BY <2>1 DEF F!ScanPlanRefills
    <3>4. F!RefTypeOK'
      BY <1>t, <3>2, <3>3 DEF F!RefTypeOK, F!Months
    <3> QED
      BY <3>3, <3>4, RefKept
  <2>2. CASE F!ScanFails
    <3>1. /\ scan' = None /\ failures' \in 0 .. MaxFailures
          /\ UNCHANGED <<month, resetAt, onPlan, refills, job, tries, changed>>
      BY <1>0, <1>m, <2>2 DEF F!ScanFails
    <3>2. F!RefTypeOK'
      BY <1>t, <3>1 DEF F!RefTypeOK, F!Months
    <3> QED
      BY <3>1, <3>2, RefKept
  <2> QED
    BY <1>2, <2>1, <2>2
<1>3. ASSUME NEW w \in Workspaces, F!ChangePlan(w) \/ F!EnqueueRefill(w)
      PROVE  F!RefilledIsNotDue'
  <2>1. CASE F!ChangePlan(w)
    <3>1. /\ changed' \in 0 .. MaxChanges /\ onPlan' \subseteq Workspaces
          /\ UNCHANGED <<month, resetAt, refills, job, tries, scan, failures>>
      BY <1>0, <1>m, <2>1 DEF F!ChangePlan
    <3>2. F!RefTypeOK'
      BY <1>t, <3>1 DEF F!RefTypeOK, F!Months
    <3> QED
      BY <3>1, <3>2, RefKept
  <2>2. CASE F!EnqueueRefill(w)
    <3>1. UNCHANGED <<month, resetAt, onPlan, refills, tries, failures, changed>>
      BY <2>2 DEF F!EnqueueRefill
    <3>2. scan' = None \/ scan' \subseteq Workspaces
      BY <1>t, <2>2 DEF F!EnqueueRefill, F!RefTypeOK
    <3>3. job' \in [Workspaces \X F!Months -> F!JobState]
      <4>1. "waiting" \in F!JobState
        BY DEF F!JobState
      <4>2. job \in [Workspaces \X F!Months -> F!JobState]
        BY <1>t DEF F!RefTypeOK
      <4> QED
        BY <2>2, <4>1, <4>2 DEF F!EnqueueRefill
    <3>4. F!RefTypeOK'
      BY <1>t, <3>1, <3>2, <3>3 DEF F!RefTypeOK, F!Months
    <3> QED
      BY <3>1, <3>4, RefKept
  <2> QED
    BY <1>3, <2>1, <2>2
<1>4. ASSUME NEW w \in Workspaces, NEW m \in F!Months,
             F!RefillPlanCredits(w, m) \/ F!AttemptFails(w, m) \/ F!AgesOut(w, m)
      PROVE  F!RefilledIsNotDue'
  <2>0. /\ job \in [Workspaces \X F!Months -> F!JobState]
        /\ tries \in [Workspaces \X F!Months -> 0 .. JobAttempts]
        /\ <<w, m>> \in Workspaces \X F!Months
        /\ {"completed", "failed", "absent"} \subseteq F!JobState
    BY <1>t DEF F!RefTypeOK, F!JobState
  <2>1. CASE F!RefillPlanCredits(w, m)
    <3>1. /\ refills' \subseteq refills \cup {<<w, month>>}
          /\ resetAt' = [resetAt EXCEPT ![w] = month + 1]
          /\ UNCHANGED <<month, onPlan, scan, failures, changed>>
      BY <2>1 DEF F!RefillPlanCredits, F!Refilled
    <3>2. /\ job' \in [Workspaces \X F!Months -> F!JobState]
          /\ tries' \in [Workspaces \X F!Months -> 0 .. JobAttempts]
      BY <1>0, <2>0, <2>1 DEF F!RefillPlanCredits
    <3>3. month + 1 \in 1 .. MaxMonth + 1
      BY <1>0, <1>m
    <3>4. /\ resetAt' \in [Workspaces -> 1 .. MaxMonth + 1]
          /\ refills' \subseteq Workspaces \X (1 .. MaxMonth)
      BY <1>m, <3>1, <3>3
    <3>5. F!RefTypeOK'
      BY <1>t, <3>1, <3>2, <3>4 DEF F!RefTypeOK, F!Months
    <3>6. \A v \in Workspaces : resetAt'[v] <= month + 1 /\ resetAt[v] <= resetAt'[v]
      BY <1>0, <1>m, <3>1 DEF F!RefilledIsNotDue
    <3>7. ASSUME NEW k \in refills'
          PROVE  k[2] < resetAt'[k[1]]
      <4>1. CASE k = <<w, month>>
        <5>1. resetAt'[w] = month + 1 /\ k[1] = w /\ k[2] = month
          BY <1>m, <3>1, <4>1
        <5> QED
          BY <1>m, <5>1
      <4>2. CASE k \in refills
        <5>1. k[2] < resetAt[k[1]] /\ k[1] \in Workspaces /\ k[2] \in 1 .. MaxMonth
          BY <1>m, <4>2 DEF F!RefilledIsNotDue
        <5>2. resetAt[k[1]] <= resetAt'[k[1]] /\ resetAt[k[1]] \in Int
              /\ resetAt'[k[1]] \in Int /\ k[2] \in Int
          BY <1>0, <1>m, <3>4, <3>6, <5>1
        <5> QED
          BY <5>1, <5>2
      <4> QED
        BY <3>1, <4>1, <4>2
    <3> QED
      BY <3>1, <3>5, <3>6, <3>7 DEF F!RefilledIsNotDue
  <2>2. CASE F!AttemptFails(w, m)
    <3>1. /\ failures' \in 0 .. MaxFailures
          /\ UNCHANGED <<month, resetAt, onPlan, refills, scan, changed>>
      BY <1>0, <1>m, <2>2 DEF F!AttemptFails
    <3>2. tries' = [tries EXCEPT ![<<w, m>>] = (tries[<<w, m>>] + 1) % JobAttempts]
      BY <2>2 DEF F!AttemptFails
    <3>3. (tries[<<w, m>>] + 1) % JobAttempts \in 0 .. JobAttempts
      <4>1. tries[<<w, m>>] + 1 \in Nat
        BY <1>0, <2>0
      <4> QED
        BY <1>0, <4>1
    <3>4. tries' \in [Workspaces \X F!Months -> 0 .. JobAttempts]
      BY <2>0, <3>2, <3>3
    <3>5. job' \in [Workspaces \X F!Months -> F!JobState]
      BY <2>0, <2>2 DEF F!AttemptFails
    <3>6. F!RefTypeOK'
      BY <1>t, <3>1, <3>4, <3>5 DEF F!RefTypeOK, F!Months
    <3> QED
      BY <3>1, <3>6, RefKept
  <2>3. CASE F!AgesOut(w, m)
    <3>1. /\ job' \in [Workspaces \X F!Months -> F!JobState]
          /\ UNCHANGED <<month, resetAt, onPlan, refills, tries, scan, failures, changed>>
      BY <2>0, <2>3 DEF F!AgesOut
    <3>2. F!RefTypeOK'
      BY <1>t, <3>1 DEF F!RefTypeOK, F!Months
    <3> QED
      BY <3>1, <3>2, RefKept
  <2> QED
    BY <1>4, <2>1, <2>2, <2>3
<1>5. CASE UNCHANGED refVars
  <2>1. UNCHANGED <<month, resetAt, onPlan, refills, job, tries, scan, failures, changed>>
    BY <1>5 DEF refVars
  <2>2. F!RefTypeOK'
    BY <1>t, <2>1 DEF F!RefTypeOK, F!Months
  <2> QED
    BY <2>1, <2>2, RefKept
<1> QED
  BY <1>1, <1>2, <1>3, <1>4, <1>5 DEF F!RefNext

--------------------------------------------------------------------------------
(* What a scan has read lies in the past.                                  *)
Read(s) ==
  pass[s] # None => pass[s].row.nextRunAt \in 0 .. pass[s].at /\ pass[s].at <= now

(* Every instant that was claimed is queued, refused, lost or in hand.     *)
HeldBy(s, t) ==
  pass[s] # None /\ pass[s].stage # "listed" /\ pass[s].row.nextRunAt = t
Accounted(t) ==
  run[t] = "queued" \/ t \in failed \/ t \in lost \/ \E s \in Scans : HeldBy(s, t)
Account(t) ==
  /\ claims[t] > 0 <=> Accounted(t)
  /\ claims[t] > 0 => t <= now

(* As long as no refusal came late, the next run lies after whatever was   *)
(* claimed.                                                                *)
Ahead(t) == trigger # None /\ trigger.nextRunAt # None => t < trigger.nextRunAt
Once(t) == ~late => claims[t] <= 1 /\ (claims[t] > 0 => Ahead(t))

TrgInv ==
  /\ T!TrgTypeOK /\ \A s \in Scans : Read(s)
  /\ \A t \in T!Time : Account(t) /\ Once(t)

LEMMA TrgFacts ==
  T!TrgTypeOK =>
    /\ MaxTime \in Nat /\ MaxBackoff \in Nat \ {0} /\ MaxEdits \in Nat /\ MaxCrashes \in Nat
    /\ None \notin Nat /\ None \notin T!Pass /\ None \notin T!AgentTriggerRow
    /\ T!Time = 0 .. MaxTime /\ now \in 0 .. MaxTime
    /\ trigger # None => trigger \in T!AgentTriggerRow
    /\ \A t \in T!Time : claims[t] \in Nat /\ t \in Nat
    /\ late \in BOOLEAN
<1> SUFFICES ASSUME T!TrgTypeOK
             PROVE  /\ MaxTime \in Nat /\ MaxBackoff \in Nat \ {0} /\ MaxEdits \in Nat
                    /\ MaxCrashes \in Nat
                    /\ None \notin Nat /\ None \notin T!Pass /\ None \notin T!AgentTriggerRow
                    /\ T!Time = 0 .. MaxTime /\ now \in 0 .. MaxTime
                    /\ trigger # None => trigger \in T!AgentTriggerRow
                    /\ \A t \in T!Time : claims[t] \in Nat /\ t \in Nat
                    /\ late \in BOOLEAN
  OBVIOUS
<1>1. T!Time = 0 .. MaxTime
  BY DEF T!Time
<1>2. MaxTime \in Nat /\ MaxBackoff \in Nat \ {0} /\ MaxEdits \in Nat /\ MaxCrashes \in Nat
  BY BoundsAssumption
<1>3. None \notin Nat /\ None \notin T!Pass /\ None \notin T!AgentTriggerRow
  BY NoneAssumption
<1>4. /\ now \in T!Time /\ late \in BOOLEAN /\ trigger \in T!AgentTriggerRow \cup {None}
      /\ claims \in [T!Time -> Nat]
  BY DEF T!TrgTypeOK
<1>5. \A t \in T!Time : claims[t] \in Nat /\ t \in Nat
  BY <1>1, <1>2, <1>4
<1> QED
  BY <1>1, <1>2, <1>3, <1>4, <1>5

LEMMA TrgInvInit == MCInit => TrgInv
<1> SUFFICES ASSUME MCInit PROVE TrgInv
  OBVIOUS
<1>1. MaxTime \in Nat /\ MaxBackoff \in Nat \ {0} /\ MaxEdits \in Nat /\ MaxCrashes \in Nat
  BY BoundsAssumption
<1>2. /\ now = 0 /\ trigger = [enabled |-> TRUE, nextRunAt |-> 1, failureCount |-> 0]
      /\ agentActive = TRUE /\ pass = [s \in Scans |-> None]
      /\ run = [t \in T!Time |-> "none"] /\ failed = {} /\ lost = {}
      /\ claims = [t \in T!Time |-> 0] /\ late = FALSE /\ edits = 0 /\ crashes = 0
  BY DEF MCInit, T!TrgInit, T!NextRun
<1>3. T!TrgTypeOK
  <2>1. 0 \in T!Time /\ 1 \in 0 .. MaxTime + MaxBackoff
    BY <1>1 DEF T!Time
  <2>2. trigger \in T!AgentTriggerRow
    BY <1>2, <2>1 DEF T!AgentTriggerRow
  <2>3. agentActive \in BOOLEAN /\ late \in BOOLEAN
    BY <1>2
  <2>4. /\ run \in [T!Time -> T!RunState] /\ claims \in [T!Time -> Nat]
        /\ pass \in [Scans -> T!Pass \cup {None}]
    BY <1>2 DEF T!RunState
  <2>5. edits \in 0 .. MaxEdits /\ crashes \in 0 .. MaxCrashes
    BY <1>1, <1>2
  <2> QED
    BY <1>2, <2>1, <2>2, <2>3, <2>4, <2>5 DEF T!TrgTypeOK
<1>4. ASSUME NEW s \in Scans PROVE Read(s) /\ \A t : ~HeldBy(s, t)
  BY <1>2 DEF Read, HeldBy
<1>5. ASSUME NEW t \in T!Time PROVE Account(t) /\ Once(t)
  BY <1>2, <1>4 DEF Account, Accounted, Once
<1> QED
  BY <1>3, <1>4, <1>5 DEF TrgInv

(* A scan knows the instant it claims or has claimed.                      *)
LEMMA ScanReads ==
  ASSUME TrgInv, NEW s \in Scans, pass[s] # None
  PROVE  /\ pass[s] \in T!Pass /\ pass[s].at \in T!Time /\ pass[s].row \in T!AgentTriggerRow
         /\ pass[s].stage \in {"listed", "claimed", "inserted"}
         /\ T!Instant(s) = pass[s].row.nextRunAt /\ T!Instant(s) \in T!Time
         /\ T!Instant(s) <= pass[s].at /\ pass[s].at <= now
         /\ pass[s].row.failureCount \in Nat
         /\ pass[s].stage # "listed" => HeldBy(s, T!Instant(s)) /\ claims[T!Instant(s)] > 0
         /\ \A t : t # T!Instant(s) => ~HeldBy(s, t)
<1>1. pass[s] \in T!Pass
  BY DEF TrgInv, T!TrgTypeOK
<1>2. /\ pass[s].at \in T!Time /\ pass[s].row \in T!AgentTriggerRow
      /\ pass[s].stage \in {"listed", "claimed", "inserted"}
  BY <1>1 DEF T!Pass
<1>3. pass[s].row.failureCount \in Nat
  BY <1>2 DEF T!AgentTriggerRow
<1>4. T!Instant(s) = pass[s].row.nextRunAt
  BY DEF T!Instant
<1>5. pass[s].row.nextRunAt \in 0 .. pass[s].at /\ pass[s].at <= now
  BY DEF TrgInv, Read
<1>6. T!Time = 0 .. MaxTime /\ MaxTime \in Nat
  BY TrgFacts DEF TrgInv
<1>7. T!Instant(s) \in T!Time /\ T!Instant(s) <= pass[s].at
  BY <1>2, <1>4, <1>5, <1>6
<1>8. \A t : t # T!Instant(s) => ~HeldBy(s, t)
  BY <1>4 DEF HeldBy
<1>9. pass[s].stage # "listed" => HeldBy(s, T!Instant(s))
  BY <1>4 DEF HeldBy
<1>10. pass[s].stage # "listed" => claims[T!Instant(s)] > 0
  BY <1>7, <1>9 DEF TrgInv, Account, Accounted
<1> QED
  BY <1>1, <1>2, <1>3, <1>4, <1>5, <1>7, <1>8, <1>9, <1>10

(* The wait after a refusal is one instant at least and the cap at most.   *)
LEMMA BackoffBounds ==
  ASSUME NEW n \in Nat \ {0}, MaxBackoff \in Nat \ {0}
  PROVE  T!Backoff(n) \in 1 .. MaxBackoff
<1> DEFINE k == IF n < 7 THEN n ELSE 7
           wait == <<1, 2, 4, 8, 16, 32, 64>>[k]
<1>1. k \in 1 .. 7
  OBVIOUS
<1> HIDE DEF k
<1>2. wait \in Nat /\ wait >= 1
  BY <1>1
<1> HIDE DEF wait
<1>3. T!Backoff(n) = IF wait < MaxBackoff THEN wait ELSE MaxBackoff
  BY DEF T!Backoff, wait, k
<1> QED
  BY <1>2, <1>3

--------------------------------------------------------------------------------
(* What the others hold is accounted for as before.                        *)
LEMMA SameAccount ==
  ASSUME TrgInv, NEW s \in Scans, NEW t \in T!Time,
         \A q \in Scans \ {s} : pass'[q] = pass[q],
         claims'[t] = claims[t], run'[t] = "queued" <=> run[t] = "queued",
         t \in failed' <=> t \in failed, t \in lost' <=> t \in lost,
         ~HeldBy(s, t), ~HeldBy(s, t)', now' = now
  PROVE  Account(t)'
<1>1. (\E q \in Scans : HeldBy(q, t)') <=> (\E q \in Scans : HeldBy(q, t))
  BY DEF HeldBy
<1>2. Accounted(t)' <=> Accounted(t)
  BY <1>1 DEF Accounted
<1> QED
  BY <1>2 DEF TrgInv, Account

(* A scan takes an instant one step further.                               *)
LEMMA TakenBy ==
  ASSUME TrgInv, T!TrgTypeOK', NEW s \in Scans, NEW i \in T!Time, i <= now,
         \A q \in Scans \ {s} : pass'[q] = pass[q],
         \A t \in T!Time \ {i} :
           /\ claims'[t] = claims[t] /\ (run'[t] = "queued" <=> run[t] = "queued")
           /\ (t \in failed' <=> t \in failed) /\ (t \in lost' <=> t \in lost)
           /\ ~HeldBy(s, t) /\ ~HeldBy(s, t)',
         claims'[i] > 0, Accounted(i)', Read(s)', now' = now,
         \A t \in T!Time : Once(t)'
  PROVE  TrgInv'
<1>1. ASSUME NEW q \in Scans PROVE Read(q)'
  BY DEF TrgInv, Read
<1>2. ASSUME NEW t \in T!Time PROVE Account(t)'
  <2>1. CASE t = i
    BY <2>1 DEF Account
  <2>2. CASE t # i
    BY <2>2, SameAccount
  <2> QED
    BY <2>1, <2>2
<1>3. T!Time' = T!Time
  BY DEF T!Time
<1> QED
  BY <1>1, <1>2, <1>3 DEF TrgInv

(* A scan lists what is due, or drops what it only listed.                 *)
LEMMA ListedBy ==
  ASSUME TrgInv, T!TrgTypeOK', NEW s \in Scans,
         \A q \in Scans \ {s} : pass'[q] = pass[q],
         pass[s] = None \/ pass[s].stage = "listed",
         pass'[s] = None \/ pass'[s].stage = "listed", Read(s)',
         UNCHANGED <<now, trigger, run, failed, lost, claims, late>>
  PROVE  TrgInv'
<1>1. ASSUME NEW q \in Scans PROVE Read(q)'
  BY DEF TrgInv, Read
<1>2. ASSUME NEW t \in T!Time PROVE Account(t)'
  <2>1. ~HeldBy(s, t) /\ ~HeldBy(s, t)'
    BY DEF HeldBy
  <2> QED
    BY <2>1, SameAccount
<1>3. ASSUME NEW t \in T!Time PROVE Once(t)'
  BY DEF TrgInv, Once, Ahead
<1>4. T!Time' = T!Time
  BY DEF T!Time
<1> QED
  BY <1>1, <1>2, <1>3, <1>4 DEF TrgInv

(* No scan moves: the clock, the agent or the trigger does.                *)
LEMMA PassedBy ==
  ASSUME TrgInv, T!TrgTypeOK', now <= now', now' \in Nat,
         UNCHANGED <<pass, run, failed, lost, claims, late>>,
         \A t \in T!Time : t <= now /\ Ahead(t) => Ahead(t)'
  PROVE  TrgInv'
<1>0. /\ now \in Nat /\ \A t \in T!Time : t \in Nat /\ claims[t] \in Nat
  BY TrgFacts DEF TrgInv
<1>1. ASSUME NEW q \in Scans PROVE Read(q)'
  <2>1. CASE pass[q] = None
    BY <2>1 DEF Read
  <2>2. CASE pass[q] # None
    <3>1. pass[q].row.nextRunAt \in 0 .. pass[q].at /\ pass[q].at <= now
      BY <2>2 DEF TrgInv, Read
    <3>2. pass[q].at \in Nat
      BY <2>2, ScanReads, TrgFacts DEF TrgInv
    <3> QED
      BY <1>0, <3>1, <3>2 DEF Read
  <2> QED
    BY <2>1, <2>2
<1>2. ASSUME NEW t \in T!Time PROVE Account(t)'
  <2>1. Accounted(t)' <=> Accounted(t)
    BY DEF Accounted, HeldBy
  <2> QED
    BY <1>0, <2>1 DEF TrgInv, Account
<1>3. ASSUME NEW t \in T!Time PROVE Once(t)'
  BY DEF TrgInv, Once, Account
<1>4. T!Time' = T!Time
  BY DEF T!Time
<1> QED
  BY <1>1, <1>2, <1>3, <1>4 DEF TrgInv

LEMMA TrgChanges ==
  ASSUME TrgInv,
         \/ T!Tick \/ T!AgentChanges \/ T!RemoveTrigger
         \/ \E enabled \in BOOLEAN : T!Update(enabled)
  PROVE  TrgInv'
<1>0. /\ T!TrgTypeOK /\ MaxTime \in Nat /\ MaxBackoff \in Nat \ {0} /\ MaxEdits \in Nat
      /\ now \in 0 .. MaxTime /\ None \notin Nat /\ None \notin T!AgentTriggerRow
      /\ \A t \in T!Time : t \in Nat
  BY TrgFacts DEF TrgInv
<1>1. CASE T!Tick
  <2>1. /\ now' = now + 1 /\ now' \in T!Time
        /\ UNCHANGED <<trigger, agentActive, pass, run, failed, lost, claims, late, edits,
                       crashes>>
    BY <1>0, <1>1 DEF T!Tick, T!Time
  <2>2. T!TrgTypeOK'
    BY <1>0, <2>1 DEF T!TrgTypeOK, T!Time
  <2>3. now <= now' /\ now' \in Nat
    BY <1>0, <2>1
  <2>4. \A t \in T!Time : Ahead(t) => Ahead(t)'
    BY <2>1 DEF Ahead
  <2> QED
    BY <2>1, <2>2, <2>3, <2>4, PassedBy
<1>2. CASE T!AgentChanges
  <2>1. /\ edits' \in 0 .. MaxEdits /\ agentActive' \in BOOLEAN
        /\ UNCHANGED <<now, trigger, pass, run, failed, lost, claims, late, crashes>>
    BY <1>0, <1>2 DEF T!AgentChanges, T!TrgTypeOK
  <2>2. T!TrgTypeOK'
    BY <1>0, <2>1 DEF T!TrgTypeOK, T!Time
  <2>3. \A t \in T!Time : Ahead(t) => Ahead(t)'
    BY <2>1 DEF Ahead
  <2> QED
    BY <1>0, <2>1, <2>2, <2>3, PassedBy
<1>3. CASE T!RemoveTrigger
  <2>1. /\ edits' \in 0 .. MaxEdits /\ trigger' = None
        /\ UNCHANGED <<now, agentActive, pass, run, failed, lost, claims, late, crashes>>
    BY <1>0, <1>3 DEF T!RemoveTrigger, T!TrgTypeOK
  <2>2. T!TrgTypeOK'
    BY <1>0, <2>1 DEF T!TrgTypeOK, T!Time
  <2>3. \A t \in T!Time : Ahead(t)'
    BY <2>1 DEF Ahead
  <2> QED
    BY <1>0, <2>1, <2>2, <2>3, PassedBy
<1>4. ASSUME NEW enabled \in BOOLEAN, T!Update(enabled)
      PROVE  TrgInv'
  <2>1. edits' \in 0 .. MaxEdits
    BY <1>0, <1>4 DEF T!Update, T!TrgTypeOK
  <2>2. /\ trigger' = [enabled |-> enabled, failureCount |-> 0,
                       nextRunAt |-> IF enabled THEN now + 1 ELSE None]
        /\ UNCHANGED <<now, agentActive, pass, run, failed, lost, claims, late, crashes>>
    BY <1>4 DEF T!Update, T!NextRun
  <2>3. now + 1 \in 0 .. MaxTime + MaxBackoff
    BY <1>0
  <2>4. trigger' \in T!AgentTriggerRow
    BY <2>2, <2>3 DEF T!AgentTriggerRow
  <2>5. T!TrgTypeOK'
    BY <1>0, <2>1, <2>2, <2>4 DEF T!TrgTypeOK, T!Time
  <2>6. trigger'.nextRunAt = now + 1 \/ trigger'.nextRunAt = None
    BY <2>2
  <2>7. \A t \in T!Time : t <= now => Ahead(t)'
    BY <1>0, <2>6 DEF Ahead
  <2> QED
    BY <1>0, <2>2, <2>5, <2>7, PassedBy
<1> QED
  BY <1>1, <1>2, <1>3, <1>4

(* A scan reads a trigger that is due, or finds that another was faster.   *)
LEMMA TrgLists ==
  ASSUME TrgInv, NEW s \in Scans, T!ListDue(s) \/ T!ClaimMisses(s)
  PROVE  TrgInv'
<1>0. /\ T!TrgTypeOK /\ pass \in [Scans -> T!Pass \cup {None}] /\ now \in T!Time
      /\ T!Time = 0 .. MaxTime /\ MaxTime \in Nat
      /\ trigger # None => trigger \in T!AgentTriggerRow
      /\ None \notin Nat
  BY TrgFacts DEF TrgInv, T!TrgTypeOK
<1>1. CASE T!ListDue(s)
  <2> DEFINE new == [at |-> now, row |-> trigger, stage |-> "listed"]
  <2>1. /\ pass[s] = None /\ T!IsDue /\ pass' = [pass EXCEPT ![s] = new]
        /\ UNCHANGED <<now, trigger, agentActive, run, failed, lost, claims, late, edits,
                       crashes>>
    BY <1>1 DEF T!ListDue
  <2>2. trigger \in T!AgentTriggerRow /\ trigger.nextRunAt # None /\ trigger.nextRunAt <= now
    BY <1>0, <2>1 DEF T!IsDue
  <2>3. trigger.nextRunAt \in 0 .. now
    BY <1>0, <2>2, BoundsAssumption DEF T!AgentTriggerRow
  <2>4. new \in T!Pass /\ new.row = trigger /\ new.at = now /\ new.stage = "listed"
    BY <1>0, <2>2 DEF T!Pass
  <2> HIDE DEF new
  <2>5. pass' \in [Scans -> T!Pass \cup {None}] /\ pass'[s] = new
    BY <1>0, <2>1, <2>4
  <2>6. T!TrgTypeOK'
    BY <1>0, <2>1, <2>5 DEF T!TrgTypeOK, T!Time
  <2>7. Read(s)'
    BY <1>0, <2>1, <2>3, <2>4, <2>5 DEF Read
  <2> QED
    BY <2>1, <1>0, <2>4, <2>5, <2>6, <2>7, ListedBy
<1>2. CASE T!ClaimMisses(s)
  <2>1. /\ pass[s].stage = "listed" /\ pass' = [pass EXCEPT ![s] = None]
        /\ UNCHANGED <<now, trigger, agentActive, run, failed, lost, claims, late, edits,
                       crashes>>
    BY <1>2 DEF T!ClaimMisses, T!ScanAt
  <2>2. pass' \in [Scans -> T!Pass \cup {None}] /\ pass'[s] = None
    BY <1>0, <2>1
  <2>3. T!TrgTypeOK' /\ Read(s)'
    BY <1>0, <2>1, <2>2 DEF T!TrgTypeOK, T!Time, Read
  <2> QED
    BY <2>1, <1>0, <2>2, <2>3, ListedBy
<1> QED
  BY <1>1, <1>2

(* A claim takes an instant nobody had, and the trigger goes on to a later *)
(* one.                                                                    *)
LEMMA TrgClaims ==
  ASSUME TrgInv, NEW s \in Scans, T!Claim(s)
  PROVE  TrgInv'
<1> PICK i : i = T!Instant(s)
  OBVIOUS
<1>0. /\ T!TrgTypeOK /\ pass \in [Scans -> T!Pass \cup {None}] /\ now \in T!Time
      /\ T!Time = 0 .. MaxTime /\ MaxTime \in Nat /\ MaxBackoff \in Nat \ {0}
      /\ None \notin Nat /\ None \notin T!Pass
      /\ claims \in [T!Time -> Nat] /\ late \in BOOLEAN
      /\ trigger # None => trigger \in T!AgentTriggerRow
  BY TrgFacts DEF TrgInv, T!TrgTypeOK
<1>1. /\ pass[s] # None /\ pass[s].stage = "listed" /\ trigger # None
      /\ trigger.nextRunAt = i
      /\ trigger' = [trigger EXCEPT !.nextRunAt = pass[s].at + 1]
      /\ claims' = [claims EXCEPT ![i] = claims[i] + 1]
      /\ UNCHANGED <<now, agentActive, run, failed, lost, late, edits, crashes>>
  BY DEF T!Claim, T!ScanAt, T!ClaimMatches, T!NextRun
<1>2. /\ pass[s] \in T!Pass /\ pass[s].at \in T!Time /\ i \in T!Time
      /\ i <= pass[s].at /\ pass[s].at <= now /\ i = pass[s].row.nextRunAt
  BY <1>1, ScanReads
<1> DEFINE new == [pass[s] EXCEPT !.stage = "claimed"]
<1>3. pass' = [pass EXCEPT ![s] = new]
  BY DEF T!Claim
<1>4. new \in T!Pass /\ new.row = pass[s].row /\ new.at = pass[s].at /\ new.stage = "claimed"
  BY <1>2 DEF T!Pass
<1> HIDE DEF new
<1>5. /\ pass' \in [Scans -> T!Pass \cup {None}] /\ pass'[s] = new /\ new # None
      /\ \A q \in Scans \ {s} : pass'[q] = pass[q]
  BY <1>0, <1>3, <1>4
<1>6. /\ trigger' \in T!AgentTriggerRow /\ trigger' # None
      /\ trigger'.nextRunAt = pass[s].at + 1
  <2>1. pass[s].at + 1 \in 0 .. MaxTime + MaxBackoff
    BY <1>0, <1>2
  <2>2. trigger' \in T!AgentTriggerRow /\ trigger'.nextRunAt = pass[s].at + 1
    BY <1>0, <1>1, <2>1 DEF T!AgentTriggerRow
  <2> QED
    BY <2>2, NoneAssumption
<1>7. /\ claims' \in [T!Time -> Nat] /\ claims'[i] = claims[i] + 1 /\ claims'[i] > 0
      /\ \A t \in T!Time \ {i} : claims'[t] = claims[t]
  BY <1>0, <1>1, <1>2
<1>8. T!TrgTypeOK'
  BY <1>0, <1>1, <1>5, <1>6, <1>7 DEF T!TrgTypeOK, T!Time
<1>9. Read(s)'
  BY <1>0, <1>1, <1>2, <1>4, <1>5 DEF TrgInv, Read
<1>10. HeldBy(s, i)' /\ \A t \in T!Time \ {i} : ~HeldBy(s, t) /\ ~HeldBy(s, t)'
  BY <1>1, <1>2, <1>4, <1>5 DEF HeldBy
<1>11. ASSUME NEW t \in T!Time, ~late
       PROVE  claims'[t] <= 1 /\ (claims'[t] > 0 => Ahead(t)')
  <2>1. claims[t] <= 1 /\ (claims[t] > 0 => t < i) /\ claims[t] \in Nat /\ t \in Nat
        /\ i \in Nat
    <3>1. claims[t] <= 1 /\ (claims[t] > 0 => Ahead(t))
      BY <1>11 DEF TrgInv, Once
    <3>2. Ahead(t) => t < i
      BY <1>0, <1>1, <1>2 DEF Ahead
    <3> QED
      BY <1>0, <1>2, <3>1, <3>2
  <2>2. CASE t = i
    <3>1. claims[t] = 0
      BY <2>1, <2>2
    <3>2. claims'[t] = 1 /\ t < pass[s].at + 1
      BY <1>0, <1>2, <1>7, <2>2, <3>1
    <3> QED
      BY <1>6, <3>2 DEF Ahead
  <2>3. CASE t # i
    <3>1. claims'[t] = claims[t]
      BY <1>7, <2>3
    <3>2. claims[t] > 0 => t < pass[s].at + 1
      BY <1>0, <1>2, <2>1
    <3> QED
      BY <1>6, <2>1, <3>1, <3>2 DEF Ahead
  <2> QED
    BY <2>2, <2>3
<1>12. \A t \in T!Time : Once(t)'
  BY <1>1, <1>11 DEF Once
<1>13. Accounted(i)' /\ i <= now
  BY <1>0, <1>2, <1>10 DEF Accounted
<1> QED
  BY <1>1, <1>2, <1>5, <1>7, <1>8, <1>9, <1>10, <1>12, <1>13, TakenBy

(* What was claimed becomes a run and its job.                             *)
LEMMA TrgQueues ==
  ASSUME TrgInv, NEW s \in Scans, T!InsertRun(s) \/ T!EnqueueRun(s)
  PROVE  TrgInv'
<1> PICK i : i = T!Instant(s)
  OBVIOUS
<1>0. /\ T!TrgTypeOK /\ pass \in [Scans -> T!Pass \cup {None}] /\ now \in T!Time
      /\ T!Time = 0 .. MaxTime /\ MaxTime \in Nat
      /\ None \notin Nat /\ None \notin T!Pass /\ None \notin T!AgentTriggerRow
      /\ run \in [T!Time -> T!RunState]
      /\ trigger # None => trigger \in T!AgentTriggerRow
  BY TrgFacts DEF TrgInv, T!TrgTypeOK
<1>1. /\ pass[s] # None /\ pass[s].stage # "listed"
      /\ UNCHANGED <<now, agentActive, failed, lost, claims, late, edits, crashes>>
  BY DEF T!InsertRun, T!EnqueueRun, T!ScanAt
<1>2. /\ pass[s] \in T!Pass /\ i \in T!Time /\ i <= pass[s].at /\ pass[s].at <= now
      /\ i = pass[s].row.nextRunAt /\ claims[i] > 0 /\ pass[s].at \in T!Time
      /\ \A t : t # i => ~HeldBy(s, t)
  BY <1>1, ScanReads
<1>3. i <= now
  BY <1>0, <1>2
<1>4. CASE T!InsertRun(s)
  <2> DEFINE new == [pass[s] EXCEPT !.stage = "inserted"]
  <2>1. /\ pass' = [pass EXCEPT ![s] = new] /\ UNCHANGED trigger
        /\ run' = [run EXCEPT ![i] = IF run[i] = "none" THEN "inserted" ELSE run[i]]
    BY <1>4 DEF T!InsertRun
  <2>2. new \in T!Pass /\ new.row = pass[s].row /\ new.at = pass[s].at /\ new.stage = "inserted"
    BY <1>2 DEF T!Pass
  <2> HIDE DEF new
  <2>3. /\ pass' \in [Scans -> T!Pass \cup {None}] /\ pass'[s] = new /\ new # None
        /\ \A q \in Scans \ {s} : pass'[q] = pass[q]
    BY <1>0, <2>1, <2>2
  <2>4. /\ run' \in [T!Time -> T!RunState]
        /\ \A t \in T!Time \ {i} : run'[t] = run[t]
    <3>1. "inserted" \in T!RunState
      BY DEF T!RunState
    <3> QED
      BY <1>0, <1>2, <2>1, <3>1
  <2>5. T!TrgTypeOK'
    BY <1>0, <1>1, <2>1, <2>3, <2>4 DEF T!TrgTypeOK, T!Time
  <2>6. Read(s)'
    BY <1>1, <2>2, <2>3 DEF TrgInv, Read
  <2>7. HeldBy(s, i)' /\ \A t \in T!Time \ {i} : ~HeldBy(s, t)'
    BY <1>2, <2>2, <2>3 DEF HeldBy
  <2>8. Accounted(i)'
    BY <2>7 DEF Accounted
  <2>9. \A t \in T!Time : Once(t)'
    BY <1>1, <2>1 DEF TrgInv, Once, Ahead
  <2> QED
    BY <1>1, <1>2, <1>3, <2>3, <2>4, <2>5, <2>6, <2>7, <2>8, <2>9, TakenBy
<1>5. CASE T!EnqueueRun(s)
  <2>1. /\ pass' = [pass EXCEPT ![s] = None]
        /\ run' = [run EXCEPT ![i] = "queued"]
        /\ trigger' = IF trigger = None THEN None ELSE [trigger EXCEPT !.failureCount = 0]
    BY <1>5 DEF T!EnqueueRun
  <2>2. /\ pass' \in [Scans -> T!Pass \cup {None}] /\ pass'[s] = None
        /\ \A q \in Scans \ {s} : pass'[q] = pass[q]
    BY <1>0, <2>1
  <2>3. /\ run' \in [T!Time -> T!RunState] /\ run'[i] = "queued"
        /\ \A t \in T!Time \ {i} : run'[t] = run[t]
    <3>1. "queued" \in T!RunState
      BY DEF T!RunState
    <3> QED
      BY <1>0, <1>2, <2>1, <3>1
  <2>4. ASSUME trigger # None
        PROVE  trigger' \in T!AgentTriggerRow /\ trigger'.nextRunAt = trigger.nextRunAt
    BY <1>0, <2>1, <2>4 DEF T!AgentTriggerRow
  <2>5. trigger = None => trigger' = None
    BY <2>1
  <2>6. T!TrgTypeOK'
    BY <1>0, <1>1, <2>2, <2>3, <2>4, <2>5 DEF T!TrgTypeOK, T!Time
  <2>7. Read(s)' /\ \A t : ~HeldBy(s, t)'
    BY <2>2 DEF Read, HeldBy
  <2>8. Accounted(i)'
    BY <2>3 DEF Accounted
  <2>9. \A t \in T!Time : Once(t)'
    BY <1>1, <2>4, <2>5 DEF TrgInv, Once, Ahead
  <2> QED
    BY <1>1, <1>2, <1>3, <2>2, <2>3, <2>6, <2>7, <2>8, <2>9, TakenBy
<1> QED
  BY <1>4, <1>5

(* A refusal puts the next run off, to a time after all that was claimed   *)
(* unless it comes late.                                                   *)
LEMMA TrgRefuses ==
  ASSUME TrgInv, NEW s \in Scans, T!RunRefused(s)
  PROVE  TrgInv'
<1> PICK i : i = T!Instant(s)
  OBVIOUS
<1>0. /\ T!TrgTypeOK /\ pass \in [Scans -> T!Pass \cup {None}] /\ now \in T!Time
      /\ T!Time = 0 .. MaxTime /\ MaxTime \in Nat /\ MaxBackoff \in Nat \ {0}
      /\ None \notin Nat /\ None \notin T!Pass /\ None \notin T!AgentTriggerRow
      /\ failed \subseteq T!Time /\ late \in BOOLEAN /\ MaxCrashes \in Nat
      /\ crashes \in 0 .. MaxCrashes
      /\ trigger # None => trigger \in T!AgentTriggerRow
  BY TrgFacts DEF TrgInv, T!TrgTypeOK
<1>1. /\ pass[s] # None /\ pass[s].stage # "listed" /\ crashes' \in 0 .. MaxCrashes
      /\ pass' = [pass EXCEPT ![s] = None]
      /\ failed' = failed \cup {i} /\ late' = (late \/ now > pass[s].at)
      /\ UNCHANGED <<now, agentActive, run, lost, claims, edits>>
  BY <1>0 DEF T!RunRefused, T!Refused, T!ScanAt
<1>2. /\ i \in T!Time /\ i <= pass[s].at /\ pass[s].at <= now /\ pass[s].at \in T!Time
      /\ claims[i] > 0 /\ pass[s].row.failureCount \in Nat
      /\ \A t : t # i => ~HeldBy(s, t)
  BY <1>1, ScanReads
<1> PICK n : n = pass[s].row.failureCount + 1
  OBVIOUS
<1> PICK wait : wait = T!Backoff(n)
  OBVIOUS
<1>m. MaxTime \in Nat /\ MaxBackoff \in Nat \ {0} /\ pass[s].at \in 0 .. MaxTime
  BY <1>0, <1>2
<1>n. n \in Nat \ {0}
  BY <1>2
<1>w. wait \in 1 .. MaxBackoff
  BY <1>m, <1>n, BackoffBounds
<1>3. n \in Nat \ {0} /\ wait \in 1 .. MaxBackoff
  BY <1>n, <1>w
<1>4. trigger' = IF trigger = None THEN None
                 ELSE [trigger EXCEPT !.failureCount = n, !.nextRunAt = pass[s].at + wait]
  BY DEF T!RunRefused
<1>5. ASSUME trigger # None
      PROVE  trigger' \in T!AgentTriggerRow /\ trigger'.nextRunAt = pass[s].at + wait
  <2>1. pass[s].at + wait \in 0 .. MaxTime + MaxBackoff /\ n \in Nat
    BY <1>m, <1>n, <1>w
  <2> QED
    BY <1>0, <1>4, <1>5, <2>1 DEF T!AgentTriggerRow
<1>6. trigger = None => trigger' = None
  BY <1>4
<1>7. /\ pass' \in [Scans -> T!Pass \cup {None}] /\ pass'[s] = None
      /\ \A q \in Scans \ {s} : pass'[q] = pass[q]
  BY <1>0, <1>1
<1>8. late' \in BOOLEAN /\ failed' \subseteq T!Time
  BY <1>0, <1>1, <1>2
<1>9. T!TrgTypeOK'
  BY <1>0, <1>1, <1>5, <1>6, <1>7, <1>8 DEF T!TrgTypeOK, T!Time
<1>10. Read(s)' /\ \A t : ~HeldBy(s, t)'
  BY <1>7 DEF Read, HeldBy
<1>11. ASSUME NEW t \in T!Time, ~late'
       PROVE  claims[t] <= 1 /\ (claims[t] > 0 => Ahead(t)')
  <2>1. ~late /\ ~(now > pass[s].at)
    BY <1>1, <1>11
  <2>2. claims[t] <= 1 /\ (claims[t] > 0 => t <= now)
    BY <2>1 DEF TrgInv, Once, Account
  <2>3. t <= now => t < pass[s].at + wait
    BY <1>0, <1>2, <1>3, <2>1
  <2> QED
    BY <1>5, <1>6, <2>2, <2>3 DEF Ahead
<1>12. \A t \in T!Time : Once(t)'
  BY <1>1, <1>11 DEF Once
<1>13. Accounted(i)' /\ i <= now
  BY <1>0, <1>1, <1>2 DEF Accounted
<1> QED
  BY <1>1, <1>2, <1>7, <1>9, <1>10, <1>12, <1>13, TakenBy

(* The worker dies with what it had in hand.                               *)
LEMMA TrgDies ==
  ASSUME TrgInv, NEW s \in Scans, T!ScanDies(s)
  PROVE  TrgInv'
<1> PICK i : i = T!Instant(s)
  OBVIOUS
<1>0. /\ T!TrgTypeOK /\ pass \in [Scans -> T!Pass \cup {None}] /\ now \in T!Time
      /\ T!Time = 0 .. MaxTime /\ MaxTime \in Nat
      /\ lost \subseteq T!Time /\ MaxCrashes \in Nat /\ crashes \in 0 .. MaxCrashes
  BY TrgFacts DEF TrgInv, T!TrgTypeOK
<1>1. /\ pass[s] # None /\ crashes' \in 0 .. MaxCrashes
      /\ lost' = IF pass[s].stage = "listed" THEN lost ELSE lost \cup {i}
      /\ pass' = [pass EXCEPT ![s] = None]
      /\ UNCHANGED <<now, trigger, agentActive, run, failed, claims, late, edits>>
  BY <1>0 DEF T!ScanDies, T!ScanAt
<1>2. /\ i \in T!Time /\ i <= pass[s].at /\ pass[s].at <= now /\ pass[s].at \in T!Time
      /\ pass[s].stage # "listed" => claims[i] > 0
      /\ \A t : t # i => ~HeldBy(s, t)
  BY <1>1, ScanReads
<1>3. /\ pass' \in [Scans -> T!Pass \cup {None}] /\ pass'[s] = None
      /\ \A q \in Scans \ {s} : pass'[q] = pass[q]
  BY <1>0, <1>1
<1>4. T!TrgTypeOK'
  <2>1. lost' \subseteq T!Time
    BY <1>0, <1>1, <1>2
  <2> QED
    BY <1>0, <1>1, <1>3, <2>1 DEF T!TrgTypeOK, T!Time
<1>5. Read(s)' /\ \A t : ~HeldBy(s, t)'
  BY <1>3 DEF Read, HeldBy
<1>6. CASE pass[s].stage = "listed"
  BY <1>1, <1>3, <1>4, <1>5, <1>6, ListedBy
<1>7. CASE pass[s].stage # "listed"
  <2>1. \A t \in T!Time : Once(t)'
    BY <1>1 DEF TrgInv, Once, Ahead
  <2>2. Accounted(i)' /\ i <= now
    BY <1>0, <1>1, <1>2, <1>7 DEF Accounted
  <2>3. \A t \in T!Time \ {i} : t \in lost' <=> t \in lost
    BY <1>1
  <2> QED
    BY <1>1, <1>2, <1>3, <1>4, <1>5, <1>7, <2>1, <2>2, <2>3, TakenBy
<1> QED
  BY <1>6, <1>7

LEMMA TrgInvStep ==
  ASSUME TrgInv, T!TrgNext \/ UNCHANGED trgVars
  PROVE  TrgInv'
<1>1. CASE UNCHANGED trgVars
  <2>1. UNCHANGED <<now, trigger, agentActive, pass, run, failed, lost, claims, late, edits,
                    crashes>>
    BY <1>1 DEF trgVars
  <2>2. T!TrgTypeOK'
    BY <2>1 DEF TrgInv, T!TrgTypeOK, T!Time
  <2>3. now \in Nat /\ \A t \in T!Time : Ahead(t) => Ahead(t)'
    BY <2>1, TrgFacts DEF TrgInv, Ahead
  <2> QED
    BY <2>1, <2>2, <2>3, PassedBy
<1>2. CASE T!TrgNext
  BY <1>2, TrgChanges, TrgLists, TrgClaims, TrgQueues, TrgRefuses, TrgDies
     DEF T!TrgNext, T!FireDueSchedules
<1> QED
  BY <1>1, <1>2

LEMMA TrgInvIsEnough == TrgInv => T!FiresOnce
<1> SUFFICES ASSUME TrgInv PROVE T!FiresOnce
  OBVIOUS
<1>1. T!TrgTypeOK /\ (~late => \A t \in T!Time : claims[t] <= 1)
  BY DEF TrgInv, Once
<1>2. ASSUME NEW t \in T!Time
      PROVE  t \in T!InHand <=> \E s \in Scans : HeldBy(s, t)
  BY DEF T!InHand, T!Instant, HeldBy
<1>3. T!InHand \subseteq T!Time
  BY ScanReads DEF T!InHand
<1>4. {t \in T!Time : claims[t] > 0} =
        {t \in T!Time : run[t] = "queued"} \cup failed \cup lost \cup T!InHand
  <2>1. failed \subseteq T!Time /\ lost \subseteq T!Time
    BY <1>1 DEF T!TrgTypeOK
  <2> QED
    BY <1>2, <1>3, <2>1 DEF TrgInv, Account, Accounted
<1> QED
  BY <1>1, <1>4 DEF T!FiresOnce

--------------------------------------------------------------------------------
(* Where a delivery stands, its attempts and its answers agree.            *)
Job(d) ==
  /\ delivery[d] = "completed" => d \in accepted \cup skipped
  /\ delivery[d] = "active" => /\ reading[d] # None /\ attempts[d] >= 1
                               /\ reading[d].answer = "ok" => d \in accepted
  /\ delivery[d] = "waiting" => attempts[d] < PostAttempts
  /\ delivery[d] \in {"none", "row"} => attempts[d] = 0
  /\ delivery[d] = "failed" => attempts[d] = PostAttempts \/ stalled[d] > MaxStalled
  /\ delivery[d] # "failed" => stalled[d] <= MaxStalled

(* Without overlap one attempt at most is under way, with the endpoint as  *)
(* it is; and the endpoint counts no failure that was not one.             *)
Counts ==
  endpoint.failureCount <= streak /\ endpoint.failureCount <= failing
SwitchedOff ==
  endpoint.disabled => ~endpoint.enabled /\ streak >= FailureLimit /\ failing >= FailureLimit
ReadsIt(d) == reading[d].row = endpoint /\ endpoint.enabled
OneAtATime ==
  ~overlapped =>
    /\ \A d, e \in W!Active : d = e
    /\ endpoint # None => Counts /\ SwitchedOff /\ \A d \in W!Active : ReadsIt(d)

WhkInv == W!WhkTypeOK /\ (\A d \in Deliveries : Job(d)) /\ OneAtATime

LEMMA WhkFacts ==
  W!WhkTypeOK => /\ None \notin W!WebhookEndpointRow \cup W!Reading \cup BOOLEAN
                 /\ PostAttempts \in Nat \ {0} /\ FailureLimit \in Nat
                 /\ MaxWhkEdits \in Nat /\ MaxWhkCrashes \in Nat /\ MaxStalled \in Nat
                 /\ endpoint # None => endpoint \in W!WebhookEndpointRow
                 /\ \A d \in Deliveries : attempts[d] \in 0 .. PostAttempts
                                          /\ stalled[d] \in 0 .. MaxStalled + 1
  BY BoundsAssumption, NoneAssumption DEF W!WhkTypeOK

LEMMA WhkInvInit == MCInit => WhkInv
<1> SUFFICES ASSUME MCInit PROVE WhkInv
  OBVIOUS
<1>1. /\ PostAttempts \in Nat /\ MaxWhkEdits \in Nat /\ MaxWhkCrashes \in Nat
      /\ MaxStalled \in Nat
  BY BoundsAssumption
<1>2. W!WhkTypeOK
  <2>1. endpoint = [enabled |-> TRUE, failureCount |-> 0, disabled |-> FALSE]
    BY DEF MCInit, W!WhkInit
  <2>2. endpoint \in W!WebhookEndpointRow
    BY <2>1 DEF W!WebhookEndpointRow
  <2>3. /\ editor = None /\ overlapped = FALSE /\ streak = 0 /\ failing = 0
        /\ whkEdits = 0 /\ whkCrashes = 0 /\ accepted = {} /\ skipped = {}
    BY DEF MCInit, W!WhkInit
  <2>4. /\ delivery \in [Deliveries -> W!Progress] /\ attempts \in [Deliveries -> 0 .. PostAttempts]
        /\ stalled \in [Deliveries -> 0 .. MaxStalled + 1]
        /\ reading \in [Deliveries -> W!Reading \cup {None}]
    BY <1>1 DEF MCInit, W!WhkInit, W!Progress
  <2>5. overlapped \in BOOLEAN /\ editor \in BOOLEAN \cup {None}
    BY <2>3
  <2>6. /\ streak \in Nat /\ failing \in Nat /\ whkEdits \in 0 .. MaxWhkEdits
        /\ whkCrashes \in 0 .. MaxWhkCrashes
    BY <1>1, <2>3
  <2>7. accepted \subseteq Deliveries /\ skipped \subseteq Deliveries
    BY <2>3
  <2> QED
    BY <2>2, <2>4, <2>5, <2>6, <2>7 DEF W!WhkTypeOK
<1>3. ASSUME NEW d \in Deliveries PROVE Job(d)
  BY <1>1 DEF MCInit, W!WhkInit, Job
<1>4. W!Active = {}
  BY DEF MCInit, W!WhkInit, W!Active
<1>5. OneAtATime
  BY <1>4 DEF MCInit, W!WhkInit, OneAtATime, Counts, SwitchedOff
<1> QED
  BY <1>2, <1>3, <1>5 DEF WhkInv

(* One delivery moves on, and no new attempt begins.                       *)
LEMMA MovedBy ==
  ASSUME WhkInv, W!WhkTypeOK', NEW d \in Deliveries, Job(d)',
         \A e \in Deliveries \ {d} :
           /\ delivery'[e] = delivery[e] /\ attempts'[e] = attempts[e]
           /\ stalled'[e] = stalled[e] /\ reading'[e] = reading[e],
         accepted \subseteq accepted', skipped \subseteq skipped',
         delivery'[d] = "active" => delivery[d] = "active" /\ reading'[d].row = reading[d].row,
         UNCHANGED <<endpoint, streak, failing, overlapped>>
  PROVE  WhkInv'
<1>1. ASSUME NEW e \in Deliveries PROVE Job(e)'
  <2>1. CASE e = d
    BY <2>1
  <2>2. CASE e # d
    BY <2>2 DEF WhkInv, Job
  <2> QED
    BY <2>1, <2>2
<1>2. W!Active' \subseteq W!Active
  BY DEF W!Active
<1>3. ASSUME NEW e \in W!Active' PROVE reading'[e].row = reading[e].row
  BY <1>3 DEF W!Active
<1>4. OneAtATime'
  BY <1>2, <1>3 DEF WhkInv, OneAtATime, Counts, SwitchedOff, ReadsIt
<1> QED
  BY <1>1, <1>4 DEF WhkInv

(* A delivery is made, queued, lost or taken from a worker that died.      *)
LEMMA WhkEmits ==
  ASSUME WhkInv, NEW d \in Deliveries,
         W!Emit(d) \/ W!EnqueueDelivery(d) \/ W!EmitFails(d) \/ W!AttemptDies(d)
  PROVE  WhkInv'
<1>0. /\ W!WhkTypeOK /\ Job(d) /\ PostAttempts \in Nat \ {0} /\ MaxWhkCrashes \in Nat
      /\ attempts[d] \in 0 .. PostAttempts /\ whkCrashes \in 0 .. MaxWhkCrashes
      /\ MaxStalled \in Nat /\ stalled \in [Deliveries -> 0 .. MaxStalled + 1]
      /\ delivery \in [Deliveries -> W!Progress]
      /\ attempts \in [Deliveries -> 0 .. PostAttempts]
      /\ reading \in [Deliveries -> W!Reading \cup {None}]
  BY WhkFacts DEF WhkInv, W!WhkTypeOK
<1>1. CASE W!Emit(d)
  <2>1. /\ delivery[d] = "none" /\ delivery' = [delivery EXCEPT ![d] = "row"]
        /\ UNCHANGED <<endpoint, editor, attempts, stalled, reading, accepted, skipped,
                       streak, failing, overlapped, whkEdits, whkCrashes>>
    BY <1>1 DEF W!Emit
  <2>2. W!WhkTypeOK'
    BY <1>0, <2>1 DEF W!WhkTypeOK, W!Progress
  <2>3. Job(d)'
    BY <1>0, <2>1 DEF Job
  <2> QED
    BY <1>0, <2>1, <2>2, <2>3, MovedBy
<1>2. CASE W!EnqueueDelivery(d)
  <2>1. /\ delivery[d] = "row" /\ delivery' = [delivery EXCEPT ![d] = "waiting"]
        /\ UNCHANGED <<endpoint, editor, attempts, stalled, reading, accepted, skipped,
                       streak, failing, overlapped, whkEdits, whkCrashes>>
    BY <1>2 DEF W!EnqueueDelivery
  <2>2. W!WhkTypeOK'
    BY <1>0, <2>1 DEF W!WhkTypeOK, W!Progress
  <2>3. Job(d)'
    BY <1>0, <2>1 DEF Job
  <2> QED
    BY <1>0, <2>1, <2>2, <2>3, MovedBy
<1>3. CASE W!EmitFails(d)
  <2>1. /\ delivery[d] = "row" /\ delivery' = [delivery EXCEPT ![d] = "lost"]
        /\ whkCrashes' \in 0 .. MaxWhkCrashes
        /\ UNCHANGED <<endpoint, editor, attempts, stalled, reading, accepted, skipped,
                       streak, failing, overlapped, whkEdits>>
    BY <1>0, <1>3 DEF W!EmitFails
  <2>2. W!WhkTypeOK'
    BY <1>0, <2>1 DEF W!WhkTypeOK, W!Progress
  <2>3. Job(d)'
    BY <1>0, <2>1 DEF Job
  <2> QED
    BY <1>0, <2>1, <2>2, <2>3, MovedBy
<1>4. CASE W!AttemptDies(d)
  <2>1. /\ delivery[d] = "active" /\ stalled' = [stalled EXCEPT ![d] = stalled[d] + 1]
        /\ reading' = [reading EXCEPT ![d] = None]
        /\ UNCHANGED <<endpoint, editor, accepted, skipped, streak, failing, overlapped,
                       whkEdits>>
    BY <1>4 DEF W!AttemptDies
  <2>2. whkCrashes' \in 0 .. MaxWhkCrashes
    BY <1>0, <1>4 DEF W!AttemptDies
  <2>3. attempts[d] >= 1 /\ stalled[d] <= MaxStalled
    BY <1>0, <2>1 DEF Job
  <2>4. /\ attempts[d] - 1 \in 0 .. PostAttempts /\ attempts[d] - 1 < PostAttempts
        /\ stalled[d] + 1 \in 0 .. MaxStalled + 1
    BY <1>0, <2>3
  <2>5. /\ stalled' \in [Deliveries -> 0 .. MaxStalled + 1]
        /\ stalled'[d] = stalled[d] + 1 /\ \A e \in Deliveries \ {d} : stalled'[e] = stalled[e]
    BY <1>0, <2>1, <2>4
  <2>6. CASE stalled[d] < MaxStalled
    <3>1. /\ delivery' = [delivery EXCEPT ![d] = "waiting"]
          /\ attempts' = [attempts EXCEPT ![d] = attempts[d] - 1]
      BY <1>4, <2>6 DEF W!AttemptDies
    <3>2. attempts' \in [Deliveries -> 0 .. PostAttempts] /\ attempts'[d] < PostAttempts
      BY <1>0, <2>4, <3>1
    <3>3. stalled'[d] <= MaxStalled
      BY <1>0, <2>5, <2>6
    <3>4. W!WhkTypeOK'
      BY <1>0, <2>1, <2>2, <2>5, <3>1, <3>2 DEF W!WhkTypeOK, W!Progress
    <3>5. Job(d)'
      BY <1>0, <2>1, <3>1, <3>2, <3>3 DEF Job
    <3> QED
      BY <1>0, <2>1, <2>5, <3>1, <3>4, <3>5, MovedBy
  <2>7. CASE ~(stalled[d] < MaxStalled)
    <3>1. delivery' = [delivery EXCEPT ![d] = "failed"] /\ attempts' = attempts
      BY <1>4, <2>7 DEF W!AttemptDies
    <3>2. stalled'[d] > MaxStalled
      BY <1>0, <2>5, <2>7
    <3>3. W!WhkTypeOK'
      BY <1>0, <2>1, <2>2, <2>5, <3>1 DEF W!WhkTypeOK, W!Progress
    <3>4. Job(d)'
      BY <1>0, <2>1, <3>1, <3>2 DEF Job
    <3> QED
      BY <1>0, <2>1, <2>5, <3>1, <3>3, <3>4, MovedBy
  <2> QED
    BY <2>6, <2>7
<1> QED
  BY <1>1, <1>2, <1>3, <1>4

(* The queue gives a job that throws another attempt while it has one.     *)
LEMMA ThrownIs ==
  ASSUME WhkInv, NEW n \in 1 .. PostAttempts
  PROVE  /\ W!Thrown(n) \in {"waiting", "failed"}
         /\ W!Thrown(n) = "waiting" => n < PostAttempts
         /\ W!Thrown(n) = "failed" => n = PostAttempts
<1>1. PostAttempts \in Nat
  BY WhkFacts DEF WhkInv
<1> QED
  BY <1>1 DEF W!Thrown

(* An attempt begins: without an endpoint it throws, with one switched off *)
(* it is done, and any other is read and posted to.                        *)
LEMMA WhkBegins ==
  ASSUME WhkInv, NEW d \in Deliveries, W!BeginAttempt(d)
  PROVE  WhkInv'
<1>0. /\ W!WhkTypeOK /\ Job(d) /\ PostAttempts \in Nat \ {0}
      /\ attempts[d] \in 0 .. PostAttempts /\ overlapped \in BOOLEAN
      /\ delivery \in [Deliveries -> W!Progress]
      /\ attempts \in [Deliveries -> 0 .. PostAttempts]
      /\ reading \in [Deliveries -> W!Reading \cup {None}]
      /\ skipped \subseteq Deliveries
      /\ endpoint # None => endpoint \in W!WebhookEndpointRow
  BY WhkFacts DEF WhkInv, W!WhkTypeOK
<1> PICK n : n = attempts[d] + 1
  OBVIOUS
<1>1. /\ delivery[d] = "waiting" /\ attempts' = [attempts EXCEPT ![d] = n]
      /\ overlapped' = (overlapped \/ W!Active # {})
      /\ UNCHANGED <<endpoint, editor, stalled, accepted, streak, failing, whkEdits,
                     whkCrashes>>
  BY DEF W!BeginAttempt
<1>2. n \in 1 .. PostAttempts
  BY <1>0, <1>1 DEF Job
<1>3. attempts' \in [Deliveries -> 0 .. PostAttempts] /\ attempts'[d] = n
      /\ \A e \in Deliveries \ {d} : attempts'[e] = attempts[e]
  BY <1>0, <1>1, <1>2
<1>4. /\ delivery' \in [Deliveries -> W!Progress]
      /\ \A e \in Deliveries \ {d} : delivery'[e] = delivery[e] /\ reading'[e] = reading[e]
      /\ reading' \in [Deliveries -> W!Reading \cup {None}]
      /\ skipped \subseteq skipped' /\ skipped' \subseteq Deliveries
      /\ delivery'[d] = "completed" => d \in skipped'
      /\ delivery'[d] \notin {"none", "row"}
      /\ delivery'[d] = "waiting" => n < PostAttempts
      /\ delivery'[d] = "failed" => n = PostAttempts
      /\ delivery'[d] = "active" =>
           /\ endpoint # None /\ endpoint.enabled /\ reading'[d] # None
           /\ reading'[d].row = endpoint /\ reading'[d].answer = "none"
  <2>1. CASE endpoint = None
    <3>1. /\ delivery' = [delivery EXCEPT ![d] = W!Thrown(n)]
          /\ UNCHANGED <<reading, skipped>>
      BY <2>1 DEF W!BeginAttempt
    <3> QED
      BY <1>0, <1>2, <3>1, ThrownIs DEF W!Progress
  <2>2. CASE endpoint # None /\ ~endpoint.enabled
    <3>1. /\ delivery' = [delivery EXCEPT ![d] = "completed"]
          /\ skipped' = skipped \cup {d} /\ UNCHANGED reading
      BY <2>2 DEF W!BeginAttempt
    <3> QED
      BY <1>0, <3>1 DEF W!Progress
  <2>3. CASE endpoint # None /\ endpoint.enabled
    <3> DEFINE new == [row |-> endpoint, answer |-> "none"]
    <3>1. /\ delivery' = [delivery EXCEPT ![d] = "active"]
          /\ reading' = [reading EXCEPT ![d] = new] /\ UNCHANGED skipped
      BY <2>3 DEF W!BeginAttempt
    <3>2. new \in W!Reading /\ new.row = endpoint /\ new.answer = "none"
      BY <1>0, <2>3 DEF W!Reading
    <3> HIDE DEF new
    <3>3. new # None
      BY <1>0, <3>2, WhkFacts
    <3> QED
      BY <1>0, <2>3, <3>1, <3>2, <3>3 DEF W!Progress
  <2> QED
    BY <2>1, <2>2, <2>3
<1>5. W!WhkTypeOK'
  <2>1. overlapped' \in BOOLEAN
    BY <1>1
  <2> QED
    BY <1>0, <1>1, <1>3, <1>4, <2>1 DEF W!WhkTypeOK
<1>6. ASSUME NEW e \in Deliveries PROVE Job(e)'
  <2>1. CASE e = d
    <3>1. attempts'[d] >= 1
      BY <1>0, <1>2, <1>3
    <3> QED
      BY <1>0, <1>1, <1>3, <1>4, <2>1, <3>1 DEF Job
  <2>2. CASE e # d
    BY <1>1, <1>3, <1>4, <2>2 DEF WhkInv, Job
  <2> QED
    BY <2>1, <2>2
<1>7. OneAtATime'
  <2> SUFFICES ASSUME ~overlapped'
               PROVE  /\ \A e, g \in W!Active' : e = g
                      /\ endpoint # None =>
                           (Counts /\ SwitchedOff)' /\ \A e \in W!Active' : ReadsIt(e)'
    BY <1>1 DEF OneAtATime
  <2>1. ~overlapped /\ W!Active = {}
    BY <1>1
  <2>2. \A e \in W!Active' : e = d /\ delivery'[d] = "active"
    BY <1>4, <2>1 DEF W!Active
  <2>3. endpoint # None => (Counts /\ SwitchedOff)'
    BY <1>1, <2>1 DEF WhkInv, OneAtATime, Counts, SwitchedOff
  <2>4. ASSUME NEW e \in W!Active' PROVE ReadsIt(e)'
    BY <1>1, <1>4, <2>2 DEF ReadsIt
  <2> QED
    BY <2>2, <2>3, <2>4
<1> QED
  BY <1>5, <1>6, <1>7 DEF WhkInv

(* The receiver answers.                                                   *)
LEMMA WhkPosts ==
  ASSUME WhkInv, NEW d \in Deliveries, NEW answer \in {"ok", "error"}, W!Post(d, answer)
  PROVE  WhkInv'
<1>0. /\ W!WhkTypeOK /\ Job(d) /\ accepted \subseteq Deliveries
      /\ reading \in [Deliveries -> W!Reading \cup {None}]
  BY WhkFacts DEF WhkInv, W!WhkTypeOK
<1> DEFINE new == [reading[d] EXCEPT !.answer = answer]
<1>1. /\ delivery[d] = "active" /\ reading' = [reading EXCEPT ![d] = new]
      /\ accepted' = IF answer = "ok" THEN accepted \cup {d} ELSE accepted
      /\ UNCHANGED <<endpoint, editor, delivery, attempts, stalled, skipped, streak,
                     failing, overlapped, whkEdits, whkCrashes>>
  BY DEF W!Post
<1>2. reading[d] \in W!Reading
  BY <1>0, <1>1 DEF Job
<1>3. new \in W!Reading /\ new.answer = answer /\ new.row = reading[d].row
  BY <1>2 DEF W!Reading
<1> HIDE DEF new
<1>4. new # None
  BY <1>0, <1>3, WhkFacts
<1>5. /\ reading' \in [Deliveries -> W!Reading \cup {None}] /\ reading'[d] = new
      /\ \A e \in Deliveries \ {d} : reading'[e] = reading[e]
  BY <1>0, <1>1, <1>3
<1>6. accepted \subseteq accepted' /\ accepted' \subseteq Deliveries
      /\ answer = "ok" => d \in accepted'
  BY <1>0, <1>1
<1>7. W!WhkTypeOK'
  BY <1>0, <1>1, <1>5, <1>6 DEF W!WhkTypeOK
<1>8. Job(d)'
  BY <1>0, <1>1, <1>3, <1>4, <1>5, <1>6 DEF Job
<1> QED
  BY <1>1, <1>3, <1>5, <1>6, <1>7, <1>8, MovedBy

(* An attempt ends, and what the endpoint counts follows.                  *)
LEMMA EndedBy ==
  ASSUME WhkInv, NEW d \in Deliveries, delivery[d] = "active",
         delivery' \in [Deliveries -> W!Progress], reading' = [reading EXCEPT ![d] = None],
         \A e \in Deliveries \ {d} : delivery'[e] = delivery[e],
         \/ delivery'[d] = "completed" /\ d \in accepted
         \/ delivery'[d] \in {"waiting", "failed"} /\ delivery'[d] = W!Thrown(attempts[d]),
         endpoint' \in W!WebhookEndpointRow \cup {None}, streak' \in Nat, failing' \in Nat,
         endpoint' # None => endpoint # None,
         ~overlapped /\ endpoint # None /\ Counts /\ SwitchedOff /\ ReadsIt(d)
           => (Counts /\ SwitchedOff)',
         UNCHANGED <<editor, attempts, stalled, accepted, skipped, overlapped, whkEdits,
                     whkCrashes>>
  PROVE  WhkInv'
<1>0. /\ W!WhkTypeOK /\ Job(d) /\ attempts[d] \in 0 .. PostAttempts
      /\ reading \in [Deliveries -> W!Reading \cup {None}]
      /\ PostAttempts \in Nat
  BY WhkFacts DEF WhkInv, W!WhkTypeOK
<1>1. W!WhkTypeOK'
  <2>1. reading' \in [Deliveries -> W!Reading \cup {None}]
    BY <1>0
  <2> QED
    BY <1>0, <2>1 DEF W!WhkTypeOK
<1>2. attempts[d] \in 1 .. PostAttempts
  BY <1>0 DEF Job
<1>3. ASSUME NEW e \in Deliveries PROVE Job(e)'
  <2>1. CASE e = d
    BY <1>0, <1>2, <2>1, ThrownIs DEF Job
  <2>2. CASE e # d
    <3>1. reading'[e] = reading[e]
      BY <1>0, <2>2
    <3> QED
      BY <2>2, <3>1 DEF WhkInv, Job
  <2> QED
    BY <2>1, <2>2
<1>4. OneAtATime'
  <2> SUFFICES ASSUME ~overlapped
               PROVE  /\ \A e, g \in W!Active' : e = g
                      /\ endpoint' # None =>
                           (Counts /\ SwitchedOff)' /\ \A e \in W!Active' : ReadsIt(e)'
    BY DEF OneAtATime
  <2>1. d \in W!Active /\ \A e \in W!Active : e = d
    BY DEF WhkInv, OneAtATime, W!Active
  <2>2. W!Active' = {}
    BY <2>1 DEF W!Active
  <2>3. endpoint # None => Counts /\ SwitchedOff /\ ReadsIt(d)
    BY <2>1 DEF WhkInv, OneAtATime
  <2> QED
    BY <2>2, <2>3
<1> QED
  BY <1>1, <1>3, <1>4 DEF WhkInv

LEMMA WhkRecords ==
  ASSUME WhkInv, NEW d \in Deliveries, W!RecordSuccess(d) \/ W!RecordFailure(d)
  PROVE  WhkInv'
<1>0. /\ W!WhkTypeOK /\ Job(d) /\ streak \in Nat /\ failing \in Nat
      /\ FailureLimit \in Nat /\ PostAttempts \in Nat
      /\ delivery \in [Deliveries -> W!Progress]
      /\ reading \in [Deliveries -> W!Reading \cup {None}]
      /\ attempts[d] \in 0 .. PostAttempts
      /\ endpoint # None => endpoint \in W!WebhookEndpointRow
  BY WhkFacts DEF WhkInv, W!WhkTypeOK
<1>1. /\ delivery[d] = "active" /\ reading' = [reading EXCEPT ![d] = None]
      /\ UNCHANGED <<editor, attempts, stalled, accepted, skipped, overlapped, whkEdits,
                     whkCrashes>>
  BY DEF W!RecordSuccess, W!RecordFailure
<1>2. /\ reading[d] \in W!Reading /\ attempts[d] \in 1 .. PostAttempts
  BY <1>0, <1>1 DEF Job
<1>t. /\ W!Thrown(attempts[d]) \in {"waiting", "failed"}
      /\ {"waiting", "failed", "completed"} \subseteq W!Progress
  BY <1>2, ThrownIs DEF W!Progress
<1>3. CASE W!RecordSuccess(d)
  <2>1. /\ reading[d].answer = "ok" /\ streak' = 0 /\ failing' = failing
        /\ endpoint' = IF endpoint = None THEN None ELSE [endpoint EXCEPT !.failureCount = 0]
        /\ delivery' = [delivery EXCEPT ![d] = IF endpoint = None THEN W!Thrown(attempts[d])
                                               ELSE "completed"]
    BY <1>3 DEF W!RecordSuccess
  <2>2. d \in accepted
    BY <1>0, <1>1, <2>1 DEF Job
  <2>3. /\ delivery' \in [Deliveries -> W!Progress]
        /\ \A e \in Deliveries \ {d} : delivery'[e] = delivery[e]
        /\ \/ delivery'[d] = "completed"
           \/ delivery'[d] \in {"waiting", "failed"} /\ delivery'[d] = W!Thrown(attempts[d])
    BY <1>0, <1>t, <2>1
  <2>4. ASSUME endpoint # None
        PROVE  /\ endpoint' \in W!WebhookEndpointRow /\ endpoint'.failureCount = 0
               /\ endpoint'.enabled = endpoint.enabled
               /\ endpoint'.disabled = endpoint.disabled
    BY <1>0, <2>1, <2>4 DEF W!WebhookEndpointRow
  <2>5. endpoint = None => endpoint' = None
    BY <2>1
  <2>6. endpoint' \in W!WebhookEndpointRow \cup {None} /\ (endpoint' # None => endpoint # None)
    BY <2>4, <2>5
  <2>7. ASSUME endpoint # None, SwitchedOff, ReadsIt(d)
        PROVE  (Counts /\ SwitchedOff)'
    <3>1. endpoint.enabled /\ ~endpoint.disabled
      BY <2>7 DEF SwitchedOff, ReadsIt
    <3>2. SwitchedOff'
      BY <2>4, <2>7, <3>1 DEF SwitchedOff
    <3>3. Counts'
      BY <1>0, <2>1, <2>4, <2>7 DEF Counts
    <3> QED
      BY <3>2, <3>3
  <2>8. streak' \in Nat /\ failing' \in Nat
    BY <1>0, <2>1
  <2> QED
    BY <1>1, <2>2, <2>3, <2>6, <2>7, <2>8, EndedBy
<1>4. CASE W!RecordFailure(d)
  <2> PICK n : n = reading[d].row.failureCount + 1
    OBVIOUS
  <2>1. /\ streak' = streak + 1 /\ failing' = failing + 1
        /\ endpoint' = IF endpoint = None THEN None ELSE W!Counted(endpoint, n)
        /\ delivery' = [delivery EXCEPT ![d] = W!Thrown(attempts[d])]
    BY <1>4 DEF W!RecordFailure
  <2>2. n \in Nat
    BY <1>2 DEF W!Reading, W!WebhookEndpointRow
  <2>3. /\ delivery' \in [Deliveries -> W!Progress]
        /\ \A e \in Deliveries \ {d} : delivery'[e] = delivery[e]
        /\ delivery'[d] \in {"waiting", "failed"} /\ delivery'[d] = W!Thrown(attempts[d])
    BY <1>0, <1>t, <2>1
  <2>4. ASSUME endpoint # None
        PROVE  /\ endpoint' \in W!WebhookEndpointRow /\ endpoint'.failureCount = n
               /\ endpoint'.enabled = (endpoint.enabled /\ n < FailureLimit)
               /\ endpoint'.disabled = (endpoint.disabled \/ n >= FailureLimit)
    <3>1. endpoint' = [enabled |-> endpoint.enabled /\ n < FailureLimit, failureCount |-> n,
                       disabled |-> endpoint.disabled \/ n >= FailureLimit]
      BY <1>0, <2>1, <2>4 DEF W!Counted, W!WebhookEndpointRow
    <3>2. /\ (endpoint.enabled /\ n < FailureLimit) \in BOOLEAN
          /\ (endpoint.disabled \/ n >= FailureLimit) \in BOOLEAN
      OBVIOUS
    <3> QED
      BY <2>2, <3>1, <3>2 DEF W!WebhookEndpointRow
  <2>5. endpoint = None => endpoint' = None
    BY <2>1
  <2>6. endpoint' \in W!WebhookEndpointRow \cup {None} /\ (endpoint' # None => endpoint # None)
    BY <2>4, <2>5
  <2>7. ASSUME endpoint # None, Counts, SwitchedOff, ReadsIt(d)
        PROVE  (Counts /\ SwitchedOff)'
    <3>1. /\ endpoint.enabled /\ ~endpoint.disabled
          /\ n = endpoint.failureCount + 1 /\ endpoint.failureCount \in Nat
      BY <1>0, <2>7 DEF SwitchedOff, ReadsIt, W!WebhookEndpointRow
    <3>2. n <= streak' /\ n <= failing'
      BY <1>0, <2>1, <2>7, <3>1 DEF Counts
    <3>3. Counts'
      BY <2>4, <2>7, <3>2 DEF Counts
    <3>4. endpoint'.disabled => n >= FailureLimit
      BY <2>4, <2>7, <3>1
    <3>5. n >= FailureLimit =>
            ~endpoint'.enabled /\ streak' >= FailureLimit /\ failing' >= FailureLimit
      <4>1. n >= FailureLimit => ~(n < FailureLimit)
        BY <1>0, <2>2
      <4>2. n >= FailureLimit => ~endpoint'.enabled
        BY <2>4, <2>7, <4>1
      <4>3. n >= FailureLimit => streak' >= FailureLimit /\ failing' >= FailureLimit
        BY <1>0, <2>1, <2>2, <3>2
      <4> QED
        BY <4>2, <4>3
    <3> QED
      BY <3>3, <3>4, <3>5 DEF SwitchedOff
  <2>8. streak' \in Nat /\ failing' \in Nat
    BY <1>0, <2>1
  <2> QED
    BY <1>1, <2>3, <2>6, <2>7, <2>8, EndedBy
<1> QED
  BY <1>3, <1>4

(* The workspace edits its endpoint, or deletes it.                        *)
LEMMA WhkChanges ==
  ASSUME WhkInv,
         \/ W!BeginUpdate \/ W!RemoveEndpoint
         \/ \E enabled \in BOOLEAN : W!Update(enabled)
  PROVE  WhkInv'
<1>0. /\ W!WhkTypeOK /\ None \notin W!WebhookEndpointRow \cup W!Reading \cup BOOLEAN
      /\ editor \in BOOLEAN \cup {None} /\ whkEdits \in 0 .. MaxWhkEdits
      /\ MaxWhkEdits \in Nat /\ streak \in Nat /\ failing \in Nat
      /\ overlapped \in BOOLEAN
      /\ endpoint # None => endpoint \in W!WebhookEndpointRow
  BY WhkFacts DEF WhkInv, W!WhkTypeOK
<1>1. /\ UNCHANGED <<delivery, attempts, stalled, reading, accepted, skipped, whkCrashes>>
  BY DEF W!BeginUpdate, W!RemoveEndpoint, W!Update
<1>2. /\ W!Active' = W!Active /\ \A d \in Deliveries : Job(d)'
  BY <1>1 DEF WhkInv, Job, W!Active
<1>3. CASE W!BeginUpdate
  <2>1. editor' \in BOOLEAN /\ whkEdits' \in 0 .. MaxWhkEdits
    <3>1. editor' = endpoint.enabled /\ endpoint \in W!WebhookEndpointRow
      BY <1>0, <1>3 DEF W!BeginUpdate
    <3>2. whkEdits' \in 0 .. MaxWhkEdits
      BY <1>0, <1>3 DEF W!BeginUpdate
    <3> QED
      BY <3>1, <3>2 DEF W!WebhookEndpointRow
  <2>2. UNCHANGED <<endpoint, streak, failing, overlapped>>
    BY <1>3 DEF W!BeginUpdate
  <2>3. W!WhkTypeOK'
    BY <1>0, <1>1, <2>1, <2>2 DEF W!WhkTypeOK
  <2>4. OneAtATime'
    BY <1>1, <1>2, <2>2 DEF WhkInv, OneAtATime, Counts, SwitchedOff, ReadsIt
  <2> QED
    BY <1>2, <2>3, <2>4 DEF WhkInv
<1>4. CASE W!RemoveEndpoint
  <2>1. whkEdits' \in 0 .. MaxWhkEdits
    BY <1>0, <1>4 DEF W!RemoveEndpoint
  <2>2. endpoint' = None /\ UNCHANGED <<editor, streak, failing, overlapped>>
    BY <1>4 DEF W!RemoveEndpoint
  <2>3. W!WhkTypeOK'
    BY <1>0, <1>1, <2>1, <2>2 DEF W!WhkTypeOK
  <2>4. OneAtATime'
    BY <1>1, <1>2, <2>2 DEF WhkInv, OneAtATime
  <2> QED
    BY <1>2, <2>3, <2>4 DEF WhkInv
<1>5. ASSUME NEW enabled \in BOOLEAN, W!Update(enabled)
      PROVE  WhkInv'
  <2>1. /\ editor \in BOOLEAN /\ editor' = None /\ whkEdits' = whkEdits
        /\ overlapped' = (overlapped \/ W!Active # {}
                          \/ (endpoint # None /\ editor # endpoint.enabled))
        /\ endpoint' = IF endpoint = None THEN None ELSE W!Edited(endpoint, enabled)
    BY <1>0, <1>5 DEF W!Update
  <2>2. CASE enabled /\ ~editor
    <3>1. streak' = 0 /\ failing' = 0
      BY <1>5, <2>2 DEF W!Update
    <3>2. ASSUME endpoint # None
          PROVE  /\ endpoint' \in W!WebhookEndpointRow /\ endpoint'.failureCount = 0
                 /\ ~endpoint'.disabled
      BY <2>1, <2>2, <3>2 DEF W!Edited, W!WebhookEndpointRow
    <3>3. endpoint' \in W!WebhookEndpointRow \cup {None} /\ (endpoint = None => endpoint' = None)
      BY <2>1, <3>2
    <3>4. overlapped' \in BOOLEAN
      BY <2>1
    <3>5. W!WhkTypeOK'
      BY <1>0, <1>1, <2>1, <3>1, <3>3, <3>4 DEF W!WhkTypeOK
    <3>6. ~overlapped' => ~overlapped /\ W!Active = {}
      BY <2>1
    <3>7. endpoint' # None => (Counts /\ SwitchedOff)'
      BY <3>1, <3>2, <3>3 DEF Counts, SwitchedOff
    <3>8. OneAtATime'
      BY <1>2, <3>6, <3>7 DEF OneAtATime
    <3> QED
      BY <1>2, <3>5, <3>8 DEF WhkInv
  <2>3. CASE ~(enabled /\ ~editor)
    <3>1. UNCHANGED <<streak, failing>>
      BY <1>5, <2>3 DEF W!Update
    <3>2. ASSUME endpoint # None
          PROVE  /\ endpoint' \in W!WebhookEndpointRow
                 /\ endpoint'.failureCount = endpoint.failureCount
                 /\ endpoint'.disabled = endpoint.disabled /\ endpoint'.enabled = enabled
      <4>1. endpoint' = [endpoint EXCEPT !.enabled = enabled]
        BY <2>1, <2>3, <3>2 DEF W!Edited
      <4> QED
        BY <1>0, <3>2, <4>1 DEF W!WebhookEndpointRow
    <3>3. endpoint' \in W!WebhookEndpointRow \cup {None} /\ (endpoint = None => endpoint' = None)
      BY <2>1, <3>2
    <3>4. overlapped' \in BOOLEAN
      BY <2>1
    <3>5. W!WhkTypeOK'
      BY <1>0, <1>1, <2>1, <3>1, <3>3, <3>4 DEF W!WhkTypeOK
    <3>6. ~overlapped' =>
            ~overlapped /\ W!Active = {} /\ (endpoint # None => editor = endpoint.enabled)
      BY <2>1
    <3>7. ASSUME ~overlapped', endpoint' # None
          PROVE  (Counts /\ SwitchedOff)'
      <4>1. endpoint # None /\ Counts /\ SwitchedOff /\ editor = endpoint.enabled
        BY <3>3, <3>6, <3>7 DEF WhkInv, OneAtATime
      <4>2. Counts'
        BY <3>1, <3>2, <4>1 DEF Counts
      <4>3. endpoint.disabled => ~enabled
        BY <2>3, <4>1 DEF SwitchedOff
      <4>4. SwitchedOff'
        BY <3>1, <3>2, <4>1, <4>3 DEF SwitchedOff
      <4> QED
        BY <4>2, <4>4
    <3>8. OneAtATime'
      BY <1>2, <3>6, <3>7 DEF OneAtATime
    <3> QED
      BY <1>2, <3>5, <3>8 DEF WhkInv
  <2> QED
    BY <2>2, <2>3
<1> QED
  BY <1>3, <1>4, <1>5

LEMMA WhkInvStep ==
  ASSUME WhkInv, W!WhkNext \/ UNCHANGED whkVars
  PROVE  WhkInv'
<1>1. CASE UNCHANGED whkVars
  <2>1. UNCHANGED <<endpoint, editor, delivery, attempts, stalled, reading, accepted,
                    skipped, streak, failing, overlapped, whkEdits, whkCrashes>>
    BY <1>1 DEF whkVars
  <2>2. W!WhkTypeOK' /\ \A d \in Deliveries : Job(d)'
    BY <2>1 DEF WhkInv, W!WhkTypeOK, Job
  <2>3. OneAtATime'
    BY <2>1 DEF WhkInv, OneAtATime, Counts, SwitchedOff, ReadsIt, W!Active
  <2> QED
    BY <2>2, <2>3 DEF WhkInv
<1>2. CASE W!WhkNext
  BY <1>2, WhkChanges, WhkEmits, WhkBegins, WhkPosts, WhkRecords DEF W!WhkNext, W!Work
<1> QED
  BY <1>1, <1>2

LEMMA WhkInvIsEnough == WhkInv => W!SwitchedOffForCause
  BY DEF WhkInv, Job, OneAtATime, SwitchedOff, W!SwitchedOffForCause

--------------------------------------------------------------------------------
(* A writer's number is at most the next one; it is the next one, and no   *)
(* other writer has it, once it is inserted.                               *)
Numbers(w) ==
  writing[w] # None =>
    /\ writing[w].config \notin Invalid /\ (agent # None \/ deleted)
    /\ agent # None => writing[w].next <= Len(version) + 1
    /\ writing[w].stage = "inserted" =>
         agent # None /\ writing[w].next = Len(version) + 1
Inserted(w) == writing[w] # None /\ writing[w].stage = "inserted"
OneInserts == \A w, o \in Writers : Inserted(w) /\ Inserted(o) => w = o

(* Whoever asks for versions asks for some that there are.                 *)
Asks(a) ==
  asking[a] # None =>
    (agent # None \/ deleted) /\ (agent # None => asking[a] \subseteq DOMAIN version)

Numbered ==
  /\ agent # None => agent.currentVersion = Len(version)
  /\ deleted => agent = None
  /\ \A n \in DOMAIN version : version[n] \notin Invalid
Agree ==
  /\ agent = None => runs = {}
  /\ \A r \in runs : r.agentVersion \in DOMAIN version /\ version[r.agentVersion] = r.config

VerInv ==
  /\ V!VerTypeOK /\ asking \in [Askers -> (SUBSET (1 .. MaxVersions)) \cup {None}]
  /\ Numbered /\ Agree /\ OneInserts
  /\ \A w \in Writers : Numbers(w)
  /\ \A a \in Askers : Asks(a)

LEMMA VerFacts ==
  VerInv => /\ MaxVersions \in Nat \ {0} /\ None \notin V!AgentRow /\ None \notin V!Writing
            /\ version \in Seq(Configs) /\ Len(version) \in 0 .. MaxVersions
            /\ DOMAIN version = 1 .. Len(version)
            /\ \A n \in DOMAIN version : version[n] \in Configs
            /\ agent # None => /\ agent \in V!AgentRow
                               /\ agent.currentVersion = Len(version)
                               /\ agent.currentVersion \in 1 .. MaxVersions
            /\ writing \in [Writers -> V!Writing \cup {None}]
            /\ \A w \in Writers : writing[w] # None =>
                 /\ writing[w].next \in 1 .. MaxVersions /\ writing[w].config \in Configs
                 /\ writing[w] \in V!Writing
            /\ deleted \in BOOLEAN
<1> SUFFICES ASSUME VerInv
             PROVE  /\ MaxVersions \in Nat \ {0} /\ None \notin V!AgentRow
                    /\ None \notin V!Writing
                    /\ version \in Seq(Configs) /\ Len(version) \in 0 .. MaxVersions
                    /\ DOMAIN version = 1 .. Len(version)
                    /\ \A n \in DOMAIN version : version[n] \in Configs
                    /\ agent # None => /\ agent \in V!AgentRow
                                       /\ agent.currentVersion = Len(version)
                                       /\ agent.currentVersion \in 1 .. MaxVersions
                    /\ writing \in [Writers -> V!Writing \cup {None}]
                    /\ \A w \in Writers : writing[w] # None =>
                         /\ writing[w].next \in 1 .. MaxVersions
                         /\ writing[w].config \in Configs /\ writing[w] \in V!Writing
                    /\ deleted \in BOOLEAN
  OBVIOUS
<1>1. MaxVersions \in Nat \ {0} /\ None \notin V!AgentRow /\ None \notin V!Writing
  BY BoundsAssumption, NoneAssumption
<1>2. version \in Seq(Configs) /\ Len(version) <= MaxVersions /\ deleted \in BOOLEAN
  BY DEF VerInv, V!VerTypeOK, V!AgentVersionRow
<1>3. /\ Len(version) \in 0 .. MaxVersions /\ DOMAIN version = 1 .. Len(version)
      /\ \A n \in DOMAIN version : version[n] \in Configs
  BY <1>1, <1>2
<1>4. agent # None => agent \in V!AgentRow
  BY DEF VerInv, V!VerTypeOK
<1>5. agent # None => /\ agent.currentVersion = Len(version)
                      /\ agent.currentVersion \in 1 .. MaxVersions
  BY <1>4 DEF VerInv, Numbered, V!AgentRow
<1>6. writing \in [Writers -> V!Writing \cup {None}]
  BY DEF VerInv, V!VerTypeOK
<1>7. \A w \in Writers : writing[w] # None => writing[w] \in V!Writing
  BY <1>6
<1>8. \A w \in Writers : writing[w] # None =>
        writing[w].next \in 1 .. MaxVersions /\ writing[w].config \in Configs
  BY <1>7 DEF V!Writing
<1> QED
  BY <1>1, <1>2, <1>3, <1>4, <1>5, <1>6, <1>7, <1>8

LEMMA VerInvInit == MCInit => VerInv
<1> SUFFICES ASSUME MCInit PROVE VerInv
  OBVIOUS
<1>1. /\ agent = None /\ version = <<>> /\ writing = [w \in Writers |-> None]
      /\ asking = [a \in Askers |-> None] /\ runs = {} /\ deleted = FALSE
  BY DEF MCInit, V!VerInit
<1>2. MaxVersions \in Nat /\ version \in Seq(Configs) /\ Len(version) = 0 /\ DOMAIN version = {}
  <2>1. MaxVersions \in Nat
    BY BoundsAssumption
  <2> QED
    BY <1>1, <2>1
<1>3. deleted \in BOOLEAN /\ Len(version) <= MaxVersions
  <2>1. deleted \in BOOLEAN
    BY <1>1
  <2>2. Len(version) <= MaxVersions
    BY <1>2
  <2> QED
    BY <2>1, <2>2
<1>4. V!VerTypeOK
  BY <1>1, <1>2, <1>3 DEF V!VerTypeOK, V!AgentVersionRow
<1>5. asking \in [Askers -> (SUBSET (1 .. MaxVersions)) \cup {None}]
  BY <1>1
<1>6. Numbered /\ Agree /\ OneInserts
  BY <1>1, <1>2 DEF Numbered, Agree, OneInserts, Inserted
<1>7. (\A w \in Writers : Numbers(w)) /\ (\A a \in Askers : Asks(a))
  BY <1>1 DEF Numbers, Asks
<1> QED
  BY <1>4, <1>5, <1>6, <1>7 DEF VerInv

(* Only the askers and their runs move.                                    *)
LEMMA AskedBy ==
  ASSUME VerInv, NEW a \in Askers, NEW new \in (SUBSET (1 .. MaxVersions)) \cup {None},
         asking' = [asking EXCEPT ![a] = new],
         new # None => \/ agent # None /\ new \subseteq DOMAIN version
                       \/ asking[a] # None /\ new \subseteq asking[a],
         runs' \subseteq V!AgentRunRow, Agree',
         UNCHANGED <<agent, version, writing, deleted>>
  PROVE  VerInv'
<1>1. asking \in [Askers -> (SUBSET (1 .. MaxVersions)) \cup {None}]
  BY DEF VerInv
<1>2. /\ asking' \in [Askers -> (SUBSET (1 .. MaxVersions)) \cup {None}]
      /\ asking'[a] = new /\ \A b \in Askers \ {a} : asking'[b] = asking[b]
  BY <1>1
<1>3. ASSUME NEW b \in Askers PROVE Asks(b)'
  <2>1. CASE b = a
    BY <1>2, <2>1 DEF VerInv, Asks
  <2>2. CASE b # a
    BY <1>2, <2>2 DEF VerInv, Asks
  <2> QED
    BY <2>1, <2>2
<1>4. V!VerTypeOK'
  BY <1>2 DEF VerInv, V!VerTypeOK
<1>5. Numbered' /\ OneInserts' /\ \A w \in Writers : Numbers(w)'
  BY DEF VerInv, Numbered, OneInserts, Inserted, Numbers
<1> QED
  BY <1>2, <1>3, <1>4, <1>5 DEF VerInv

(* Only one writer moves.                                                  *)
LEMMA WritesBy ==
  ASSUME VerInv, NEW w \in Writers, NEW new \in V!Writing \cup {None},
         writing' = [writing EXCEPT ![w] = new],
         new # None =>
           /\ agent # None /\ new.config \notin Invalid /\ new.next <= Len(version) + 1
           /\ new.stage = "inserted" => /\ new.next = Len(version) + 1
                                        /\ \A o \in Writers \ {w} : ~Inserted(o),
         UNCHANGED <<agent, version, asking, runs, deleted>>
  PROVE  VerInv'
<1>1. /\ writing' \in [Writers -> V!Writing \cup {None}] /\ writing'[w] = new
      /\ \A o \in Writers \ {w} : writing'[o] = writing[o]
  BY VerFacts
<1>2. ASSUME NEW o \in Writers PROVE Numbers(o)'
  <2>1. CASE o = w
    BY <1>1, <2>1 DEF Numbers
  <2>2. CASE o # w
    BY <1>1, <2>2 DEF VerInv, Numbers
  <2> QED
    BY <2>1, <2>2
<1>3. OneInserts'
  <2>1. \A o \in Writers \ {w} : Inserted(o)' <=> Inserted(o)
    BY <1>1 DEF Inserted
  <2>2. Inserted(w)' => \A o \in Writers \ {w} : ~Inserted(o)
    BY <1>1 DEF Inserted
  <2> QED
    BY <2>1, <2>2 DEF VerInv, OneInserts
<1>4. V!VerTypeOK'
  BY <1>1 DEF VerInv, V!VerTypeOK
<1>5. Numbered' /\ Agree' /\ \A a \in Askers : Asks(a)'
  BY DEF VerInv, Numbered, Agree, Asks
<1>6. asking' \in [Askers -> (SUBSET (1 .. MaxVersions)) \cup {None}]
  BY DEF VerInv
<1> QED
  BY <1>2, <1>3, <1>4, <1>5, <1>6 DEF VerInv

(* The agent is created, renamed or deleted.                               *)
LEMMA VerAgents ==
  ASSUME VerInv,
         \/ \E c \in Configs : V!CreateAgent(c)
         \/ \E s \in V!AgentStatus : V!UpdateAgent(s)
         \/ V!RemoveAgent
  PROVE  VerInv'
<1>0. /\ MaxVersions \in Nat \ {0} /\ None \notin V!AgentRow /\ deleted \in BOOLEAN
      /\ writing \in [Writers -> V!Writing \cup {None}]
      /\ asking \in [Askers -> (SUBSET (1 .. MaxVersions)) \cup {None}]
      /\ \A a \in Askers : asking[a] = None \/ asking[a] \subseteq 1 .. MaxVersions
      /\ runs \subseteq V!AgentRunRow
      /\ version \in Seq(Configs) /\ Len(version) \in 0 .. MaxVersions
      /\ DOMAIN version = 1 .. Len(version)
  BY VerFacts DEF VerInv, V!VerTypeOK
<1>u. UNCHANGED <<writing, asking>>
  BY DEF V!CreateAgent, V!UpdateAgent, V!RemoveAgent
<1>1. ASSUME NEW c \in Configs, V!CreateAgent(c)
      PROVE  VerInv'
  <2>1. /\ agent = None /\ ~deleted /\ c \notin Invalid
        /\ agent' = [status |-> "draft", currentVersion |-> 1] /\ version' = <<c>>
        /\ UNCHANGED <<runs, deleted>>
    BY <1>1 DEF V!CreateAgent, V!VersionValues
  <2>2. /\ version' \in Seq(Configs) /\ Len(version') = 1 /\ DOMAIN version' = {1}
        /\ version'[1] = c
    BY <2>1
  <2>3. agent' \in V!AgentRow /\ agent' # None /\ agent'.currentVersion = 1
    <3>1. 1 \in 1 .. MaxVersions
      BY <1>0
    <3>2. agent' \in V!AgentRow /\ agent'.currentVersion = 1
      BY <2>1, <3>1 DEF V!AgentRow, V!AgentStatus
    <3> QED
      BY <1>0, <3>2
  <2>4. /\ \A w \in Writers : writing[w] = None
        /\ \A a \in Askers : asking[a] = None
    BY <2>1 DEF VerInv, Numbers, Asks
  <2>5. Agree'
    BY <2>1 DEF VerInv, Agree
  <2>6. Numbered'
    BY <2>1, <2>2, <2>3 DEF Numbered
  <2>7. /\ OneInserts' /\ (\A w \in Writers : Numbers(w)') /\ (\A a \in Askers : Asks(a)')
    BY <1>u, <2>4 DEF OneInserts, Inserted, Numbers, Asks
  <2>8. Len(version') <= MaxVersions
    BY <1>0, <2>2
  <2>9. V!VerTypeOK'
    BY <1>0, <1>u, <2>1, <2>2, <2>3, <2>8 DEF V!VerTypeOK, V!AgentVersionRow
  <2> QED
    BY <1>0, <1>u, <2>5, <2>6, <2>7, <2>9 DEF VerInv
<1>2. ASSUME NEW s \in V!AgentStatus, V!UpdateAgent(s)
      PROVE  VerInv'
  <2>1. /\ agent # None /\ agent' = [agent EXCEPT !.status = s]
        /\ UNCHANGED <<version, runs, deleted>>
    BY <1>2 DEF V!UpdateAgent
  <2>2. /\ agent' \in V!AgentRow /\ agent'.currentVersion = agent.currentVersion
    BY <2>1, VerFacts DEF V!AgentRow
  <2>3. agent' # None
    BY <1>0, <2>2
  <2>4. Numbered' /\ Agree'
    BY <2>1, <2>2, <2>3 DEF VerInv, Numbered, Agree
  <2>5. /\ OneInserts' /\ (\A w \in Writers : Numbers(w)') /\ (\A a \in Askers : Asks(a)')
    BY <1>u, <2>1, <2>3 DEF VerInv, OneInserts, Inserted, Numbers, Asks
  <2>6. V!VerTypeOK'
    BY <1>u, <2>1, <2>2 DEF VerInv, V!VerTypeOK
  <2> QED
    BY <1>0, <1>u, <2>4, <2>5, <2>6 DEF VerInv
<1>3. CASE V!RemoveAgent
  <2>1. /\ \A w \in Writers : ~Inserted(w)
        /\ agent' = None /\ version' = <<>> /\ runs' = {} /\ deleted' = TRUE
    BY <1>3 DEF V!RemoveAgent, Inserted
  <2>2. version' \in Seq(Configs) /\ Len(version') = 0 /\ DOMAIN version' = {}
    BY <2>1
  <2>3. Numbered' /\ Agree'
    BY <2>1, <2>2 DEF Numbered, Agree
  <2>4. ASSUME NEW w \in Writers PROVE ~Inserted(w)' /\ Numbers(w)'
    BY <1>u, <2>1 DEF VerInv, Numbers, Inserted
  <2>5. OneInserts' /\ \A a \in Askers : Asks(a)'
    BY <2>1, <2>4 DEF OneInserts, Asks
  <2>6. deleted' \in BOOLEAN /\ Len(version') <= MaxVersions
    BY <1>0, <2>1, <2>2
  <2>7. V!VerTypeOK'
    BY <1>0, <1>u, <2>1, <2>2, <2>6 DEF V!VerTypeOK, V!AgentVersionRow
  <2> QED
    BY <1>0, <1>u, <2>3, <2>4, <2>5, <2>7 DEF VerInv
<1> QED
  BY <1>1, <1>2, <1>3

(* A writer takes the next number, or gives up.                            *)
LEMMA NextVersionBy ==
  ASSUME VerInv, NEW w \in Writers, NEW c \in Configs, V!NextVersion(w, c)
  PROVE  VerInv'
<1> DEFINE new == [stage |-> "numbered", config |-> c, next |-> Len(version) + 1]
<1>1. /\ agent # None /\ Len(version) < MaxVersions /\ c \notin Invalid
      /\ writing' = [writing EXCEPT ![w] = new]
      /\ UNCHANGED <<agent, version, asking, runs, deleted>>
  BY DEF V!NextVersion, V!VersionValues
<1>2. MaxVersions \in Nat /\ Len(version) \in Nat
  BY VerFacts
<1>3. Len(version) + 1 \in 1 .. MaxVersions
  BY <1>1, <1>2
<1>4. /\ new \in V!Writing /\ new.config = c /\ new.next = Len(version) + 1
      /\ new.stage = "numbered"
  BY <1>3 DEF V!Writing
<1> HIDE DEF new
<1>5. new.next <= Len(version) + 1
  BY <1>2, <1>4
<1> QED
  BY <1>1, <1>4, <1>5, WritesBy

LEMMA VerWrites ==
  ASSUME VerInv, NEW w \in Writers,
         \/ \E c \in Configs : V!PublishVersion(w, c)
         \/ \E n \in 1 .. MaxVersions : V!RestoreVersion(w, n)
         \/ V!InsertVersion(w) \/ V!RollBackVersion(w)
  PROVE  VerInv'
<1>1. CASE \E c \in Configs : V!PublishVersion(w, c)
  BY <1>1, NextVersionBy DEF V!PublishVersion
<1>2. ASSUME NEW n \in 1 .. MaxVersions, V!RestoreVersion(w, n)
      PROVE  VerInv'
  <2> PICK c : c = version[n]
    OBVIOUS
  <2>1. c \in Configs /\ V!NextVersion(w, c)
    BY <1>2, VerFacts DEF V!RestoreVersion
  <2> QED
    BY <2>1, NextVersionBy
<1>3. CASE V!InsertVersion(w)
  <2>1. /\ writing[w] # None /\ writing[w].stage = "numbered" /\ ~V!Waits(w)
        /\ UNCHANGED <<agent, version, asking, runs, deleted>>
    BY <1>3 DEF V!InsertVersion
  <2>2. CASE agent # None /\ V!Unique(w)
    <3> DEFINE new == [writing[w] EXCEPT !.stage = "inserted"]
    <3>1. writing' = [writing EXCEPT ![w] = new]
      BY <1>3, <2>2 DEF V!InsertVersion
    <3>2. writing[w] \in V!Writing /\ writing[w].next \in 1 .. MaxVersions
      BY <2>1, VerFacts
    <3>3. /\ new \in V!Writing /\ new.config = writing[w].config
          /\ new.next = writing[w].next
      BY <3>2 DEF V!Writing
    <3> HIDE DEF new
    <3>4. /\ writing[w].config \notin Invalid /\ writing[w].next <= Len(version) + 1
      BY <2>1, <2>2 DEF VerInv, Numbers
    <3>5. writing[w].next = Len(version) + 1
      <4>1. writing[w].next \notin 1 .. Len(version)
        BY <2>2, VerFacts DEF V!Unique
      <4>2. Len(version) \in Nat /\ writing[w].next \in Nat /\ writing[w].next >= 1
        BY <3>2, VerFacts
      <4> QED
        BY <3>4, <4>1, <4>2
    <3>6. ASSUME NEW o \in Writers \ {w}, Inserted(o) PROVE FALSE
      <4>1. writing[o].next = Len(version) + 1
        BY <3>6 DEF VerInv, Numbers, Inserted
      <4> QED
        BY <2>1, <3>5, <3>6, <4>1 DEF V!Waits, Inserted
    <3> QED
      BY <2>1, <2>2, <3>1, <3>3, <3>4, <3>5, <3>6, WritesBy
  <2>3. CASE ~(agent # None /\ V!Unique(w))
    <3>1. writing' = [writing EXCEPT ![w] = None]
      BY <1>3, <2>3 DEF V!InsertVersion
    <3> QED
      BY <2>1, <3>1, WritesBy
  <2> QED
    BY <2>2, <2>3
<1>4. CASE V!RollBackVersion(w)
  <2>1. /\ writing' = [writing EXCEPT ![w] = None]
        /\ UNCHANGED <<agent, version, asking, runs, deleted>>
    BY <1>4 DEF V!RollBackVersion
  <2> QED
    BY <2>1, WritesBy
<1> QED
  BY <1>1, <1>2, <1>3, <1>4

(* The version that commits is the next one, and nobody else's.            *)
LEMMA VerCommits ==
  ASSUME VerInv, NEW w \in Writers, V!CommitVersion(w)
  PROVE  VerInv'
<1> PICK n : n = Len(version) + 1
  OBVIOUS
<1> PICK c : c = writing[w].config
  OBVIOUS
<1>0. /\ MaxVersions \in Nat \ {0} /\ None \notin V!AgentRow
      /\ version \in Seq(Configs) /\ Len(version) \in Nat
      /\ DOMAIN version = 1 .. Len(version)
      /\ agent # None => agent \in V!AgentRow
      /\ writing \in [Writers -> V!Writing \cup {None}]
      /\ \A m \in DOMAIN version : version[m] \in Configs
  BY VerFacts
<1>1. /\ Inserted(w) /\ agent # None /\ writing[w].next = n /\ n \in 1 .. MaxVersions
      /\ c \in Configs /\ c \notin Invalid
  BY VerFacts DEF VerInv, V!CommitVersion, Numbers, Inserted
<1>2. /\ version' = [i \in 1 .. n |-> IF i = n THEN c ELSE version[i]]
      /\ agent' = [agent EXCEPT !.currentVersion = n]
      /\ writing' = [writing EXCEPT ![w] = None]
      /\ UNCHANGED <<asking, runs, deleted>>
  <2>1. DOMAIN version \cup {n} = 1 .. n
    BY <1>0
  <2> QED
    BY <1>1, <2>1 DEF V!CommitVersion
<1>3. /\ version' \in [1 .. n -> Configs] /\ version'[n] = c
      /\ \A i \in DOMAIN version : i \in DOMAIN version' /\ version'[i] = version[i]
      /\ DOMAIN version' = 1 .. n
  <2>1. ASSUME NEW i \in 1 .. n PROVE (IF i = n THEN c ELSE version[i]) \in Configs
    BY <1>0, <1>1
  <2> QED
    BY <1>0, <1>1, <1>2, <2>1
<1>4. version' \in Seq(Configs) /\ Len(version') = n /\ n \in Nat
  <2>1. n \in Nat
    BY <1>0
  <2>2. version' \in Seq(Configs)
    BY <1>3, <2>1, SeqDef
  <2>3. Len(version') = n
    BY <1>3, <2>1, <2>2, LenProperties
  <2> QED
    BY <2>1, <2>2, <2>3
<1>5. agent' \in V!AgentRow /\ agent'.currentVersion = n
  BY <1>0, <1>1, <1>2 DEF V!AgentRow
<1>6. agent' # None
  BY <1>0, <1>5
<1>7. /\ writing' \in [Writers -> V!Writing \cup {None}] /\ writing'[w] = None
      /\ \A o \in Writers \ {w} : writing'[o] = writing[o] /\ ~Inserted(o)
  BY <1>0, <1>1, <1>2 DEF VerInv, OneInserts
<1>8. Numbered'
  <2>1. ~deleted
    BY <1>1 DEF VerInv, Numbered
  <2>2. \A i \in DOMAIN version' : version'[i] \notin Invalid
    <3>1. ASSUME NEW i \in 1 .. n PROVE version'[i] \notin Invalid
      <4>1. CASE i = n
        BY <1>1, <1>3, <4>1
      <4>2. CASE i # n
        <5>1. i \in DOMAIN version
          BY <1>0, <4>2
        <5> QED
          BY <1>3, <5>1 DEF VerInv, Numbered
      <4> QED
        BY <4>1, <4>2
    <3> QED
      BY <1>3, <3>1
  <2> QED
    BY <1>2, <1>4, <1>5, <2>1, <2>2 DEF Numbered
<1>9. Agree'
  BY <1>2, <1>3, <1>6 DEF VerInv, Agree
<1>10. ASSUME NEW o \in Writers PROVE Numbers(o)' /\ ~Inserted(o)'
  <2>1. CASE o = w
    BY <1>7, <2>1 DEF Numbers, Inserted
  <2>2. CASE o # w /\ writing[o] # None
    <3>1. /\ writing'[o] = writing[o] /\ writing[o].next <= n
          /\ writing[o].config \notin Invalid /\ ~Inserted(o)
      BY <1>1, <1>7, <2>2 DEF VerInv, Numbers
    <3>2. writing[o].next \in Nat
      BY <2>2, VerFacts
    <3>3. writing[o].next <= Len(version') + 1
      BY <1>4, <3>1, <3>2
    <3> QED
      BY <1>6, <2>2, <3>1, <3>3 DEF Numbers, Inserted
  <2>3. CASE o # w /\ writing[o] = None
    BY <1>7, <2>3 DEF Numbers, Inserted
  <2> QED
    BY <2>1, <2>2, <2>3
<1>11. ASSUME NEW a \in Askers PROVE Asks(a)'
  BY <1>1, <1>2, <1>3, <1>6 DEF VerInv, Asks
<1>12. V!VerTypeOK'
  <2>1. Len(version') <= MaxVersions
    BY <1>0, <1>1, <1>4
  <2> QED
    BY <1>2, <1>4, <1>5, <1>7, <2>1 DEF VerInv, V!VerTypeOK, V!AgentVersionRow
<1>13. OneInserts'
  BY <1>10 DEF OneInserts
<1>14. asking' \in [Askers -> (SUBSET (1 .. MaxVersions)) \cup {None}]
  BY <1>2 DEF VerInv
<1> QED
  BY <1>8, <1>9, <1>10, <1>11, <1>12, <1>13, <1>14 DEF VerInv

(* A run is queued for the current version, or for several that are.       *)
LEMMA VerAsks ==
  ASSUME VerInv, NEW a \in Askers,
         \/ V!QueueRun(a) \/ V!AskerFails(a)
         \/ \E ns \in SUBSET (1 .. MaxVersions) : V!CompareVersions(a, ns)
  PROVE  VerInv'
<1>0. /\ runs \subseteq V!AgentRunRow /\ DOMAIN version = 1 .. Len(version)
      /\ Len(version) \in 0 .. MaxVersions
  BY VerFacts DEF VerInv, V!VerTypeOK
<1>1. UNCHANGED <<agent, version, writing, runs, deleted>>
  BY DEF V!QueueRun, V!AskerFails, V!CompareVersions
<1>2. Agree'
  BY <1>1 DEF VerInv, Agree
<1>3. CASE V!QueueRun(a)
  <2> PICK new : new = {agent.currentVersion}
    OBVIOUS
  <2>1. agent # None /\ asking' = [asking EXCEPT ![a] = new]
    BY <1>3 DEF V!QueueRun
  <2>2. /\ agent.currentVersion \in 1 .. MaxVersions /\ agent.currentVersion = Len(version)
    BY <2>1, VerFacts
  <2>3. new \in SUBSET (1 .. MaxVersions) /\ new \subseteq DOMAIN version
    BY <1>0, <2>2
  <2> QED
    BY <1>0, <1>1, <1>2, <2>1, <2>3, AskedBy
<1>4. CASE V!AskerFails(a)
  <2>1. asking' = [asking EXCEPT ![a] = None]
    BY <1>4 DEF V!AskerFails
  <2> QED
    BY <1>0, <1>1, <1>2, <2>1, AskedBy
<1>5. ASSUME NEW ns \in SUBSET (1 .. MaxVersions), V!CompareVersions(a, ns)
      PROVE  VerInv'
  <2>1. agent # None /\ ns \subseteq DOMAIN version /\ asking' = [asking EXCEPT ![a] = ns]
    BY <1>5 DEF V!CompareVersions
  <2> QED
    BY <1>0, <1>1, <1>2, <2>1, AskedBy
<1> QED
  BY <1>3, <1>4, <1>5

(* A run is inserted with what its version holds, and queued.              *)
LEMMA VerRuns ==
  ASSUME VerInv, NEW a \in Askers, NEW n \in 1 .. MaxVersions,
         V!InsertRun(a, n) \/ V!EnqueueRun(a, n)
  PROVE  VerInv'
<1>0. /\ runs \subseteq V!AgentRunRow /\ UNCHANGED <<agent, version, writing, deleted>>
      /\ asking[a] # None /\ n \in asking[a]
      /\ asking \in [Askers -> (SUBSET (1 .. MaxVersions)) \cup {None}]
  BY DEF VerInv, V!VerTypeOK, V!InsertRun, V!EnqueueRun
<1>1. CASE V!InsertRun(a, n)
  <2> PICK kind : kind = V!Kind(a)
    OBVIOUS
  <2> PICK c : c = version[n]
    OBVIOUS
  <2> DEFINE r == [agentVersion |-> n, config |-> c, queued |-> FALSE, trigger |-> kind,
                   by |-> a]
  <2>1. agent # None /\ runs' = runs \cup {r} /\ UNCHANGED asking
    BY <1>1 DEF V!InsertRun
  <2>2. kind \in {"manual", "comparison"}
    BY DEF V!Kind
  <2>3. n \in DOMAIN version /\ c \in Configs
    BY <1>0, <2>1, VerFacts DEF VerInv, Asks
  <2>4. r \in V!AgentRunRow /\ r.agentVersion = n /\ r.config = c
    BY <2>2, <2>3 DEF V!AgentRunRow
  <2> HIDE DEF r
  <2>5. runs' \subseteq V!AgentRunRow
    BY <1>0, <2>1, <2>4
  <2>6. Agree'
    BY <1>0, <2>1, <2>3, <2>4 DEF VerInv, Agree
  <2> PICK new : new = asking[a]
    OBVIOUS
  <2>7. asking' = [asking EXCEPT ![a] = new] /\ new \in (SUBSET (1 .. MaxVersions)) \cup {None}
    BY <1>0, <2>1
  <2> QED
    BY <1>0, <2>5, <2>6, <2>7, AskedBy
<1>2. CASE V!EnqueueRun(a, n)
  <2>1. PICK r \in runs : runs' = (runs \ {r}) \cup {[r EXCEPT !.queued = TRUE]}
    BY <1>2 DEF V!EnqueueRun
  <2> DEFINE s == [r EXCEPT !.queued = TRUE]
  <2>2. r \in V!AgentRunRow
    BY <1>0
  <2>3. /\ s \in V!AgentRunRow /\ s.agentVersion = r.agentVersion /\ s.config = r.config
        /\ runs' = (runs \ {r}) \cup {s}
    BY <2>1, <2>2 DEF V!AgentRunRow
  <2> HIDE DEF s
  <2>4. runs' \subseteq V!AgentRunRow
    BY <1>0, <2>3
  <2>5. Agree'
    BY <1>0, <2>3 DEF VerInv, Agree
  <2> PICK new : new = IF asking[a] = {n} THEN None ELSE asking[a] \ {n}
    OBVIOUS
  <2>6. asking' = [asking EXCEPT ![a] = new]
    BY <1>2 DEF V!EnqueueRun
  <2>7. /\ new \in (SUBSET (1 .. MaxVersions)) \cup {None}
        /\ new # None => new \subseteq asking[a]
    BY <1>0
  <2> QED
    BY <1>0, <2>4, <2>5, <2>6, <2>7, AskedBy
<1> QED
  BY <1>1, <1>2

LEMMA VerInvStep ==
  ASSUME VerInv, V!VerNext \/ UNCHANGED verVars
  PROVE  VerInv'
<1>1. CASE UNCHANGED verVars
  <2>1. UNCHANGED <<agent, version, writing, asking, runs, deleted>>
    BY <1>1 DEF verVars
  <2>2. V!VerTypeOK' /\ asking' \in [Askers -> (SUBSET (1 .. MaxVersions)) \cup {None}]
    BY <2>1 DEF VerInv, V!VerTypeOK
  <2>3. Numbered' /\ Agree' /\ OneInserts'
    BY <2>1 DEF VerInv, Numbered, Agree, OneInserts, Inserted
  <2>4. (\A w \in Writers : Numbers(w)') /\ (\A a \in Askers : Asks(a)')
    BY <2>1 DEF VerInv, Numbers, Asks
  <2> QED
    BY <2>2, <2>3, <2>4 DEF VerInv
<1>2. CASE V!VerNext
  BY <1>2, VerAgents, VerWrites, VerCommits, VerAsks, VerRuns DEF V!VerNext
<1> QED
  BY <1>1, <1>2

LEMMA VerInvIsEnough == VerInv => V!VersionsHold
  BY DEF VerInv, Numbered, Agree, V!VersionsHold

--------------------------------------------------------------------------------
(* A customer looks at whole dollars and at seats.                         *)
PriceInv == amountUsd \in Nat /\ seats \in Nat \ {0}

LEMMA PriceInvInit == MCInit => PriceInv
  BY DEF MCInit, P!Init, P!CUSTOM_TOPUP_MIN_USD, PriceInv

LEMMA PriceInvStep ==
  ASSUME PriceInv, P!Next \/ UNCHANGED plaVars
  PROVE  PriceInv'
  BY DEF PriceInv, P!Next, P!OneDollarMore, P!OneSeatMore, plaVars

--------------------------------------------------------------------------------
(* A custom amount is converted at the price of the small pack, and the    *)
(* larger packs are cheaper.                                               *)
LEMMA Converted ==
  ASSUME PriceInv, NEW c, c = P!creditsForCustomTopupUsd(amountUsd)
  PROVE  /\ c \in Nat /\ c * 39 <= amountUsd * 1000000
         /\ (c + 1) * 39 > amountUsd * 1000000
<1>1. P!CUSTOM_TOPUP_USD_PER_MILLION_CREDITS = 39
  BY DEF P!CUSTOM_TOPUP_USD_PER_MILLION_CREDITS, P!TOPUP_PACKS
<1>2. c = (amountUsd * 1000000) \div 39
  BY <1>1 DEF P!creditsForCustomTopupUsd
<1> QED
  BY <1>2 DEF PriceInv

LEMMA PriceRounds == PriceInv => P!RoundsDown
<1> SUFFICES ASSUME PriceInv PROVE P!RoundsDown
  OBVIOUS
<1> PICK c : c = P!creditsForCustomTopupUsd(amountUsd)
  OBVIOUS
<1>1. /\ c * 39 <= amountUsd * 1000000 /\ (c + 1) * 39 > amountUsd * 1000000
  BY Converted
<1>2. P!CUSTOM_TOPUP_USD_PER_MILLION_CREDITS = 39
  BY DEF P!CUSTOM_TOPUP_USD_PER_MILLION_CREDITS, P!TOPUP_PACKS
<1> QED
  BY <1>1, <1>2 DEF P!RoundsDown

LEMMA PriceUndercuts == PriceInv => P!PacksNeverUndercut
<1> SUFFICES ASSUME PriceInv PROVE P!PacksNeverUndercut
  OBVIOUS
<1> PICK c : c = P!creditsForCustomTopupUsd(amountUsd)
  OBVIOUS
<1>1. c \in Nat /\ c * 39 <= amountUsd * 1000000 /\ amountUsd \in Nat
  BY Converted DEF PriceInv
<1>2. /\ DOMAIN P!TOPUP_PACKS = {"p1m", "p5m", "p15m"}
      /\ P!TOPUP_PACKS["p1m"].credits = 1000000 /\ P!TOPUP_PACKS["p1m"].priceUsd = 39
      /\ P!TOPUP_PACKS["p5m"].credits = 5000000 /\ P!TOPUP_PACKS["p5m"].priceUsd = 175
      /\ P!TOPUP_PACKS["p15m"].credits = 15000000 /\ P!TOPUP_PACKS["p15m"].priceUsd = 450
  BY DEF P!TOPUP_PACKS
<1>3. amountUsd % 39 = 0 => c <= (amountUsd \div 39) * 1000000
  BY <1>1
<1>4. amountUsd % 175 = 0 => c <= (amountUsd \div 175) * 5000000
  BY <1>1
<1>5. amountUsd % 450 = 0 => c <= (amountUsd \div 450) * 15000000
  BY <1>1
<1> QED
  BY <1>2, <1>3, <1>4, <1>5 DEF P!PacksNeverUndercut

--------------------------------------------------------------------------------
(* The catalogue, one plan after the other.                                *)
LEMMA PlansAre ==
  /\ DOMAIN P!PLAN_NAMES = 1 .. 5
  /\ P!PLAN_NAMES[1] = "free" /\ P!PLAN_NAMES[2] = "starter" /\ P!PLAN_NAMES[3] = "pro"
  /\ P!PLAN_NAMES[4] = "team" /\ P!PLAN_NAMES[5] = "enterprise"
  BY DEF P!PLAN_NAMES

LEMMA LimitsAre ==
  /\ P!planLimits("free").seatLimit = 1 /\ P!planLimits("starter").seatLimit = 1
  /\ P!planLimits("pro").seatLimit = 25 /\ P!planLimits("team").seatLimit = 25
  /\ P!planLimits("enterprise").seatLimit = -1
  /\ P!planLimits("free").widgetLimit = 0 /\ P!planLimits("starter").widgetLimit = 1
  /\ P!planLimits("pro").widgetLimit = 1 /\ P!planLimits("team").widgetLimit = 5
  /\ P!planLimits("enterprise").widgetLimit = -1
  /\ P!planLimits("free").knowledgeBaseLimit = 1 /\ P!planLimits("starter").knowledgeBaseLimit = 3
  /\ P!planLimits("pro").knowledgeBaseLimit = 10 /\ P!planLimits("team").knowledgeBaseLimit = -1
  /\ P!planLimits("enterprise").knowledgeBaseLimit = -1
  /\ P!planLimits("free").agentLimit = 2 /\ P!planLimits("starter").agentLimit = 5
  /\ P!planLimits("pro").agentLimit = 20 /\ P!planLimits("team").agentLimit = -1
  /\ P!planLimits("enterprise").agentLimit = -1
  BY DEF P!planLimits, P!PLAN_LIMITS, P!Null

(* From a plan to one after it every number is kept or raised.             *)
LEMMA LadderOfLimits ==
  ASSUME NEW i \in 1 .. 5, NEW j \in 1 .. 5, i < j,
         NEW limit \in {"knowledgeBaseLimit", "agentLimit", "seatLimit", "widgetLimit"}
  PROVE  P!AtMost(P!planLimits(P!PLAN_NAMES[i])[limit], P!planLimits(P!PLAN_NAMES[j])[limit])
<1>1. CASE limit = "seatLimit"
  BY <1>1, PlansAre, LimitsAre DEF P!AtMost, P!Null
<1>2. CASE limit = "widgetLimit"
  BY <1>2, PlansAre, LimitsAre DEF P!AtMost, P!Null
<1>3. CASE limit = "knowledgeBaseLimit"
  BY <1>3, PlansAre, LimitsAre DEF P!AtMost, P!Null
<1>4. CASE limit = "agentLimit"
  BY <1>4, PlansAre, LimitsAre DEF P!AtMost, P!Null
<1> QED
  BY <1>1, <1>2, <1>3, <1>4

(* From a plan to one after it no feature is lost.                         *)
LEMMA LadderOfFeatures ==
  ASSUME NEW i \in 1 .. 5, NEW j \in 1 .. 5, i < j,
         NEW feature \in {"apiKeysEnabled", "dataSourcesEnabled", "automationEnabled",
                          "topupsEnabled"},
         P!planLimits(P!PLAN_NAMES[i])[feature]
  PROVE  P!planLimits(P!PLAN_NAMES[j])[feature]
<1>1. j = 2 \/ j = 3 \/ j = 4 \/ j = 5
  OBVIOUS
<1>2. /\ P!planLimits("pro")[feature] /\ P!planLimits("team")[feature]
      /\ P!planLimits("enterprise")[feature]
  BY DEF P!planLimits, P!PLAN_LIMITS
<1>3. j = 2 => i = 1
  OBVIOUS
<1>4. ~P!planLimits("free")[feature]
  BY DEF P!planLimits, P!PLAN_LIMITS
<1> QED
  BY <1>1, <1>2, <1>3, <1>4, PlansAre

LEMMA PriceLadder == PriceInv => P!UpgradeTakesNothingAway
<1> SUFFICES ASSUME PriceInv, NEW i \in 1 .. 5, NEW j \in 1 .. 5, i < j
             PROVE  /\ \A limit \in P!CountedLimits \cup {"seatLimit", "widgetLimit"} :
                         P!AtMost(P!planLimits(P!PLAN_NAMES[i])[limit],
                                  P!planLimits(P!PLAN_NAMES[j])[limit])
                    /\ \A feature \in P!GatedFeatures \cup {"topupsEnabled"} :
                         P!planLimits(P!PLAN_NAMES[i])[feature]
                           => P!planLimits(P!PLAN_NAMES[j])[feature]
                    /\ P!Fits(P!PLAN_NAMES[i]) => P!Fits(P!PLAN_NAMES[j])
  BY PlansAre DEF P!UpgradeTakesNothingAway
<1>1. \A limit \in P!CountedLimits \cup {"seatLimit", "widgetLimit"} :
        P!AtMost(P!planLimits(P!PLAN_NAMES[i])[limit], P!planLimits(P!PLAN_NAMES[j])[limit])
  BY LadderOfLimits DEF P!CountedLimits
<1>2. \A feature \in P!GatedFeatures \cup {"topupsEnabled"} :
        P!planLimits(P!PLAN_NAMES[i])[feature] => P!planLimits(P!PLAN_NAMES[j])[feature]
  BY LadderOfFeatures DEF P!GatedFeatures
<1>3. P!Fits(P!PLAN_NAMES[i]) => P!Fits(P!PLAN_NAMES[j])
  BY PlansAre, LimitsAre DEF P!Fits, P!AtMost, P!Null, PriceInv
<1> QED
  BY <1>1, <1>2, <1>3

--------------------------------------------------------------------------------
(* The first plan of the list among some, as Array.prototype.find has it.  *)
LEMMA FirstPlanIs ==
  ASSUME NEW among, NEW k \in 1 .. 5, P!PLAN_NAMES[k] \in among,
         \A j \in 1 .. 5 : j < k => P!PLAN_NAMES[j] \notin among
  PROVE  P!FirstPlan(among) = P!PLAN_NAMES[k]
<1> DEFINE places == {i \in DOMAIN P!PLAN_NAMES : P!PLAN_NAMES[i] \in among}
           least == CHOOSE i \in places : \A j \in places : i <= j
<1>1. k \in places /\ places \subseteq 1 .. 5 /\ \A j \in places : k <= j
  BY PlansAre
<1>2. least \in places /\ \A j \in places : least <= j
  BY <1>1
<1>3. least = k
  BY <1>1, <1>2
<1>4. P!FirstPlan(among) = P!PLAN_NAMES[least]
  BY <1>1 DEF P!FirstPlan
<1> QED
  BY <1>3, <1>4

(* What a plan costs for one seat.                                         *)
LEMMA PricesAre ==
  /\ P!monthlyPriceUsd("starter", 1) = 9 /\ P!monthlyPriceUsd("pro", 1) = 29
  /\ P!monthlyPriceUsd("team", 1) = 99
  /\ \A n \in Nat : P!monthlyPriceUsd("enterprise", n) = -1
<1>1. P!monthlyPriceUsd("starter", 1) = 9
  BY DEF P!monthlyPriceUsd, P!planLimits, P!PLAN_LIMITS, P!Null, P!OrZero, P!AtLeastOne
<1>2. P!monthlyPriceUsd("pro", 1) = 29
  BY DEF P!monthlyPriceUsd, P!planLimits, P!PLAN_LIMITS, P!Null, P!OrZero, P!AtLeastOne
<1>3. P!monthlyPriceUsd("team", 1) = 99
  BY DEF P!monthlyPriceUsd, P!planLimits, P!PLAN_LIMITS, P!Null, P!OrZero, P!AtLeastOne
<1>4. \A n \in Nat : P!monthlyPriceUsd("enterprise", n) = -1
  BY DEF P!monthlyPriceUsd, P!planLimits, P!PLAN_LIMITS, P!Null, P!OrZero, P!AtLeastOne
<1> QED
  BY <1>1, <1>2, <1>3, <1>4

(* The plan a refusal names is the next one that has more.                 *)
LEMMA RaisingIs ==
  ASSUME NEW limit \in P!CountedLimits
  PROVE  /\ P!planRaisingLimit("free", limit) = "starter"
         /\ P!planRaisingLimit("starter", limit) = "pro"
         /\ P!planRaisingLimit("pro", limit) = "team"
         /\ P!planRaisingLimit("team", limit) = "none"
         /\ P!planRaisingLimit("enterprise", limit) = "none"
<1> DEFINE more(v) == {p \in P!Plans : \/ P!planLimits(p)[limit] = P!Null
                                       \/ P!planLimits(p)[limit] > v}
<1>1. limit \in {"knowledgeBaseLimit", "agentLimit"}
  BY DEF P!CountedLimits
<1> PICK v : v = [p \in P!Plans |-> P!planLimits(p)[limit]]
  OBVIOUS
<1>2. /\ v["free"] \in 1 .. 2 /\ v["starter"] \in 3 .. 5 /\ v["pro"] \in 10 .. 20
      /\ v["team"] = -1 /\ v["enterprise"] = -1
      /\ \A p \in P!Plans : P!planLimits(p)[limit] = v[p]
  BY <1>1, LimitsAre DEF P!Plans
<1>3. P!Plans = {"free", "starter", "pro", "team", "enterprise"} /\ P!Null = -1
  BY DEF P!Plans, P!Null
<1>4. P!planRaisingLimit("free", limit) = "starter"
  <2>1. P!planRaisingLimit("free", limit) = P!FirstPlan(more(v["free"]))
    BY <1>2, <1>3 DEF P!planRaisingLimit
  <2>2. "free" \notin more(v["free"]) /\ "starter" \in more(v["free"])
    BY <1>2, <1>3
  <2> HIDE DEF more
  <2>3. P!FirstPlan(more(v["free"])) = P!PLAN_NAMES[2]
    <3>1. \A j \in 1 .. 5 : j < 2 => P!PLAN_NAMES[j] \notin more(v["free"])
      BY <2>2, PlansAre
    <3>2. P!PLAN_NAMES[2] \in more(v["free"])
      BY <2>2, PlansAre
    <3> QED
      BY <3>1, <3>2, FirstPlanIs
  <2> QED
    BY <2>1, <2>3, PlansAre
<1>5. P!planRaisingLimit("starter", limit) = "pro"
  <2>1. P!planRaisingLimit("starter", limit) = P!FirstPlan(more(v["starter"]))
    BY <1>2, <1>3 DEF P!planRaisingLimit
  <2>2. /\ "free" \notin more(v["starter"]) /\ "starter" \notin more(v["starter"])
        /\ "pro" \in more(v["starter"])
    BY <1>2, <1>3
  <2> HIDE DEF more
  <2>3. P!FirstPlan(more(v["starter"])) = P!PLAN_NAMES[3]
    <3>1. \A j \in 1 .. 5 : j < 3 => P!PLAN_NAMES[j] \notin more(v["starter"])
      BY <2>2, PlansAre
    <3>2. P!PLAN_NAMES[3] \in more(v["starter"])
      BY <2>2, PlansAre
    <3> QED
      BY <3>1, <3>2, FirstPlanIs
  <2> QED
    BY <2>1, <2>3, PlansAre
<1>6. P!planRaisingLimit("pro", limit) = "team"
  <2>1. P!planRaisingLimit("pro", limit) = P!FirstPlan(more(v["pro"]))
    BY <1>2, <1>3 DEF P!planRaisingLimit
  <2>2. /\ "free" \notin more(v["pro"]) /\ "starter" \notin more(v["pro"])
        /\ "pro" \notin more(v["pro"]) /\ "team" \in more(v["pro"])
    BY <1>2, <1>3
  <2> HIDE DEF more
  <2>3. P!FirstPlan(more(v["pro"])) = P!PLAN_NAMES[4]
    <3>1. \A j \in 1 .. 5 : j < 4 => P!PLAN_NAMES[j] \notin more(v["pro"])
      BY <2>2, PlansAre
    <3>2. P!PLAN_NAMES[4] \in more(v["pro"])
      BY <2>2, PlansAre
    <3> QED
      BY <3>1, <3>2, FirstPlanIs
  <2> QED
    BY <2>1, <2>3, PlansAre
<1>7. /\ P!planRaisingLimit("team", limit) = "none"
      /\ P!planRaisingLimit("enterprise", limit) = "none"
  BY <1>2, <1>3 DEF P!planRaisingLimit
<1> QED
  BY <1>4, <1>5, <1>6, <1>7

LEMMA PriceNames == PriceInv => P!NamesTheCheapestUpgrade
<1> SUFFICES ASSUME PriceInv, NEW plan \in P!Plans, NEW limit \in P!CountedLimits,
                    P!Fits(plan), NEW named, named = P!planRaisingLimit(plan, limit),
                    NEW helpful, helpful = {p \in P!Plans : P!Raises(p, plan, limit)}
             PROVE  IF named = "none" THEN helpful = {}
                    ELSE /\ named \in helpful
                         /\ \A p \in helpful :
                              P!Fits(p) => P!Fits(named) /\ P!NotDearer(named, p)
  BY DEF P!NamesTheCheapestUpgrade
<1>1. limit \in {"knowledgeBaseLimit", "agentLimit"} /\ seats \in Nat /\ seats >= 1
  BY DEF P!CountedLimits, PriceInv
<1>2. P!Plans = {"free", "starter", "pro", "team", "enterprise"} /\ P!Null = -1
  BY DEF P!Plans, P!Null
<1> PICK v : v = [p \in P!Plans |-> P!planLimits(p)[limit]]
  OBVIOUS
<1>3. /\ v["free"] \in 1 .. 2 /\ v["starter"] \in 3 .. 5 /\ v["pro"] \in 10 .. 20
      /\ v["team"] = -1 /\ v["enterprise"] = -1
      /\ \A p \in P!Plans : P!planLimits(p)[limit] = v[p]
  BY <1>1, <1>2, LimitsAre
<1>4. \A p \in P!Plans :
        p \in helpful <=> v[plan] # -1 /\ (v[p] = -1 \/ ~(v[p] <= v[plan]))
  BY <1>2, <1>3 DEF P!Raises, P!AtMost
<1>5. CASE plan = "team" \/ plan = "enterprise"
  <2>1. named = "none" /\ v[plan] = -1
    BY <1>3, <1>5, RaisingIs
  <2>2. helpful = {}
    BY <1>4, <2>1
  <2> QED
    BY <2>1, <2>2
<1>6. CASE plan = "free"
  <2>1. seats = 1
    BY <1>1, <1>2, <1>6, LimitsAre DEF P!Fits, P!AtMost
  <2>2. named = "starter" /\ "starter" \in helpful /\ "free" \notin helpful
    BY <1>2, <1>3, <1>4, <1>6, RaisingIs
  <2>3. P!Fits("starter")
    BY <2>1, LimitsAre DEF P!Fits, P!AtMost
  <2>4. \A p \in helpful : P!NotDearer("starter", p)
    BY <1>2, <2>1, <2>2, PricesAre DEF P!NotDearer, P!AtMost
  <2> QED
    BY <2>2, <2>3, <2>4
<1>7. CASE plan = "starter"
  <2>1. seats = 1
    BY <1>1, <1>2, <1>7, LimitsAre DEF P!Fits, P!AtMost
  <2>2. named = "pro" /\ "pro" \in helpful /\ "free" \notin helpful /\ "starter" \notin helpful
    BY <1>2, <1>3, <1>4, <1>7, RaisingIs
  <2>3. P!Fits("pro")
    BY <1>2, <2>1, LimitsAre DEF P!Fits, P!AtMost
  <2>4. \A p \in helpful : P!NotDearer("pro", p)
    BY <1>2, <2>1, <2>2, PricesAre DEF P!NotDearer, P!AtMost
  <2> QED
    BY <2>2, <2>3, <2>4
<1>8. CASE plan = "pro"
  <2>1. seats <= 25
    BY <1>1, <1>2, <1>8, LimitsAre DEF P!Fits, P!AtMost
  <2>2. /\ named = "team" /\ "team" \in helpful
        /\ "free" \notin helpful /\ "starter" \notin helpful /\ "pro" \notin helpful
    BY <1>2, <1>3, <1>4, <1>8, RaisingIs
  <2>3. P!Fits("team")
    BY <1>1, <1>2, <2>1, LimitsAre DEF P!Fits, P!AtMost
  <2>4. P!monthlyPriceUsd("team", seats) \in Int /\ P!monthlyPriceUsd("team", seats) # -1
    BY <1>1 DEF P!monthlyPriceUsd, P!planLimits, P!PLAN_LIMITS, P!Null, P!OrZero
  <2>5. P!NotDearer("team", "team") /\ P!NotDearer("team", "enterprise")
    BY <1>1, <1>2, <2>4, PricesAre DEF P!NotDearer, P!AtMost
  <2>6. \A p \in helpful : p = "team" \/ p = "enterprise"
    BY <1>2, <2>2
  <2> QED
    BY <2>2, <2>3, <2>5, <2>6
<1> QED
  BY <1>2, <1>5, <1>6, <1>7, <1>8

(* The rules of the catalogue hold for whatever amount and seats.          *)
LEMMA PriceInvIsEnough ==
  PriceInv => /\ P!RoundsDown /\ P!PacksNeverUndercut
              /\ P!NamesTheCheapestUpgrade /\ P!UpgradeTakesNothingAway
  BY PriceRounds, PriceUndercuts, PriceNames, PriceLadder

--------------------------------------------------------------------------------
USE ProAssumption

(* Whoever has read the code holds its row, and what it read is still so,  *)
(* but for the expiry, which no lock stops.  One that has claimed a        *)
(* redemption found the code active and the workspace without one.         *)
Holds(r) ==
  redeeming[r] # None =>
    /\ lock = r /\ code # None
    /\ redeeming[r].promo.redeemedCount = code.redeemedCount
    /\ redeeming[r].promo.maxRedemptions = code.maxRedemptions
    /\ redeeming[r].claimed => MayRedeem(r)

ProInv ==
  /\ CodesAreHonoured /\ IsFiniteSet(redemption)
  /\ lock = "admin" => code # None
  /\ \A r \in Redeemers : Holds(r)

LEMMA ProInvInit == ProInit => ProInv
BY FS_EmptySet DEF ProInit, ProInv, CodesAreHonoured, ProTypeOK, Holds

\* A request other than the one that moves has read nothing while it holds.
LEMMA OnlyTheHolder ==
  ASSUME ProInv, NEW r \in Redeemers, redeeming[r] # None
  PROVE  /\ lock = r /\ code \in PromoCodeRow /\ redeeming[r] \in Redeeming
         /\ \A q \in Redeemers : q # r => redeeming[q] = None
BY DEF ProInv, Holds, CodesAreHonoured, ProTypeOK

\* While the row is free, or an administrator has it, nobody has read it.
LEMMA NobodyHolds ==
  ASSUME ProInv, lock = None \/ lock = "admin" \/ code = None, NEW r \in Redeemers
  PROVE  redeeming[r] = None
BY DEF ProInv, Holds

LEMMA ProInvStep == ProInv /\ [ProNext]_proVars => ProInv'
<1> SUFFICES ASSUME ProInv, [ProNext]_proVars PROVE ProInv'
  OBVIOUS
<1>t. ProTypeOK /\ CodesAreHonoured /\ IsFiniteSet(redemption)
  BY DEF ProInv, CodesAreHonoured
<1>r. code # None => code \in PromoCodeRow
  BY <1>t DEF ProTypeOK
<1>1. ASSUME NEW n \in MaxRedemptions, Create(n) PROVE ProInv'
  <2>1. code' \in PromoCodeRow /\ code'.redeemedCount = 0 /\ code'.maxRedemptions = n
    BY <1>1 DEF Create, PromoCodeRow
  <2>2. redemption = {} /\ Cardinality(redemption) = 0
    BY <1>1, <1>t, FS_EmptySet DEF Create, CodesAreHonoured
  <2>3. CodesAreHonoured'
    BY <1>1, <1>t, <2>1, <2>2 DEF Create, CodesAreHonoured, ProTypeOK
  <2>4. \A r \in Redeemers : redeeming'[r] = None
    BY <1>1, NobodyHolds DEF Create
  <2>5. QED
    BY <1>1, <1>t, <2>1, <2>3, <2>4 DEF Create, ProInv, Holds
<1>2. CASE Expire
  <2>1. /\ code \in PromoCodeRow /\ code' \in PromoCodeRow
        /\ code'.redeemedCount = code.redeemedCount
        /\ code'.maxRedemptions = code.maxRedemptions
    BY <1>2, <1>r DEF Expire, PromoCodeRow
  <2>2. CodesAreHonoured'
    BY <1>2, <1>t, <2>1 DEF Expire, CodesAreHonoured, ProTypeOK
  <2>3. ASSUME NEW r \in Redeemers PROVE Holds(r)'
    BY <1>2, <2>1 DEF Expire, ProInv, Holds, MayRedeem, StatusOf
  <2>4. QED
    BY <1>2, <1>t, <2>1, <2>2, <2>3 DEF Expire, ProInv
<1>3. ASSUME NEW active \in BOOLEAN, SetActive(active) PROVE ProInv'
  <2>1. /\ code \in PromoCodeRow /\ code' \in PromoCodeRow
        /\ code'.redeemedCount = code.redeemedCount
        /\ code'.maxRedemptions = code.maxRedemptions
    BY <1>3, <1>r DEF SetActive, PromoCodeRow
  <2>2. CodesAreHonoured'
    BY <1>3, <1>t, <2>1 DEF SetActive, CodesAreHonoured, ProTypeOK
  <2>3. \A r \in Redeemers : redeeming'[r] = None
    BY <1>3, NobodyHolds DEF SetActive
  <2>4. QED
    BY <1>3, <1>t, <2>1, <2>2, <2>3 DEF SetActive, ProInv, Holds
<1>4. CASE LockById
  <2>1. \A r \in Redeemers : redeeming'[r] = None
    BY <1>4, NobodyHolds DEF LockById
  <2>2. CodesAreHonoured'
    BY <1>4, <1>t DEF LockById, CodesAreHonoured, ProTypeOK
  <2>3. QED
    BY <1>4, <1>t, <2>1, <2>2 DEF LockById, ProInv, Holds
<1>5. CASE Remove
  <2>1. \A r \in Redeemers : redeeming'[r] = None
    BY <1>5, NobodyHolds DEF Remove
  <2>2. code \in PromoCodeRow /\ code.redeemedCount = Cardinality(redemption)
    BY <1>5, <1>r, <1>t DEF Remove, ProInv, CodesAreHonoured
  <2>3. CASE code.redeemedCount > 0
    BY <1>5, <1>t, <2>1, <2>3 DEF Remove, ProInv, Holds, CodesAreHonoured, ProTypeOK
  <2>4. CASE ~(code.redeemedCount > 0)
    <3>1. redemption = {}
      BY <1>t, <2>2, <2>4, FS_EmptySet DEF PromoCodeRow
    <3>2. QED
      BY <1>5, <1>t, <2>1, <2>4, <3>1, FS_EmptySet
      DEF Remove, ProInv, Holds, CodesAreHonoured, ProTypeOK
  <2>5. QED
    BY <2>3, <2>4
<1>6. ASSUME NEW r \in Redeemers, NEW w \in Workspaces, LockByCode(r, w) PROVE ProInv'
  <2>1. \A q \in Redeemers : redeeming[q] = None
    BY <1>6, NobodyHolds DEF LockByCode
  <2>2. CASE code = None
    BY <1>6, <1>t, <2>1, <2>2 DEF LockByCode, ProInv, Holds, CodesAreHonoured, ProTypeOK
  <2>3. CASE code # None
    <3>1. [workspace |-> w, promo |-> code, claimed |-> FALSE] \in Redeeming
      BY <1>r, <2>3 DEF Redeeming
    <3>2. redeeming' = [redeeming EXCEPT
                          ![r] = [workspace |-> w, promo |-> code, claimed |-> FALSE]]
          /\ lock' = r /\ asked' = asked \cup {r} /\ UNCHANGED <<code, redemption, granted>>
      BY <1>6, <2>3 DEF LockByCode
    <3>3. CodesAreHonoured'
      BY <1>t, <3>1, <3>2 DEF CodesAreHonoured, ProTypeOK
    <3>4. ASSUME NEW q \in Redeemers PROVE Holds(q)'
      BY <1>t, <2>1, <2>3, <3>2 DEF Holds, ProTypeOK
    <3>5. QED
      BY <1>t, <3>2, <3>3, <3>4 DEF ProInv
  <2>4. QED
    BY <2>2, <2>3
<1>7. ASSUME NEW r \in Redeemers, redeeming[r] # None, Release(r),
             UNCHANGED <<code, redemption, granted, asked>>
      PROVE  ProInv'
  <2>1. lock = r /\ \A q \in Redeemers : redeeming'[q] = None
    BY <1>7, <1>t, OnlyTheHolder DEF Release, ProTypeOK
  <2>2. CodesAreHonoured'
    BY <1>7, <1>t, <2>1 DEF Release, CodesAreHonoured, ProTypeOK
  <2>3. QED
    BY <1>7, <1>t, <2>1, <2>2 DEF Release, ProInv, Holds
<1>8. ASSUME NEW r \in Redeemers, Claim(r) PROVE ProInv'
  <2>1. /\ lock = r /\ redeeming[r] \in Redeeming
        /\ \A q \in Redeemers : q # r => redeeming[q] = None
    BY <1>8, OnlyTheHolder DEF Claim
  <2>2. redeeming' = [redeeming EXCEPT ![r] = [redeeming[r] EXCEPT !.claimed = TRUE]]
    BY <1>8 DEF Claim
  <2>3. /\ redeeming'[r] \in Redeeming
        /\ redeeming'[r].promo = redeeming[r].promo
        /\ redeeming'[r].workspace = redeeming[r].workspace
        /\ \A q \in Redeemers : q # r => redeeming'[q] = None
    BY <1>t, <2>1, <2>2 DEF Redeeming, ProTypeOK
  <2>4. CodesAreHonoured'
    BY <1>8, <1>t, <2>2, <2>3 DEF Claim, CodesAreHonoured, ProTypeOK
  <2>5. ASSUME NEW q \in Redeemers PROVE Holds(q)'
    BY <1>8, <2>1, <2>3 DEF Claim, ProInv, Holds, MayRedeem
  <2>6. QED
    BY <1>8, <1>t, <2>4, <2>5 DEF Claim, ProInv
<1>9. ASSUME NEW r \in Redeemers, Commit(r) PROVE ProInv'
  <2> DEFINE w == redeeming[r].workspace
  <2>1. /\ lock = r /\ redeeming[r] \in Redeeming /\ code \in PromoCodeRow
        /\ \A q \in Redeemers : q # r => redeeming[q] = None
    BY <1>9, OnlyTheHolder DEF Commit
  <2>2. MayRedeem(r) /\ redeeming[r].promo.redeemedCount = code.redeemedCount
        /\ redeeming[r].promo.maxRedemptions = code.maxRedemptions
    BY <1>9 DEF Commit, ProInv, Holds
  <2>3. code.maxRedemptions # None => code.redeemedCount < code.maxRedemptions
    <3> DEFINE row == redeeming[r].promo
    <3>1. row \in PromoCodeRow
      BY <2>1 DEF Redeeming
    <3>2. ASSUME row.maxRedemptions # None
          PROVE  row.redeemedCount < row.maxRedemptions
      <4>1. row.redeemedCount \in Nat /\ row.maxRedemptions \in Nat
        BY <3>1, <3>2 DEF PromoCodeRow
      <4>2. ~(row.redeemedCount >= row.maxRedemptions)
        BY <2>2, <3>2 DEF MayRedeem, StatusOf
      <4>3. QED
        BY <4>1, <4>2
    <3>3. QED
      BY <2>2, <3>2
  <2>4. w \in Workspaces /\ w \notin redemption
    BY <2>1, <2>2 DEF MayRedeem, Redeeming
  <2>5. /\ IsFiniteSet(redemption \cup {w})
        /\ Cardinality(redemption \cup {w}) = Cardinality(redemption) + 1
    BY <1>t, <2>4, FS_AddElement
  <2>6. /\ code' \in PromoCodeRow /\ code'.redeemedCount = code.redeemedCount + 1
        /\ code'.maxRedemptions = code.maxRedemptions
    BY <1>9, <2>1 DEF Commit, PromoCodeRow
  <2>7. /\ redemption' = redemption \cup {w} /\ granted' = granted \cup {w}
        /\ lock' = None /\ asked' = asked
        /\ redeeming' = [redeeming EXCEPT ![r] = None]
    BY <1>9, <2>1 DEF Commit, Release
  <2>8. ProTypeOK'
    BY <1>t, <2>4, <2>6, <2>7 DEF ProTypeOK
  <2>9. code.redeemedCount = Cardinality(redemption) /\ granted = redemption
    BY <1>9, <1>t DEF Commit, CodesAreHonoured
  <2>10. code.maxRedemptions # None => code.redeemedCount + 1 <= code.maxRedemptions
    <3>1. code.redeemedCount \in Nat
          /\ (code.maxRedemptions # None => code.maxRedemptions \in Nat)
      BY <2>1 DEF PromoCodeRow
    <3>2. QED
      BY <2>3, <3>1
  <2>11. CodesAreHonoured'
    BY <2>5, <2>6, <2>7, <2>8, <2>9, <2>10 DEF CodesAreHonoured
  <2>12. \A q \in Redeemers : redeeming'[q] = None
    BY <1>t, <2>1, <2>7 DEF ProTypeOK
  <2>13. QED
    BY <2>5, <2>7, <2>11, <2>12 DEF ProInv, Holds
<1>10. CASE UNCHANGED proVars
  BY <1>10, <1>t
  DEF proVars, ProInv, Holds, MayRedeem, StatusOf, CodesAreHonoured, ProTypeOK
<1>11. QED
  BY <1>1, <1>2, <1>3, <1>4, <1>5, <1>6, <1>7, <1>8, <1>9, <1>10
  DEF ProNext, Refuse, RollBack

(* A code is never redeemed past its limit, its count is the number of its  *)
(* redemptions, and credit was given exactly to the workspaces that have    *)
(* one, however many requests redeem it while it is switched off, expires   *)
(* or is deleted (promo.service.ts, redeem and remove).                     *)
THEOREM CodesHonoured == ProSpec => []CodesAreHonoured
<1>1. ProInv => CodesAreHonoured
  BY DEF ProInv
<1>2. QED
  BY <1>1, ProInvInit, ProInvStep, PTL DEF ProSpec

--------------------------------------------------------------------------------
(* However Stripe's events are repeated and reordered, handlers fail and    *)
(* checkouts overlap: once every event was answered, in order, the rows say *)
(* what Stripe says and the month is granted; checkouts that do not overlap *)
(* make one customer and lose no invoice; a workspace that was refilled is  *)
(* not due again in its month; and promo codes give what they say, within   *)
(* their limit (stripe.service.ts, billing.jobs.ts, promo.service.ts).      *)
THEOREM MoneyMatched == MCSpec => []MoneyIsMatched
<1> DEFINE Inv == ProInv /\ StrInv /\ F!RefilledIsNotDue
<1>1. MCInit => Inv
  BY ProInvInit, StrInvInit, RefInvInit DEF MCInit
<1>2. Inv /\ [MCNext]_mcVars => Inv'
  <2> SUFFICES ASSUME Inv, [MCNext]_mcVars PROVE Inv'
    OBVIOUS
  <2>1. ProInv'
    BY PartsMove, ProInvStep
  <2>2. StrInv'
    BY PartsMove, StrInvStep
  <2>3. F!RefilledIsNotDue'
    BY PartsMove, RefInvStep
  <2> QED
    BY <2>1, <2>2, <2>3
<1>3. Inv => MoneyIsMatched
  BY StrInvIsEnough DEF MoneyIsMatched, ProInv
<1>4. MCSpec => MCInit /\ [][MCNext]_mcVars
  BY PTL DEF MCSpec
<1> HIDE DEF Inv
<1>5. QED
  BY <1>1, <1>2, <1>3, <1>4, PTL

(* An instant of a schedule is claimed once, unless a refusal came late, and *)
(* what was claimed is queued, refused, lost with its worker or in hand; a  *)
(* delivery that failed used its attempts or lost its worker too often; an  *)
(* endpoint is switched off only after the failures the code names          *)
(* (trigger.service.ts, webhook.service.ts, webhook.jobs.ts).               *)
THEOREM FiresOnceStopsForCause == MCSpec => []FiresAndStops
<1> DEFINE Inv == TrgInv /\ WhkInv
<1>1. MCInit => Inv
  BY TrgInvInit, WhkInvInit
<1>2. Inv /\ [MCNext]_mcVars => Inv'
  BY PartsMove, TrgInvStep, WhkInvStep
<1>3. Inv => FiresAndStops
  BY TrgInvIsEnough, WhkInvIsEnough DEF FiresAndStops
<1>4. MCSpec => MCInit /\ [][MCNext]_mcVars
  BY PTL DEF MCSpec
<1> HIDE DEF Inv
<1>5. QED
  BY <1>1, <1>2, <1>3, <1>4, PTL

(* However publishing, restoring, deleting and queueing overlap: versions   *)
(* are numbered without gaps up to the current one, none was refused by     *)
(* validation, and a version a run names holds what the run was queued with *)
(* (agent.service.ts).                                                      *)
THEOREM VersionsAreHeld == MCSpec => []VersionsHold
<1>1. VerInv /\ [MCNext]_mcVars => VerInv'
  BY PartsMove, VerInvStep
<1>2. VerInv => VersionsHold
  BY VerInvIsEnough DEF VersionsHold
<1>3. MCSpec => MCInit /\ [][MCNext]_mcVars
  BY PTL DEF MCSpec
<1>4. QED
  BY VerInvInit, <1>1, <1>2, <1>3, PTL

(* Whatever amount is topped up and however many seats are billed: no       *)
(* credit that was not paid for, no custom amount below a pack, the         *)
(* cheapest upgrade named, and nothing lost by upgrading (plans.ts).        *)
THEOREM PricesStaySafe == MCSpec => []PricesAreSafe
<1>1. PriceInv /\ [MCNext]_mcVars => PriceInv'
  BY PartsMove, PriceInvStep
<1>2. PriceInv => PricesAreSafe
  BY PriceInvIsEnough DEF PricesAreSafe
<1>3. MCSpec => MCInit /\ [][MCNext]_mcVars
  BY PTL DEF MCSpec
<1>4. QED
  BY PriceInvInit, <1>1, <1>2, <1>3, PTL
================================================================================
