------------------------------- MODULE StripeSync ------------------------------
(***************************************************************************)
(* One workspace's subscription and one invoice, as Stripe has them and as *)
(* the webhook mirrors them (stripe.service.ts, payment.repository.ts).    *)
(* An event carries the object as it was when the event was made.  Stripe  *)
(* repeats an event until it is answered, may repeat it afterwards, and    *)
(* keeps no order.                                                         *)
(***************************************************************************)
EXTENDS Integers, FiniteSets, Sequences

CONSTANTS PaidPlans,   \* plans with a Stripe price
          MaxEvents,   \* bound: events Stripe makes
          MaxVisits,   \* bound: checkouts that find no customer
          Handlers,    \* webhook requests in progress at once
          None

VARIABLES stripe,     \* the subscription at Stripe: [plan, status]
          invoice,    \* the invoice at Stripe: "open", "failed" or "paid"
          events,     \* all events so far, in the order Stripe made them
          unanswered, \* indices of the events Stripe still has to deliver
          handling,   \* the delivery each handler works on: [event, step]
          subscription, \* the mirrored row: [plan, status]
          refilled,   \* the plan_refill row of the month exists
          payment,    \* status of the payment row of the invoice, or None
          customers,  \* Stripe customers created for the workspace: 1, 2, ...
          visit,      \* how many checkouts found no customer and are creating one
          payer,      \* the customer of Stripe's subscription and invoice, or 0
          customerId, \* externalCustomerId of the row, or 0
          latest,     \* history: the newest event written, by object
          reordered,  \* history: an event was written after a newer one
          dropped,    \* history: invoice events answered and not recorded
          crossed     \* history: two checkouts overlapped

strVars == <<stripe, invoice, events, unanswered, handling, subscription,
             refilled, payment, customers, visit, payer, customerId, latest,
             reordered, dropped, crossed>>

(* trialing counts as active, and every other status as canceled.          *)
Statuses == {"active", "canceled"}
SubscriptionRow == [plan : PaidPlans \cup {"free"}, status : Statuses]
PaymentRow == {"paid", "failed", None}
Event == [object : {"subscription"}, plan : PaidPlans \cup {"unknown"},
          status : Statuses]
         \cup [object : {"invoice"}, status : {"paid", "failed"}]

StrTypeOK ==
  /\ stripe \in [plan : PaidPlans \cup {"unknown", "none"}, status : Statuses]
  /\ invoice \in {"open", "failed", "paid"}
  /\ \A i \in DOMAIN events : events[i] \in Event
  /\ unanswered \subseteq 1 .. MaxEvents
  /\ subscription \in SubscriptionRow /\ payment \in PaymentRow
  /\ customers \in 0 .. MaxVisits /\ visit \in 0 .. MaxVisits
  /\ payer \in 0 .. customers /\ customerId \in 0 .. customers
  /\ dropped \subseteq DOMAIN events

StrInit ==
  /\ stripe = [plan |-> "none", status |-> "canceled"] /\ invoice = "open"
  /\ events = <<>> /\ unanswered = {} /\ handling = [h \in Handlers |-> None]
  /\ subscription = [plan |-> "free", status |-> "active"]
  /\ refilled = FALSE /\ payment = None
  /\ customers = 0 /\ visit = 0 /\ payer = 0 /\ customerId = 0
  /\ latest = [o \in {"subscription", "invoice"} |-> 0]
  /\ reordered = FALSE /\ dropped = {} /\ crossed = FALSE

serverVars == <<subscription, refilled, payment, customerId>>

--------------------------------------------------------------------------------
(* Stripe: every change of an object makes an event.                       *)
MakeEvent(e) ==
  /\ Len(events) < MaxEvents /\ events' = Append(events, e)
  /\ unanswered' = unanswered \cup {Len(events) + 1}

(* The subscription is of the customer whose checkout was completed, and   *)
(* its invoice too.                                                        *)
BillsCustomer ==
  \E c \in 1 .. customers : payer \in {0, c} /\ payer' = c

ChangeSubscription(plan, status) ==
  /\ BillsCustomer
  /\ stripe' = [plan |-> plan, status |-> status] /\ stripe' # stripe
  /\ MakeEvent([object |-> "subscription", plan |-> plan, status |-> status])
  /\ UNCHANGED <<invoice, handling, serverVars, customers, visit, latest,
                 reordered, dropped, crossed>>

(* A charge that failed is tried again on the same invoice.                *)
ChargeInvoice(status) ==
  /\ BillsCustomer
  /\ invoice # "paid" /\ invoice' = status
  /\ MakeEvent([object |-> "invoice", status |-> status])
  /\ UNCHANGED <<stripe, handling, serverVars, customers, visit, latest,
                 reordered, dropped, crossed>>

--------------------------------------------------------------------------------
(* handleWebhook: an event reaches a handler, for the first time or not.   *)
Deliver(h, i) ==
  /\ handling[h] = None /\ i \in DOMAIN events
  /\ handling' = [handling EXCEPT ![h] = [event |-> i, step |-> "mirror"]]
  /\ UNCHANGED <<stripe, invoice, events, unanswered, serverVars, customers, visit,
                 payer, latest, reordered, dropped, crossed>>

Handled(h) == events[handling[h].event]
At(h, step, object) ==
  handling[h] # None /\ handling[h].step = step /\ Handled(h).object = object

(* The 2xx answer: Stripe owes this event no longer.                       *)
Answer(h) ==
  /\ handling' = [handling EXCEPT ![h] = None]
  /\ unanswered' = unanswered \ {handling[h].event}

(* History: which event of its object was written last.                    *)
NoteOrder(h) ==
  LET i == handling[h].event
      o == Handled(h).object
  IN /\ latest' = [latest EXCEPT ![o] = IF i > @ THEN i ELSE @]
     /\ reordered' = (reordered \/ i < latest[o])

(* updateSubscription: an unknown price leaves the plan's name alone.      *)
Mirrored(row, e) ==
  [plan |-> IF e.plan \in PaidPlans THEN e.plan ELSE row.plan,
   status |-> e.status]

(* onSubscriptionChanged up to the refill.                                 *)
MirrorSubscription(h) ==
  /\ At(h, "mirror", "subscription") /\ NoteOrder(h)
  /\ subscription' = Mirrored(subscription, Handled(h)) /\ customerId' = payer
  /\ IF Handled(h).status = "active" /\ Handled(h).plan \in PaidPlans
       THEN /\ handling' = [handling EXCEPT ![h].step = "refill"]
            /\ UNCHANGED unanswered
       ELSE Answer(h)
  /\ UNCHANGED <<stripe, invoice, events, refilled, payment, customers, visit,
                 payer, dropped, crossed>>

(* refillPlanCredits, once a month, for the plan the row gives by now.     *)
RefillCredits(h) ==
  /\ At(h, "refill", "subscription") /\ Answer(h)
  /\ refilled' = (refilled \/ (subscription.status = "active"
                               /\ subscription.plan # "free"))
  /\ UNCHANGED <<stripe, invoice, events, subscription, payment, customers, visit,
                 payer, customerId, latest, reordered, dropped, crossed>>

(* onInvoice and paymentRepository.record: insert or update by invoice id. *)
RecordPayment(h) ==
  /\ At(h, "mirror", "invoice") /\ customerId = payer /\ NoteOrder(h)
  /\ payment' = Handled(h).status /\ Answer(h)
  /\ UNCHANGED <<stripe, invoice, events, subscription, refilled, customers, visit,
                 payer, customerId, dropped, crossed>>

(* workspaceForInvoice: no row has the invoice's customer.  The miss is    *)
(* logged, and the event answered like any other.                          *)
DropInvoice(h) ==
  /\ At(h, "mirror", "invoice") /\ customerId # payer
  /\ dropped' = dropped \cup {handling[h].event} /\ Answer(h)
  /\ UNCHANGED <<stripe, invoice, events, subscription, refilled, payment, customers,
                 visit, payer, customerId, latest, reordered, crossed>>

(* The handler throws or the process dies: Stripe gets no 2xx.             *)
HandlerFails(h) ==
  /\ handling[h] # None /\ handling' = [handling EXCEPT ![h] = None]
  /\ UNCHANGED <<stripe, invoice, events, unanswered, serverVars, customers, visit,
                 payer, latest, reordered, dropped, crossed>>

--------------------------------------------------------------------------------
(* ensureCustomer: the row is read, and without a customer one is created  *)
(* at Stripe and written to the row.                                       *)
BeginCheckout ==
  /\ customers + visit < MaxVisits /\ customerId = 0
  /\ visit' = visit + 1 /\ crossed' = (crossed \/ visit > 0)
  /\ UNCHANGED <<stripe, invoice, events, unanswered, handling, serverVars,
                 customers, payer, latest, reordered, dropped>>

EnsureCustomer ==
  /\ visit > 0 /\ visit' = visit - 1
  /\ customers' = customers + 1 /\ customerId' = customers + 1
  /\ crossed' = (crossed \/ customerId # 0)
  /\ UNCHANGED <<stripe, invoice, events, unanswered, handling, subscription,
                 refilled, payment, payer, latest, reordered, dropped>>

StrNext ==
  \/ \E p \in PaidPlans \cup {"unknown"}, s \in Statuses : ChangeSubscription(p, s)
  \/ \E s \in {"paid", "failed"} : ChargeInvoice(s)
  \/ \E h \in Handlers :
       \/ \E i \in 1 .. MaxEvents : Deliver(h, i)
       \/ MirrorSubscription(h) \/ RefillCredits(h)
       \/ RecordPayment(h) \/ DropInvoice(h) \/ HandlerFails(h)
  \/ BeginCheckout \/ EnsureCustomer

--------------------------------------------------------------------------------
Subscriptions == {i \in DOMAIN events : events[i].object = "subscription"}
InSync ==
  /\ ~reordered /\ unanswered = {} /\ \A h \in Handlers : handling[h] = None

(* The newest event of the invoice was dropped.                            *)
InvoiceLost ==
  \E i \in dropped : \A j \in DOMAIN events : events[j].object = "invoice" => j <= i

(* When every event was answered, and none written after a newer one of    *)
(* its object: the row and the payment say what Stripe says, and a plan    *)
(* that is paid for has had its credits of the month.  An invoice is lost  *)
(* only when its customer is no longer the row's, and checkouts that do    *)
(* not overlap make one customer and lose none.                            *)
SyncedIsGranted ==
  /\ StrTypeOK
  /\ InSync /\ Subscriptions # {} =>
       /\ subscription.status = stripe.status
       /\ stripe.plan \in PaidPlans => subscription.plan = stripe.plan
       /\ stripe.plan \in PaidPlans /\ stripe.status = "active" => refilled
  /\ InSync /\ invoice # "open" => payment = invoice \/ InvoiceLost
  /\ ~crossed => customers <= 1 /\ dropped = {}

(* A charge of the subscription is on a payment row once its event was     *)
(* answered: "the customer id is on it from the moment ensureCustomer ran, *)
(* so this answers for a one-off invoice as well as a recurring one"       *)
(* (stripe.service.ts, workspaceForInvoice).                               *)
InvoicesAreRecorded == InSync /\ invoice # "open" => payment = invoice
================================================================================
