--------------------------------- MODULE Widgets -------------------------------
(***************************************************************************)
(* Chats embedded in customers' sites: how a widget is saved, whose key    *)
(* lives in somebody else's page, and the two limits between a public      *)
(* endpoint and the workspace's credits, a day's ceiling and a visitor's   *)
(* pace.  Requests of strangers overlap each other and edits.              *)
(***************************************************************************)
EXTENDS Integers, FiniteSets

CONSTANTS Widgets,        \* ids; each is given to one creation
          Names,
          Savers, Requests,
          PlanLimit,      \* widgetLimit of the plan
          Ceiling,        \* dailyCreditCeiling
          TurnCost,       \* bound: charges of one turn, one credit each
          HourlyLimit,    \* visitorHourlyLimit
          MaxSaves,       \* bound
          MaxSpoken,      \* bound: credits a day's speech costs
          None

VARIABLES widget,         \* rows
          used,           \* ids that were given out
          saver,          \* a save between its checks and its write
          saves,
          request,        \* a visitor's message, from its arrival to its last charge
          spent,          \* credits the day's runs charged to their steps, by widget
          spoken,         \* credits the day's runs charged as speech
          rate,           \* the counter of one returning visitor, by widget
          accepted,       \* messages of that visitor let through in the counter's window
          published       \* the key the customer's page was given

wdgVars == <<widget, used, saver, saves, request, spent, spoken, rate, accepted, published>>

Idle == [at |-> "idle"]
ChatWidgetRow == [name : Names, key : Nat, enabled : BOOLEAN]
NoRate == [count |-> 0, expires |-> FALSE]

WdgInit ==
  /\ widget = [w \in Widgets |-> None] /\ used = {}
  /\ saver = [s \in Savers |-> Idle] /\ saves = 0
  /\ request = [r \in Requests |-> Idle]
  /\ spent = [w \in Widgets |-> 0] /\ spoken = [w \in Widgets |-> 0]
  /\ rate = [w \in Widgets |-> NoRate] /\ accepted = [w \in Widgets |-> 0]
  /\ published = [w \in Widgets |-> None]

Exists(w) == widget[w] # None
Live == {w \in Widgets : Exists(w)}

--------------------------------------------------------------------------------
(* save, the reads: the row where an id is given, else the plan's limit,   *)
(* and the name.                                                           *)
StartSave(s, w, name, enabled) ==
  /\ saver[s] = Idle /\ saves < MaxSaves
  /\ IF Exists(w) THEN UNCHANGED used
     ELSE w \notin used /\ Cardinality(Live) < PlanLimit /\ used' = used \cup {w}
  /\ \A other \in Live \ {w} : widget[other].name # name
  /\ saves' = saves + 1
  /\ saver' = [saver EXCEPT ![s] = [at |-> "read", id |-> w, name |-> name,
                 enabled |-> enabled, existing |-> widget[w], key |-> saves + 1]]
  /\ UNCHANGED <<widget, request, spent, spoken, rate, accepted, published>>

(* The key of the row that was read, or a new one.                         *)
KeyOf(s) == IF saver[s].existing = None THEN saver[s].key ELSE saver[s].existing.key

(* upsert: the name is unique among a workspace's rows.  A row removed     *)
(* meanwhile is inserted again, with the key it had.                       *)
WriteWidget(s) ==
  LET w == saver[s].id
  IN  /\ saver[s].at = "read"
      /\ IF \E other \in Live \ {w} : widget[other].name = saver[s].name
           THEN UNCHANGED <<widget, published>>
           ELSE /\ widget' = [widget EXCEPT ![w] = [name |-> saver[s].name, key |-> KeyOf(s),
                                                    enabled |-> saver[s].enabled]]
                /\ published' = [published EXCEPT ![w] = IF @ = None THEN KeyOf(s) ELSE @]
      /\ saver' = [saver EXCEPT ![s] = Idle]
      /\ UNCHANGED <<used, saves, request, spent, spoken, rate, accepted>>

RemoveWidget(w) ==
  /\ Exists(w) /\ widget' = [widget EXCEPT ![w] = None]
  /\ UNCHANGED <<used, saver, saves, request, spent, spoken, rate, accepted, published>>

--------------------------------------------------------------------------------
(* readVisitorToken: a token that is signed, not too old and of this       *)
(* widget; any other counts as none.                                       *)
KnownToken(token, w) == token = w

(* resolveVisitor: the key names a widget that is on, and a token tells a  *)
(* returning visitor from a new one.  The origin is refused or allowed by  *)
(* the row's list.                                                         *)
Arrive(r, w, token) ==
  /\ request[r] = Idle /\ Exists(w) /\ widget[w].enabled
  /\ request' = [request EXCEPT ![r] = [at |-> "arrived", id |-> w, known |-> KnownToken(token, w)]]
  /\ UNCHANGED <<widget, used, saver, saves, spent, spoken, rate, accepted, published>>

(* Mutant: the comparison lets the ceiling itself through. *)
BelowCeiling_Reached(w) == spent[w] <= Ceiling
(* assertWithinLimits, the day's spending.                                 *)
BelowCeiling(w) == spent[w] < Ceiling

CheckCeiling(r) ==
  /\ request[r].at = "arrived"
  /\ request' = [request EXCEPT ![r] = IF BelowCeiling(@.id) THEN [@ EXCEPT !.at = "funded"]
                                       ELSE Idle]
  /\ UNCHANGED <<widget, used, saver, saves, spent, spoken, rate, accepted, published>>

(* The pace.  A new visitor's counter starts here, and lets one through.   *)
(* The counter of a returning one is raised, and given an hour when it     *)
(* reads one.  Where Redis does not answer the message passes, whether or  *)
(* not it was counted.                                                     *)
Running(r) == [at |-> "running", id |-> request[r].id, left |-> TurnCost]
CountNewcomer(r) ==
  /\ request[r].at = "funded" /\ ~request[r].known
  /\ request' = [request EXCEPT ![r] = Running(r)]
  /\ UNCHANGED <<widget, used, saver, saves, spent, spoken, rate, accepted, published>>
Raised(w) == [rate EXCEPT ![w].count = IF @ > HourlyLimit THEN @ ELSE @ + 1]
SkipPace(r, raised) ==
  /\ request[r].at = "funded" /\ request[r].known
  /\ rate' = IF raised THEN Raised(request[r].id) ELSE rate
  /\ request' = [request EXCEPT ![r] = Running(r)]
  /\ UNCHANGED <<widget, used, saver, saves, spent, spoken, accepted, published>>

IncrementRate(r) ==
  LET w == request[r].id
  IN  /\ request[r].at = "funded" /\ request[r].known
      /\ rate' = Raised(w)
      /\ IF rate[w].count = 0
           THEN request' = [request EXCEPT ![r].at = "first"] /\ UNCHANGED accepted
           ELSE IF rate[w].count >= HourlyLimit
             THEN request' = [request EXCEPT ![r] = Idle] /\ UNCHANGED accepted
             ELSE /\ request' = [request EXCEPT ![r] = Running(r)]
                  /\ accepted' = [accepted EXCEPT ![w] = @ + 1]
      /\ UNCHANGED <<widget, used, saver, saves, spent, spoken, published>>

(* EXPIRE.  Where Redis does not answer it the message passes all the same, *)
(* and where the process dies first nothing sets it: no later message reads  *)
(* one, so the counter never ends.                                           *)
SetExpiry(r, set) ==
  LET w == request[r].id
  IN  /\ request[r].at = "first"
      /\ rate' = [rate EXCEPT ![w].expires = @ \/ (set /\ rate[w].count > 0)]
      /\ request' = [request EXCEPT ![r] = Running(r)]
      /\ accepted' = [accepted EXCEPT ![w] = @ + 1]
      /\ UNCHANGED <<widget, used, saver, saves, spent, spoken, published>>

(* The hour passes.                                                        *)
ExpireRate(w) ==
  /\ rate[w].expires
  /\ rate' = [rate EXCEPT ![w] = NoRate] /\ accepted' = [accepted EXCEPT ![w] = 0]
  /\ UNCHANGED <<widget, used, saver, saves, request, spent, spoken, published>>

--------------------------------------------------------------------------------
(* The turn charges its steps as it goes, whatever became of the widget,   *)
(* under references that spentToday adds up.                               *)
ChargeStep(r) ==
  /\ request[r].at = "running" /\ request[r].left > 0
  /\ spent' = [spent EXCEPT ![request[r].id] = @ + 1]
  /\ request' = [request EXCEPT ![r].left = @ - 1]
  /\ UNCHANGED <<widget, used, saver, saves, spoken, rate, accepted, published>>

(* What it transcribes and speaks is charged under references of its own,  *)
(* which spentToday does not add up.                                       *)
ChargeSpeech(r) ==
  LET w == request[r].id
  IN  /\ request[r].at = "running" /\ request[r].left > 0 /\ spoken[w] < MaxSpoken
      /\ spoken' = [spoken EXCEPT ![w] = @ + 1]
      /\ request' = [request EXCEPT ![r].left = @ - 1]
      /\ UNCHANGED <<widget, used, saver, saves, spent, rate, accepted, published>>

(* It ends, by itself, by a stop or with its process.                      *)
EndRequest(r) ==
  /\ request[r].at \in {"first", "running"} /\ request' = [request EXCEPT ![r] = Idle]
  /\ UNCHANGED <<widget, used, saver, saves, spent, spoken, rate, accepted, published>>

(* spentToday counts from midnight.                                        *)
Midnight ==
  /\ spent' = [w \in Widgets |-> 0] /\ spoken' = [w \in Widgets |-> 0]
  /\ \E w \in Widgets : spent[w] >= Ceiling
  /\ UNCHANGED <<widget, used, saver, saves, request, rate, accepted, published>>

WdgNext ==
  \/ \E s \in Savers, w \in Widgets, n \in Names, on \in BOOLEAN : StartSave(s, w, n, on)
  \/ \E s \in Savers : WriteWidget(s)
  \/ \E w \in Widgets : RemoveWidget(w) \/ ExpireRate(w)
  \/ \E r \in Requests, w \in Widgets, token \in Widgets \cup {None} : Arrive(r, w, token)
  \/ \E r \in Requests : \/ CheckCeiling(r) \/ CountNewcomer(r) \/ IncrementRate(r)
                         \/ ChargeStep(r) \/ ChargeSpeech(r) \/ EndRequest(r)
  \/ \E r \in Requests, done \in BOOLEAN : SkipPace(r, done) \/ SetExpiry(r, done)
  \/ Midnight

WdgSpec == WdgInit /\ [][WdgNext]_wdgVars

--------------------------------------------------------------------------------
(* What a day's turns charge to their steps passes the ceiling by no more  *)
(* than what the turns that were let in together cost: one credit less     *)
(* than the ceiling and a turn for each request in flight.  A returning    *)
(* visitor has no more messages let through by a counter than the hourly   *)
(* limit.  A widget keeps the key its page was given through every edit,   *)
(* overlapping ones included, and two widgets never share one.             *)
WidgetsAreBounded ==
  /\ used \subseteq Widgets /\ Live \subseteq used
  /\ \A w \in Widgets :
       /\ spent[w] <= Ceiling - 1 + Cardinality(Requests) * TurnCost
       /\ accepted[w] <= HourlyLimit
       /\ Exists(w) => widget[w].key = published[w]
  /\ \A v, w \in Live : v # w => widget[v].name # widget[w].name /\ widget[v].key # widget[w].key

(* "The daily ceiling is a database read and still holds, so the money is  *)
(* capped" (widget.service.ts, assertWithinLimits): speech is not in it.   *)
MoneyIsCapped ==
  \A w \in Widgets : spent[w] + spoken[w] <= Ceiling - 1 + Cardinality(Requests) * TurnCost

(* "You have sent a lot of messages.  Please try again shortly": a counter *)
(* that nobody will give an hour any more refuses its visitor for good.    *)
CountersEnd ==
  \A w \in Widgets : rate[w].count > 0 =>
    rate[w].expires \/ \E r \in Requests : request[r].at = "first" /\ request[r].id = w
================================================================================
