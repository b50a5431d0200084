-------------------------- MODULE ConversationsProofs -------------------------
(***************************************************************************)
(* Machine-checked theorems about what people say to the assistant: the    *)
(* widgets strangers write through, the memories an agent keeps, the files *)
(* and the turns of a conversation, and the search behind an answer; for   *)
(* every number of conversations, turns, files, memories, widgets,         *)
(* visitors and passages, and every bound.  Each part has an invariant of  *)
(* its own, and the end of the module puts them together.                  *)
(***************************************************************************)
EXTENDS MCConversations, FiniteSetTheorems, SequenceTheorems, WellFoundedInduction, TLAPS

--------------------------------------------------------------------------------
(* A step of a behaviour is a step of one part, and no other part moves.   *)
LEMMA PartsMove ==
  [MCNext]_mcVars =>
    /\ C!ChtNext \/ UNCHANGED <<attVars, chtVars>>
    /\ R!RtvNext \/ UNCHANGED rtvVars
    /\ M!MemNext \/ UNCHANGED memVars
    /\ W!WdgNext \/ UNCHANGED wdgVars
    /\ UNCHANGED part
<1> SUFFICES ASSUME [MCNext]_mcVars
             PROVE  /\ C!ChtNext \/ UNCHANGED <<attVars, chtVars>>
                    /\ R!RtvNext \/ UNCHANGED rtvVars
                    /\ M!MemNext \/ UNCHANGED memVars
                    /\ W!WdgNext \/ UNCHANGED wdgVars
                    /\ UNCHANGED part
  OBVIOUS
<1>1. ASSUME C!AttNext, UNCHANGED chtVars PROVE C!ChtNext
  BY <1>1 DEF C!ChtNext, C!chtVars, chtVars
<1>2. CASE Attachment /\ C!AttNext
  BY <1>1, <1>2 DEF Attachment
<1>3. CASE Chat("charges") /\ C!ChtNext /\ Charges
  BY <1>3 DEF Chat
<1>4. CASE Chat("files") /\ C!ChtNext /\ Files
  BY <1>4 DEF Chat
<1>5. CASE Retrieval /\ R!RtvNext
  BY <1>5 DEF Retrieval
<1>6. CASE Memory /\ M!MemNext /\ Somebody
  BY <1>6 DEF Memory
<1>7. CASE Widget("visitors") /\ W!WdgNext /\ Visitors
  BY <1>7 DEF Widget
<1>9. CASE Widget("keys") /\ W!WdgNext /\ Keys
  BY <1>9 DEF Widget
<1>8. CASE UNCHANGED mcVars
  BY <1>8 DEF mcVars
<1> QED
  BY <1>2, <1>3, <1>4, <1>5, <1>6, <1>7, <1>8, <1>9 DEF MCNext

--------------------------------------------------------------------------------
(* What a save has read, and what a page was given.                        *)
Save == [at : {"read"}, id : Widgets, name : Names, enabled : BOOLEAN,
         existing : W!ChatWidgetRow \cup {None}, key : Nat]
Saves(s) ==
  saver[s] # W!Idle =>
    /\ saver[s].id \in used /\ saver[s].key <= saves
    /\ saver[s].existing # None => saver[s].existing.key = published[saver[s].id]
    /\ saver[s].existing = None => published[saver[s].id] = None
    /\ \A w \in Widgets : published[w] # saver[s].key
(* One save creates a widget, and each save that creates brings a new key. *)
OneCreates ==
  \A s, o \in Writers :
    saver[s] # W!Idle /\ saver[o] # W!Idle /\ s # o =>
      /\ saver[s].key # saver[o].key
      /\ saver[s].existing = None /\ saver[o].existing = None => saver[s].id # saver[o].id
(* A key is given to one widget, which has no other.                       *)
KeysFit ==
  /\ \A w \in Widgets :
       /\ widget[w] # None => w \in used /\ widget[w].key = published[w]
       /\ published[w] # None => w \in used /\ published[w] <= saves
  /\ \A v, w \in Widgets : published[v] # None /\ published[v] = published[w] => v = w
  /\ \A v, w \in Widgets :
       widget[v] # None /\ widget[w] # None /\ v # w => widget[v].name # widget[w].name

WdgKeys ==
  /\ widget \in [Widgets -> W!ChatWidgetRow \cup {None}] /\ used \subseteq Widgets
  /\ saver \in [Writers -> Save \cup {W!Idle}] /\ saves \in Nat
  /\ published \in [Widgets -> Nat \cup {None}]
  /\ (\A s \in Writers : Saves(s)) /\ OneCreates /\ KeysFit

LEMMA WdgKeysInit == MCInit => WdgKeys
<1> SUFFICES ASSUME W!WdgInit PROVE WdgKeys
  BY DEF MCInit
<1>1. /\ widget = [w \in Widgets |-> None] /\ published = [w \in Widgets |-> None]
      /\ saver = [s \in Writers |-> W!Idle] /\ saves = 0 /\ used = {}
  BY DEF W!WdgInit
<1>2. saves \in Nat
  BY <1>1
<1>3. (\A s \in Writers : Saves(s)) /\ OneCreates /\ KeysFit
  BY <1>1 DEF Saves, OneCreates, KeysFit
<1> QED
  BY <1>1, <1>2, <1>3 DEF WdgKeys

(* A save takes the next key, which no page has.                           *)
LEMMA WdgStarts ==
  ASSUME WdgKeys, NEW s \in Writers, NEW w \in Widgets, NEW name \in Names,
         NEW enabled \in BOOLEAN, W!StartSave(s, w, name, enabled)
  PROVE  WdgKeys'
<1>0. None \notin Nat /\ None \notin W!ChatWidgetRow
  BY NoneAssumption
<1>1. /\ widget \in [Widgets -> W!ChatWidgetRow \cup {None}] /\ used \subseteq Widgets
      /\ saver \in [Writers -> Save \cup {W!Idle}] /\ saves \in Nat
      /\ published \in [Widgets -> Nat \cup {None}]
  BY DEF WdgKeys
<1> PICK n : n = saves + 1
  OBVIOUS
<1>2. n \in Nat /\ saves <= n /\ n # saves /\ ~(n <= saves)
  BY <1>1
<1> DEFINE new == [at |-> "read", id |-> w, name |-> name, enabled |-> enabled,
                   existing |-> widget[w], key |-> n]
<1>3. /\ saver' = [saver EXCEPT ![s] = new] /\ saver[s] = W!Idle /\ saves' = n
      /\ UNCHANGED <<widget, published>>
      /\ used' = IF widget[w] = None THEN used \cup {w} ELSE used
      /\ widget[w] = None => w \notin used
  BY DEF W!StartSave, W!Exists
<1>4. new \in Save /\ new # W!Idle
  BY <1>1, <1>2 DEF Save, W!Idle
<1>5. /\ saver' \in [Writers -> Save \cup {W!Idle}] /\ saver'[s] = new
      /\ \A o \in Writers \ {s} : saver'[o] = saver[o]
  BY <1>1, <1>3, <1>4
<1>6. used' \subseteq Widgets /\ used \subseteq used' /\ w \in used'
  BY <1>1, <1>3 DEF WdgKeys, KeysFit
<1>7. \A v \in Widgets : published[v] # None => published[v] \in Nat /\ published[v] <= saves
  BY <1>1 DEF WdgKeys, KeysFit
<1>8. \A v \in Widgets : published[v] # n
  BY <1>0, <1>1, <1>2, <1>7
<1>9. widget[w] = None => published[w] = None
  BY <1>3 DEF WdgKeys, KeysFit
<1>10. widget[w] # None => widget[w].key = published[w]
  BY DEF WdgKeys, KeysFit
<1>11. ASSUME NEW o \in Writers PROVE Saves(o)'
  <2>1. CASE o = s
    <3>1. /\ saver'[o].id = w /\ saver'[o].key = n /\ saver'[o].existing = widget[w]
      BY <1>5, <2>1
    <3>2. n <= n
      BY <1>2
    <3> QED
      BY <1>3, <1>6, <1>8, <1>9, <1>10, <3>1, <3>2 DEF Saves
  <2>2. CASE o # s
    <3> SUFFICES ASSUME saver'[o] # W!Idle PROVE Saves(o)'
      BY DEF Saves
    <3>1. saver'[o] = saver[o] /\ saver[o] \in Save
      BY <1>1, <1>5, <2>2
    <3>2. Saves(o)
      BY DEF WdgKeys
    <3>3. saver[o].key \in Nat /\ saver[o].key <= saves
      BY <3>1, <3>2 DEF Saves, Save
    <3>4. saver[o].key <= n
      BY <1>1, <1>2, <3>3
    <3> QED
      BY <1>3, <1>6, <3>1, <3>2, <3>4 DEF Saves
  <2> QED
    BY <2>1, <2>2
<1>12. OneCreates'
  <2> SUFFICES ASSUME NEW a \in Writers, NEW b \in Writers, a # b,
                      saver'[a] # W!Idle, saver'[b] # W!Idle
               PROVE  /\ saver'[a].key # saver'[b].key
                      /\ saver'[a].existing = None /\ saver'[b].existing = None
                           => saver'[a].id # saver'[b].id
    BY DEF OneCreates
  <2>1. ASSUME NEW o \in Writers \ {s}, saver[o] # W!Idle
        PROVE  saver[o].key # n /\ (widget[w] = None => saver[o].id # w)
    <3>1. saver[o] \in Save
      BY <1>1, <2>1
    <3>2. Saves(o)
      BY DEF WdgKeys
    <3>3. saver[o].key \in Nat /\ saver[o].key <= saves /\ saver[o].id \in used
      BY <2>1, <3>1, <3>2 DEF Saves, Save
    <3>4. saver[o].key # n
      BY <1>2, <3>3
    <3> QED
      BY <1>3, <3>3, <3>4
  <2>2. CASE a # s /\ b # s
    BY <1>5, <2>2 DEF WdgKeys, OneCreates
  <2>3. CASE a = s /\ b # s
    BY <1>5, <2>1, <2>3
  <2>4. CASE b = s /\ a # s
    BY <1>5, <2>1, <2>4
  <2> QED
    BY <2>2, <2>3, <2>4
<1>13. KeysFit'
  <2>1. ASSUME NEW v \in Widgets, published[v] # None PROVE published[v] <= n
    BY <1>1, <1>2, <1>7, <2>1
  <2> QED
    BY <1>3, <1>6, <2>1 DEF WdgKeys, KeysFit
<1> QED
  BY <1>1, <1>2, <1>3, <1>5, <1>6, <1>11, <1>12, <1>13 DEF WdgKeys

(* A row is written with the key its page has, or is given now.            *)
LEMMA WdgWrites ==
  ASSUME WdgKeys, NEW s \in Writers, W!WriteWidget(s)
  PROVE  WdgKeys'
<1>0. None \notin Nat /\ None \notin W!ChatWidgetRow
  BY NoneAssumption
<1>1. /\ widget \in [Widgets -> W!ChatWidgetRow \cup {None}] /\ used \subseteq Widgets
      /\ saver \in [Writers -> Save \cup {W!Idle}] /\ saves \in Nat
      /\ published \in [Widgets -> Nat \cup {None}] /\ Saves(s)
  BY DEF WdgKeys
<1>2. saver[s] \in Save /\ saver[s] # W!Idle
  BY <1>1 DEF W!WriteWidget, W!Idle, Save
<1> PICK w, k, row : /\ w = saver[s].id /\ k = W!KeyOf(s)
                     /\ row = [name |-> saver[s].name, key |-> k, enabled |-> saver[s].enabled]
  OBVIOUS
<1>3. w \in Widgets /\ saver[s].name \in Names /\ saver[s].enabled \in BOOLEAN
      /\ saver[s].key \in Nat /\ saver[s].existing \in W!ChatWidgetRow \cup {None}
  BY <1>2 DEF Save
<1>4. /\ w \in used /\ saver[s].key <= saves
      /\ saver[s].existing # None => saver[s].existing.key = published[w]
      /\ saver[s].existing = None => published[w] = None
      /\ \A v \in Widgets : published[v] # saver[s].key
  BY <1>1, <1>2 DEF Saves
<1>6. k \in Nat
  BY <1>3 DEF W!KeyOf, W!ChatWidgetRow
<1>7. row \in W!ChatWidgetRow /\ row # None /\ row.key = k /\ row.name = saver[s].name
  BY <1>0, <1>3, <1>6 DEF W!ChatWidgetRow
<1>8. published[w] # None => k = published[w]
  BY <1>4 DEF W!KeyOf
<1>9. published[w] = None => k = saver[s].key
  BY <1>0, <1>3, <1>4 DEF W!KeyOf, W!ChatWidgetRow
<1>10. /\ saver' = [saver EXCEPT ![s] = W!Idle] /\ UNCHANGED <<used, saves>>
       /\ \/ UNCHANGED <<widget, published>>
          \/ /\ \A v \in Widgets : widget[v] # None /\ v # w => widget[v].name # saver[s].name
             /\ widget' = [widget EXCEPT ![w] = row]
             /\ published' = [published EXCEPT ![w] = IF @ = None THEN k ELSE @]
  BY DEF W!WriteWidget, W!Live, W!Exists
<1>11. /\ saver' \in [Writers -> Save \cup {W!Idle}] /\ saver'[s] = W!Idle
       /\ \A o \in Writers \ {s} : saver'[o] = saver[o]
  BY <1>1, <1>10
<1>12. OneCreates'
  BY <1>11 DEF WdgKeys, OneCreates
<1>13. CASE UNCHANGED <<widget, published>>
  <2>1. ASSUME NEW o \in Writers PROVE Saves(o)'
    BY <1>10, <1>11, <1>13 DEF WdgKeys, Saves
  <2>2. KeysFit'
    BY <1>10, <1>13 DEF WdgKeys, KeysFit
  <2> QED
    BY <1>1, <1>10, <1>11, <1>12, <1>13, <2>1, <2>2 DEF WdgKeys
<1>14. CASE /\ \A v \in Widgets : widget[v] # None /\ v # w => widget[v].name # saver[s].name
            /\ widget' = [widget EXCEPT ![w] = row]
            /\ published' = [published EXCEPT ![w] = IF @ = None THEN k ELSE @]
  <2>1. /\ widget' \in [Widgets -> W!ChatWidgetRow \cup {None}] /\ widget'[w] = row
        /\ \A v \in Widgets \ {w} : widget'[v] = widget[v]
    BY <1>1, <1>3, <1>7, <1>14
  <2>2. /\ published' \in [Widgets -> Nat \cup {None}] /\ published'[w] = k
        /\ \A v \in Widgets \ {w} : published'[v] = published[v]
    BY <1>1, <1>3, <1>6, <1>8, <1>14
  <2>3. k <= saves
    BY <1>4, <1>8, <1>9 DEF WdgKeys, KeysFit
  <2>4. \A v \in Widgets \ {w} : published[v] # k
    BY <1>3, <1>4, <1>8, <1>9 DEF WdgKeys, KeysFit
  <2>5. ASSUME NEW o \in Writers, o # s, saver[o] # W!Idle
        PROVE  /\ saver[o].key # k
               /\ saver[o].id = w => saver[o].existing # None /\ saver[o].existing.key = k
    <3>1. Saves(o)
      BY DEF WdgKeys
    <3>2. saver[o].key # saver[s].key
      BY <1>2, <2>5 DEF WdgKeys, OneCreates
    <3>3. saver[o].key # k
      BY <1>3, <1>8, <1>9, <2>5, <3>1, <3>2 DEF Saves
    <3>4. CASE saver[o].id = w /\ saver[o].existing = None
      <4>1. published[w] = None
        BY <2>5, <3>1, <3>4 DEF Saves
      <4>2. saver[s].existing = None
        BY <1>0, <1>3, <1>4, <4>1 DEF W!ChatWidgetRow
      <4> QED
        BY <1>2, <2>5, <3>4, <4>2 DEF WdgKeys, OneCreates
    <3>5. CASE saver[o].id = w /\ saver[o].existing # None
      <4>1. saver[o].existing.key = published[w]
        BY <2>5, <3>1, <3>5 DEF Saves
      <4>2. saver[o] \in Save
        BY <1>1, <2>5
      <4>3. saver[o].existing.key \in Nat
        BY <3>5, <4>2 DEF Save, W!ChatWidgetRow
      <4>4. published[w] # None
        BY <1>0, <4>1, <4>3
      <4> QED
        BY <1>8, <3>3, <3>5, <4>1, <4>4
    <3> QED
      BY <3>3, <3>4, <3>5
  <2>6. ASSUME NEW o \in Writers PROVE Saves(o)'
    <3>1. CASE o = s
      BY <1>11, <3>1 DEF Saves
    <3>2. CASE o # s /\ saver[o] = W!Idle
      BY <1>11, <3>2 DEF Saves
    <3>3. CASE o # s /\ saver[o] # W!Idle
      <4>1. Saves(o)
        BY DEF WdgKeys
      <4>2. saver'[o] = saver[o]
        BY <1>11, <3>3
      <4>3. \A v \in Widgets : published'[v] # saver[o].key
        BY <2>2, <2>5, <3>3, <4>1 DEF Saves
      <4>4. saver[o].id \in Widgets
        BY <1>1, <3>3 DEF Save
      <4>5. saver[o].existing # None => saver[o].existing.key = published'[saver[o].id]
        BY <2>2, <2>5, <3>3, <4>1, <4>4 DEF Saves
      <4>6. saver[o].existing = None => published'[saver[o].id] = None
        BY <2>2, <2>5, <3>3, <4>1, <4>4 DEF Saves
      <4> QED
        BY <1>10, <3>3, <4>1, <4>2, <4>3, <4>5, <4>6 DEF Saves
    <3> QED
      BY <3>1, <3>2, <3>3
  <2>7. KeysFit'
    <3>1. ASSUME NEW v \in Widgets
          PROVE  /\ widget'[v] # None => v \in used /\ widget'[v].key = published'[v]
                 /\ published'[v] # None => v \in used /\ published'[v] <= saves
      BY <1>4, <1>7, <2>1, <2>2, <2>3 DEF WdgKeys, KeysFit
    <3>2. ASSUME NEW u \in Widgets, NEW v \in Widgets, published'[u] # None,
                 published'[u] = published'[v]
          PROVE  u = v
      BY <2>2, <2>4, <3>2 DEF WdgKeys, KeysFit
    <3>3. ASSUME NEW u \in Widgets, NEW v \in Widgets, widget'[u] # None,
                 widget'[v] # None, u # v
          PROVE  widget'[u].name # widget'[v].name
      BY <1>7, <1>14, <2>1, <3>3 DEF WdgKeys, KeysFit
    <3> QED
      BY <1>10, <3>1, <3>2, <3>3 DEF KeysFit
  <2> QED
    BY <1>1, <1>10, <1>11, <1>12, <2>1, <2>2, <2>6, <2>7 DEF WdgKeys
<1> QED
  BY <1>10, <1>13, <1>14

LEMMA WdgRemoves ==
  ASSUME WdgKeys, NEW w \in Widgets, W!RemoveWidget(w)
  PROVE  WdgKeys'
<1>1. /\ widget' = [widget EXCEPT ![w] = None]
      /\ UNCHANGED <<used, saver, saves, published>>
  BY DEF W!RemoveWidget
<1>2. /\ widget' \in [Widgets -> W!ChatWidgetRow \cup {None}]
      /\ \A v \in Widgets : widget'[v] # None => widget'[v] = widget[v]
  BY <1>1 DEF WdgKeys
<1>3. KeysFit'
  BY <1>1, <1>2 DEF WdgKeys, KeysFit
<1>4. OneCreates' /\ \A s \in Writers : Saves(s)'
  BY <1>1 DEF WdgKeys, Saves, OneCreates
<1> QED
  BY <1>1, <1>2, <1>3, <1>4 DEF WdgKeys

LEMMA WdgKeysKept ==
  ASSUME WdgKeys, UNCHANGED <<widget, used, saver, saves, published>>
  PROVE  WdgKeys'
<1>1. KeysFit' /\ OneCreates' /\ \A s \in Writers : Saves(s)'
  BY DEF WdgKeys, KeysFit, Saves, OneCreates
<1> QED
  BY <1>1 DEF WdgKeys

LEMMA WdgKeysStep ==
  ASSUME WdgKeys, W!WdgNext \/ UNCHANGED wdgVars
  PROVE  WdgKeys'
<1>1. CASE UNCHANGED wdgVars
  BY <1>1, WdgKeysKept DEF wdgVars
<1>2. ASSUME NEW s \in Writers, NEW w \in Widgets, NEW n \in Names, NEW on \in BOOLEAN,
             W!StartSave(s, w, n, on)
      PROVE  WdgKeys'
  BY <1>2, WdgStarts
<1>3. ASSUME NEW s \in Writers, W!WriteWidget(s) PROVE WdgKeys'
  BY <1>3, WdgWrites
<1>4. ASSUME NEW w \in Widgets, W!RemoveWidget(w) PROVE WdgKeys'
  BY <1>4, WdgRemoves
<1>5. ASSUME NEW w \in Widgets, W!ExpireRate(w) PROVE WdgKeys'
  BY <1>5, WdgKeysKept DEF W!ExpireRate
<1>6. ASSUME NEW r \in Askers, NEW w \in Widgets, NEW token, W!Arrive(r, w, token)
      PROVE  WdgKeys'
  BY <1>6, WdgKeysKept DEF W!Arrive
<1>7. ASSUME NEW r \in Askers, \/ W!CheckCeiling(r) \/ W!CountNewcomer(r) \/ W!ChargeStep(r)
                               \/ W!ChargeSpeech(r) \/ W!EndRequest(r)
      PROVE  WdgKeys'
  BY <1>7, WdgKeysKept DEF W!CheckCeiling, W!CountNewcomer, W!ChargeStep, W!ChargeSpeech,
                           W!EndRequest
<1>8. ASSUME NEW r \in Askers, NEW done \in BOOLEAN,
             W!IncrementRate(r) \/ W!SkipPace(r, done) \/ W!SetExpiry(r, done)
      PROVE  WdgKeys'
  BY <1>8, WdgKeysKept DEF W!IncrementRate, W!SkipPace, W!SetExpiry
<1>9. CASE W!Midnight
  BY <1>9, WdgKeysKept DEF W!Midnight
<1> QED
  BY <1>1, <1>2, <1>3, <1>4, <1>5, <1>6, <1>7, <1>8, <1>9 DEF W!WdgNext

--------------------------------------------------------------------------------
(* The credits that the turns let in on a widget may still cost.           *)
Tokens(w) ==
  {p \in Askers \X (1 .. TurnCost) :
     /\ request[p[1]].at \in {"funded", "first", "running"} /\ request[p[1]].id = w
     /\ request[p[1]].at = "running" => p[2] <= request[p[1]].left}
AllTokens == Cardinality(Askers) * TurnCost
Bounded(w) == spent[w] + Cardinality(Tokens(w)) <= Ceiling - 1 + AllTokens

(* A message whose counter has not its hour yet is alone with the counter, *)
(* and is one that the counter has let through and nobody has counted.     *)
First(r, w) == request[r].at = "first" /\ request[r].id = w
Paced(w) ==
  /\ accepted[w] <= HourlyLimit /\ accepted[w] <= rate[w].count
  /\ rate[w].count = 0 => ~rate[w].expires
  /\ \A r \in Askers : First(r, w) =>
       /\ ~rate[w].expires /\ accepted[w] < HourlyLimit /\ accepted[w] < rate[w].count
       /\ \A o \in Askers : First(o, w) => o = r

Waiting == [at : {"arrived", "funded", "first"}, id : Widgets, known : BOOLEAN]
Answering == [at : {"running"}, id : Widgets, left : 0 .. TurnCost]
WdgTyped ==
  /\ request \in [Askers -> {W!Idle} \cup Waiting \cup Answering]
  /\ spent \in [Widgets -> Nat] /\ accepted \in [Widgets -> Nat]
  /\ rate \in [Widgets -> [count : Nat, expires : BOOLEAN]]
WdgLimits == WdgTyped /\ \A w \in Widgets : Bounded(w) /\ Paced(w)

LEMMA TokensAreFew ==
  \A w : /\ IsFiniteSet(Tokens(w)) /\ Cardinality(Tokens(w)) \in Nat
         /\ Cardinality(Tokens(w)) <= AllTokens /\ AllTokens \in Nat
<1> TAKE w
<1>1. TurnCost \in Nat /\ IsFiniteSet(Askers)
  BY WidgetsAssumption
<1>2. IsFiniteSet(1 .. TurnCost) /\ Cardinality(1 .. TurnCost) = TurnCost
  BY <1>1, FS_Interval
<1>3. /\ IsFiniteSet(Askers \X (1 .. TurnCost))
      /\ Cardinality(Askers \X (1 .. TurnCost)) = Cardinality(Askers) * TurnCost
  BY <1>1, <1>2, FS_Product
<1>4. Tokens(w) \subseteq Askers \X (1 .. TurnCost)
  BY DEF Tokens
<1>5. /\ IsFiniteSet(Tokens(w))
      /\ Cardinality(Tokens(w)) <= Cardinality(Askers \X (1 .. TurnCost))
  BY <1>3, <1>4, FS_Subset
<1>6. Cardinality(Tokens(w)) \in Nat /\ Cardinality(Askers \X (1 .. TurnCost)) \in Nat
  BY <1>3, <1>5, FS_CardinalityType
<1> QED
  BY <1>3, <1>5, <1>6 DEF AllTokens

(* What is bounded stays bounded where no turn is let in and none charges. *)
LEMMA TokensFewer ==
  ASSUME WdgLimits, WdgTyped', NEW w \in Widgets, spent'[w] = spent[w],
         NEW before, before = Tokens(w), NEW after, after = Tokens(w)', after \subseteq before
  PROVE  Bounded(w)'
<1>1. IsFiniteSet(before) /\ Cardinality(before) \in Nat /\ AllTokens \in Nat
  BY TokensAreFew
<1>2. IsFiniteSet(after) /\ Cardinality(after) <= Cardinality(before)
  BY <1>1, FS_Subset
<1>3. Cardinality(after) \in Nat
  BY <1>2, FS_CardinalityType
<1>4. spent[w] \in Nat /\ Ceiling \in Nat
  BY WidgetsAssumption DEF WdgLimits, WdgTyped
<1>5. spent[w] + Cardinality(before) <= Ceiling - 1 + AllTokens
  BY DEF WdgLimits, Bounded
<1>6. spent[w] + Cardinality(after) <= Ceiling - 1 + AllTokens
  BY <1>1, <1>2, <1>3, <1>4, <1>5
<1> QED
  BY <1>6 DEF Bounded, AllTokens

LEMMA WdgLimitsInit == MCInit => WdgLimits
<1> SUFFICES ASSUME W!WdgInit PROVE WdgLimits
  BY DEF MCInit
<1>1. /\ request = [r \in Askers |-> W!Idle] /\ spent = [w \in Widgets |-> 0]
      /\ rate = [w \in Widgets |-> W!NoRate] /\ accepted = [w \in Widgets |-> 0]
  BY DEF W!WdgInit
<1>2. W!NoRate \in [count : Nat, expires : BOOLEAN] /\ W!NoRate = [count |-> 0, expires |-> FALSE]
  BY DEF W!NoRate
<1>3. WdgTyped
  BY <1>1, <1>2 DEF WdgTyped
<1>4. ASSUME NEW w \in Widgets PROVE Bounded(w) /\ Paced(w)
  <2>1. spent[w] = 0 /\ accepted[w] = 0 /\ rate[w].count = 0 /\ rate[w].expires = FALSE
    BY <1>1, <1>2
  <2>2. Ceiling \in Nat \ {0} /\ HourlyLimit \in Nat \ {0}
    BY WidgetsAssumption
  <2>3. Bounded(w)
    BY <2>1, <2>2, TokensAreFew DEF Bounded
  <2>4. \A r \in Askers : ~First(r, w)
    BY <1>1 DEF First, W!Idle
  <2> QED
    BY <2>1, <2>2, <2>3, <2>4 DEF Paced
<1> QED
  BY <1>3, <1>4 DEF WdgLimits

(* One request moves on, to a place that owes no more than before.         *)
LEMMA MovesOn ==
  ASSUME WdgLimits, NEW r \in Askers, NEW to \in {W!Idle} \cup Waiting \cup Answering,
         request' = [request EXCEPT ![r] = to], UNCHANGED spent,
         to.at \in {"funded", "first", "running"} =>
           request[r].at \in {"funded", "first"} /\ to.id = request[r].id,
         accepted' \in [Widgets -> Nat], rate' \in [Widgets -> [count : Nat, expires : BOOLEAN]],
         \A w \in Widgets : Paced(w)'
  PROVE  WdgLimits'
<1>1. /\ request \in [Askers -> {W!Idle} \cup Waiting \cup Answering]
      /\ request'[r] = to /\ \A o \in Askers \ {r} : request'[o] = request[o]
      /\ WdgTyped'
  BY DEF WdgLimits, WdgTyped
<1>2. ASSUME NEW w \in Widgets PROVE Bounded(w)'
  <2> PICK before, after : before = Tokens(w) /\ after = Tokens(w)'
    OBVIOUS
  <2>1. ASSUME NEW p \in after PROVE p \in before
    <3>1. CASE p[1] = r
      BY <1>1, <2>1, <3>1 DEF Tokens
    <3>2. CASE p[1] # r
      BY <1>1, <2>1, <3>2 DEF Tokens
    <3> QED
      BY <3>1, <3>2
  <2> QED
    BY <1>1, <2>1, TokensFewer
<1> QED
  BY <1>1, <1>2 DEF WdgLimits

(* The pace is the same where the counters and the messages that started   *)
(* one are, but for one that leaves.                                       *)
LEMMA PaceKept ==
  ASSUME WdgLimits, NEW w \in Widgets, rate'[w] = rate[w], accepted'[w] = accepted[w],
         \A r \in Askers : First(r, w)' => First(r, w)
  PROVE  Paced(w)'
  BY DEF WdgLimits, Paced

LEMMA WdgArrives ==
  ASSUME WdgLimits, NEW r \in Askers,
         \/ \E w \in Widgets, token \in Widgets \cup {None} : W!Arrive(r, w, token)
         \/ W!CountNewcomer(r) \/ W!EndRequest(r)
  PROVE  WdgLimits'
<1>0. /\ request \in [Askers -> {W!Idle} \cup Waiting \cup Answering]
      /\ accepted \in [Widgets -> Nat] /\ rate \in [Widgets -> [count : Nat, expires : BOOLEAN]]
      /\ TurnCost \in Nat
  BY WidgetsAssumption DEF WdgLimits, WdgTyped
<1> SUFFICES ASSUME NEW to \in {W!Idle} \cup Waiting \cup Answering, to.at # "first",
                    request' = [request EXCEPT ![r] = to],
                    UNCHANGED <<spent, rate, accepted>>,
                    to.at \in {"funded", "first", "running"} =>
                      request[r].at \in {"funded", "first"} /\ to.id = request[r].id
             PROVE  WdgLimits'
  <2>1. ASSUME NEW w \in Widgets, NEW token \in Widgets \cup {None}, W!Arrive(r, w, token)
        PROVE  WdgLimits'
    <3> DEFINE to == [at |-> "arrived", id |-> w, known |-> W!KnownToken(token, w)]
    <3>1. to \in Waiting /\ to.at = "arrived"
      BY DEF Waiting, W!KnownToken
    <3> QED
      BY <2>1, <3>1 DEF W!Arrive
  <2>2. CASE W!CountNewcomer(r)
    <3> DEFINE to == W!Running(r)
    <3>1. request[r].at = "funded" /\ request[r] \in Waiting
      BY <1>0, <2>2 DEF W!CountNewcomer, W!Idle, Answering
    <3>2. to \in Answering /\ to.at = "running" /\ to.id = request[r].id
      BY <1>0, <3>1 DEF Waiting, Answering, W!Running
    <3> QED
      BY <2>2, <3>1, <3>2 DEF W!CountNewcomer
  <2>3. CASE W!EndRequest(r)
    <3>1. W!Idle.at = "idle"
      BY DEF W!Idle
    <3> QED
      BY <2>3, <3>1 DEF W!EndRequest
  <2> QED
    BY <2>1, <2>2, <2>3
<1>1. ASSUME NEW w \in Widgets PROVE Paced(w)'
  <2>1. \A o \in Askers : First(o, w)' => First(o, w)
    BY <1>0 DEF First
  <2> QED
    BY <2>1, PaceKept
<1> QED
  BY <1>0, <1>1, MovesOn

(* A turn is let in below the ceiling, and costs its tokens at most.       *)
LEMMA WdgFunds ==
  ASSUME WdgLimits, NEW r \in Askers, W!CheckCeiling(r)
  PROVE  WdgLimits'
<1>0. /\ request \in [Askers -> {W!Idle} \cup Waiting \cup Answering]
      /\ accepted \in [Widgets -> Nat] /\ rate \in [Widgets -> [count : Nat, expires : BOOLEAN]]
      /\ spent \in [Widgets -> Nat] /\ Ceiling \in Nat
  BY WidgetsAssumption DEF WdgLimits, WdgTyped
<1>1. request[r].at = "arrived" /\ request[r] \in Waiting /\ UNCHANGED <<spent, rate, accepted>>
  BY <1>0 DEF W!CheckCeiling, W!Idle, Answering
<1>2. ASSUME NEW to, request' = [request EXCEPT ![r] = to], to.at # "first", NEW w \in Widgets
      PROVE  Paced(w)'
  <2>1. \A o \in Askers : First(o, w)' => First(o, w)
    BY <1>0, <1>2 DEF First
  <2> QED
    BY <1>1, <2>1, PaceKept
<1>3. CASE ~W!BelowCeiling(request[r].id)
  <2>1. request' = [request EXCEPT ![r] = W!Idle] /\ W!Idle.at = "idle"
    BY <1>3 DEF W!CheckCeiling, W!Idle
  <2> QED
    BY <1>0, <1>1, <1>2, <2>1, MovesOn
<1>4. CASE W!BelowCeiling(request[r].id)
  <2> PICK to : to = [request[r] EXCEPT !.at = "funded"]
    OBVIOUS
  <2>1. request' = [request EXCEPT ![r] = to]
    BY <1>4 DEF W!CheckCeiling
  <2>2. to \in Waiting /\ to.at = "funded" /\ to.id = request[r].id
    BY <1>1 DEF Waiting
  <2>3. /\ request'[r] = to /\ \A o \in Askers \ {r} : request'[o] = request[o]
        /\ WdgTyped'
    BY <1>0, <1>1, <2>1, <2>2 DEF WdgTyped
  <2>4. ASSUME NEW w \in Widgets PROVE Bounded(w)'
    <3> PICK before, after : before = Tokens(w) /\ after = Tokens(w)'
      OBVIOUS
    <3>1. CASE w = to.id
      <4>1. spent[w] < Ceiling /\ spent[w] \in Nat
        BY <1>0, <1>4, <2>2, <3>1 DEF W!BelowCeiling
      <4>2. \A t : t = Tokens(w)' => Cardinality(t) \in Nat /\ Cardinality(t) <= AllTokens
        <5>1. TurnCost \in Nat /\ IsFiniteSet(Askers)
          BY WidgetsAssumption
        <5>2. IsFiniteSet(1 .. TurnCost) /\ Cardinality(1 .. TurnCost) = TurnCost
          BY <5>1, FS_Interval
        <5>3. /\ IsFiniteSet(Askers \X (1 .. TurnCost))
              /\ Cardinality(Askers \X (1 .. TurnCost)) = AllTokens
          BY <5>1, <5>2, FS_Product DEF AllTokens
        <5>4. after \subseteq Askers \X (1 .. TurnCost)
          BY DEF Tokens
        <5>5. IsFiniteSet(after) /\ Cardinality(after) <= AllTokens
          BY <5>3, <5>4, FS_Subset
        <5> QED
          BY <5>5, FS_CardinalityType
      <4>3. AllTokens \in Nat
        BY TokensAreFew
      <4>4. spent[w] + Cardinality(after) <= Ceiling - 1 + AllTokens
        BY <1>0, <4>1, <4>2, <4>3
      <4> QED
        BY <1>1, <4>4 DEF Bounded, AllTokens
    <3>2. CASE w # to.id
      <4>1. ASSUME NEW p \in after PROVE p \in before
        BY <2>3, <3>2, <4>1 DEF Tokens
      <4> QED
        BY <1>1, <2>3, <4>1, TokensFewer
    <3> QED
      BY <3>1, <3>2
  <2> QED
    BY <1>2, <2>1, <2>2, <2>3, <2>4 DEF WdgLimits
<1> QED
  BY <1>3, <1>4

(* The counter of a returning visitor is raised.                           *)
LEMMA WdgCounts ==
  ASSUME WdgLimits, NEW r \in Askers, W!IncrementRate(r)
  PROVE  WdgLimits'
<1>0. /\ request \in [Askers -> {W!Idle} \cup Waiting \cup Answering]
      /\ accepted \in [Widgets -> Nat] /\ rate \in [Widgets -> [count : Nat, expires : BOOLEAN]]
      /\ TurnCost \in Nat /\ HourlyLimit \in Nat \ {0}
  BY WidgetsAssumption DEF WdgLimits, WdgTyped
<1> PICK w : w = request[r].id
  OBVIOUS
<1>1. request[r].at = "funded" /\ request[r] \in Waiting /\ w \in Widgets
  BY <1>0 DEF W!IncrementRate, W!Idle, Waiting, Answering
<1>2. rate[w] \in [count : Nat, expires : BOOLEAN] /\ rate[w].count \in Nat
      /\ accepted[w] \in Nat /\ Paced(w)
  BY <1>0, <1>1 DEF WdgLimits
<1> PICK n : n = IF rate[w].count > HourlyLimit THEN rate[w].count ELSE rate[w].count + 1
  OBVIOUS
<1>3. n \in Nat /\ n >= rate[w].count /\ n > 0
      /\ (rate[w].count <= HourlyLimit => n = rate[w].count + 1)
  BY <1>0, <1>2
<1>4. rate' = [rate EXCEPT ![w].count = n]
  BY DEF W!IncrementRate, W!Raised
<1>5. /\ rate' \in [Widgets -> [count : Nat, expires : BOOLEAN]]
      /\ rate'[w].count = n /\ rate'[w].expires = rate[w].expires
      /\ \A v \in Widgets \ {w} : rate'[v] = rate[v]
  BY <1>0, <1>1, <1>3, <1>4
<1>6. UNCHANGED spent
  BY DEF W!IncrementRate
<1>7. ASSUME NEW to \in {W!Idle} \cup Waiting \cup Answering, NEW v \in Widgets, v # w,
             request' = [request EXCEPT ![r] = to], accepted'[v] = accepted[v],
             to.at = "first" => to.id = w
      PROVE  Paced(v)'
  <2>1. \A o \in Askers : First(o, v)' => First(o, v)
    BY <1>0, <1>7 DEF First
  <2> QED
    BY <1>5, <1>7, <2>1, PaceKept
<1>8. CASE rate[w].count = 0
  <2> PICK to : to = [request[r] EXCEPT !.at = "first"]
    OBVIOUS
  <2>1. request' = [request EXCEPT ![r] = to] /\ UNCHANGED accepted
    BY <1>8 DEF W!IncrementRate
  <2>2. to \in Waiting /\ to.at = "first" /\ to.id = w
    BY <1>1 DEF Waiting
  <2>3. accepted[w] = 0 /\ ~rate[w].expires /\ n = 1
    BY <1>0, <1>2, <1>3, <1>8 DEF Paced
  <2>4. \A o \in Askers : ~First(o, w)
    BY <1>2, <1>8, <2>3 DEF Paced
  <2>5. \A o \in Askers : First(o, w)' => o = r
    BY <1>0, <2>1, <2>4 DEF First
  <2>6. accepted'[w] = 0 /\ rate'[w].count = 1 /\ ~rate'[w].expires
    BY <1>5, <2>1, <2>3
  <2>7. Paced(w)'
    BY <1>0, <2>5, <2>6 DEF Paced
  <2>8. ASSUME NEW v \in Widgets PROVE Paced(v)'
    BY <1>7, <2>1, <2>2, <2>7
  <2> QED
    BY <1>0, <1>1, <1>5, <1>6, <2>1, <2>2, <2>8, MovesOn
<1>9. CASE rate[w].count # 0 /\ rate[w].count >= HourlyLimit
  <2>1. request' = [request EXCEPT ![r] = W!Idle] /\ UNCHANGED accepted /\ W!Idle.at = "idle"
    BY <1>9 DEF W!IncrementRate, W!Idle
  <2>2. \A o \in Askers : First(o, w)' => First(o, w)
    BY <1>0, <2>1 DEF First
  <2>3. Paced(w)'
    BY <1>0, <1>2, <1>3, <1>5, <2>1, <2>2 DEF Paced
  <2>4. ASSUME NEW v \in Widgets PROVE Paced(v)'
    BY <1>7, <2>1, <2>3
  <2> QED
    BY <1>0, <1>5, <1>6, <2>1, <2>4, MovesOn
<1>10. CASE rate[w].count # 0 /\ ~(rate[w].count >= HourlyLimit)
  <2> PICK to : to = W!Running(r)
    OBVIOUS
  <2>1. request' = [request EXCEPT ![r] = to]
        /\ accepted' = [accepted EXCEPT ![w] = @ + 1]
    BY <1>10 DEF W!IncrementRate
  <2>2. to \in Answering /\ to.at = "running" /\ to.id = w
    BY <1>0, <1>1 DEF Answering, W!Running
  <2>3. /\ accepted' \in [Widgets -> Nat] /\ accepted'[w] = accepted[w] + 1
        /\ \A v \in Widgets \ {w} : accepted'[v] = accepted[v]
    BY <1>0, <1>1, <2>1
  <2>4. \A o \in Askers : First(o, w)' => First(o, w)
    BY <1>0, <2>1, <2>2 DEF First
  <2>5. n = rate[w].count + 1 /\ rate[w].count < HourlyLimit
    BY <1>0, <1>2, <1>3, <1>10
  <2>6. Paced(w)'
    BY <1>0, <1>2, <1>5, <2>3, <2>4, <2>5 DEF Paced
  <2>7. ASSUME NEW v \in Widgets PROVE Paced(v)'
    BY <1>7, <2>1, <2>2, <2>3, <2>6
  <2> QED
    BY <1>0, <1>1, <1>5, <1>6, <2>1, <2>2, <2>3, <2>7, MovesOn
<1> QED
  BY <1>8, <1>9, <1>10

(* A message passes that Redis did not answer, whether it counted it or not. *)
LEMMA WdgSkips ==
  ASSUME WdgLimits, NEW r \in Askers, NEW raised \in BOOLEAN, W!SkipPace(r, raised)
  PROVE  WdgLimits'
<1>0. /\ request \in [Askers -> {W!Idle} \cup Waiting \cup Answering]
      /\ accepted \in [Widgets -> Nat] /\ rate \in [Widgets -> [count : Nat, expires : BOOLEAN]]
      /\ TurnCost \in Nat
  BY WidgetsAssumption DEF WdgLimits, WdgTyped
<1> PICK w, to : w = request[r].id /\ to = W!Running(r)
  OBVIOUS
<1>1. request[r].at = "funded" /\ request[r] \in Waiting /\ w \in Widgets
  BY <1>0 DEF W!SkipPace, W!Idle, Waiting, Answering
<1>2. request' = [request EXCEPT ![r] = to] /\ UNCHANGED <<spent, accepted>>
  BY DEF W!SkipPace
<1>3. to \in Answering /\ to.at = "running" /\ to.id = w
  BY <1>0, <1>1 DEF Answering, W!Running
<1>4. \A v \in Widgets, o \in Askers : First(o, v)' => First(o, v)
  BY <1>0, <1>2, <1>3 DEF First
<1>5. CASE ~raised
  <2>1. UNCHANGED rate
    BY <1>5 DEF W!SkipPace
  <2>2. \A v \in Widgets : Paced(v)'
    BY <1>2, <1>4, <2>1, PaceKept
  <2> QED
    BY <1>0, <1>1, <1>2, <1>3, <2>1, <2>2, MovesOn
<1>6. CASE raised
  <2>1. rate[w].count \in Nat /\ accepted[w] \in Nat /\ Paced(w) /\ HourlyLimit \in Nat
    BY <1>0, <1>1, WidgetsAssumption DEF WdgLimits
  <2> PICK n : n = IF rate[w].count > HourlyLimit THEN rate[w].count ELSE rate[w].count + 1
    OBVIOUS
  <2>2. n \in Nat /\ n >= rate[w].count /\ n > 0
    BY <2>1
  <2>3. rate' = [rate EXCEPT ![w].count = n]
    BY <1>6 DEF W!SkipPace, W!Raised
  <2>4. /\ rate' \in [Widgets -> [count : Nat, expires : BOOLEAN]]
        /\ rate'[w].count = n /\ rate'[w].expires = rate[w].expires
        /\ \A v \in Widgets \ {w} : rate'[v] = rate[v]
    BY <1>0, <1>1, <2>2, <2>3
  <2>5. accepted'[w] <= HourlyLimit /\ accepted'[w] <= n
    BY <1>2, <2>1, <2>2 DEF Paced
  <2>6. \A o \in Askers : First(o, w) => accepted'[w] < n
    BY <1>2, <2>1, <2>2 DEF Paced
  <2>7. Paced(w)'
    <3>1. \A o \in Askers : First(o, w)' =>
            /\ ~rate'[w].expires /\ accepted'[w] < HourlyLimit /\ accepted'[w] < n
            /\ \A x \in Askers : First(x, w)' => x = o
      BY <1>1, <1>2, <1>4, <2>1, <2>4, <2>6 DEF Paced
    <3> QED
      BY <2>2, <2>4, <2>5, <3>1 DEF Paced
  <2>8. ASSUME NEW v \in Widgets, v # w PROVE Paced(v)'
    BY <1>2, <1>4, <2>4, <2>8, PaceKept
  <2>9. \A v \in Widgets : Paced(v)'
    BY <2>7, <2>8
  <2> QED
    BY <1>0, <1>1, <1>2, <1>3, <2>4, <2>9, MovesOn
<1> QED
  BY <1>5, <1>6

(* The counter gets its hour, if Redis answers, and the message that       *)
(* started it goes on.                                                     *)
LEMMA WdgGivesAnHour ==
  ASSUME WdgLimits, NEW r \in Askers, NEW set \in BOOLEAN, W!SetExpiry(r, set)
  PROVE  WdgLimits'
<1>0. /\ request \in [Askers -> {W!Idle} \cup Waiting \cup Answering]
      /\ accepted \in [Widgets -> Nat] /\ rate \in [Widgets -> [count : Nat, expires : BOOLEAN]]
      /\ TurnCost \in Nat /\ HourlyLimit \in Nat \ {0}
  BY WidgetsAssumption DEF WdgLimits, WdgTyped
<1> PICK w, on, to : /\ w = request[r].id /\ to = W!Running(r)
                     /\ on = (rate[w].expires \/ (set /\ rate[w].count > 0))
  OBVIOUS
<1>1. request[r].at = "first" /\ request[r] \in Waiting /\ w \in Widgets
  BY <1>0 DEF W!SetExpiry, W!Idle, Waiting, Answering
<1>2. rate[w].count \in Nat /\ rate[w].expires \in BOOLEAN /\ accepted[w] \in Nat /\ Paced(w)
  BY <1>0, <1>1 DEF WdgLimits
<1>3. /\ rate' = [rate EXCEPT ![w].expires = on] /\ request' = [request EXCEPT ![r] = to]
      /\ accepted' = [accepted EXCEPT ![w] = @ + 1] /\ UNCHANGED spent
  BY DEF W!SetExpiry
<1>4. on \in BOOLEAN
  OBVIOUS
<1>5. /\ rate' \in [Widgets -> [count : Nat, expires : BOOLEAN]]
      /\ rate'[w].count = rate[w].count /\ rate'[w].expires = on
      /\ \A v \in Widgets \ {w} : rate'[v] = rate[v]
  BY <1>0, <1>1, <1>3, <1>4
<1>6. /\ accepted' \in [Widgets -> Nat] /\ accepted'[w] = accepted[w] + 1
      /\ \A v \in Widgets \ {w} : accepted'[v] = accepted[v]
  BY <1>0, <1>1, <1>3
<1>7. to \in Answering /\ to.at = "running" /\ to.id = w
  BY <1>0, <1>1 DEF Answering, W!Running
<1>8. First(r, w)
  BY <1>1 DEF First
<1>9. /\ accepted[w] < HourlyLimit /\ accepted[w] < rate[w].count
      /\ \A o \in Askers : First(o, w) => o = r
  BY <1>2, <1>8 DEF Paced
<1>10. \A o \in Askers : ~First(o, w)'
  BY <1>0, <1>3, <1>7, <1>9 DEF First
<1>11. Paced(w)'
  BY <1>0, <1>2, <1>5, <1>6, <1>9, <1>10 DEF Paced
<1>12. ASSUME NEW v \in Widgets, v # w PROVE Paced(v)'
  <2>1. \A o \in Askers : First(o, v)' => First(o, v)
    BY <1>0, <1>3, <1>7 DEF First
  <2> QED
    BY <1>5, <1>6, <1>12, <2>1, PaceKept
<1>13. \A v \in Widgets : Paced(v)'
  BY <1>11, <1>12
<1> QED
  BY <1>0, <1>1, <1>3, <1>5, <1>6, <1>7, <1>13, MovesOn

(* The hour passes for a counter that has one, and nobody has just begun.  *)
LEMMA WdgHourPasses ==
  ASSUME WdgLimits, NEW w \in Widgets, W!ExpireRate(w)
  PROVE  WdgLimits'
<1>0. /\ accepted \in [Widgets -> Nat] /\ rate \in [Widgets -> [count : Nat, expires : BOOLEAN]]
      /\ HourlyLimit \in Nat
  BY WidgetsAssumption DEF WdgLimits, WdgTyped
<1>1. /\ rate[w].expires /\ rate' = [rate EXCEPT ![w] = W!NoRate]
      /\ accepted' = [accepted EXCEPT ![w] = 0] /\ UNCHANGED <<request, spent>>
  BY DEF W!ExpireRate
<1>2. W!NoRate \in [count : Nat, expires : BOOLEAN] /\ W!NoRate.count = 0 /\ ~W!NoRate.expires
  BY DEF W!NoRate
<1>3. /\ rate' \in [Widgets -> [count : Nat, expires : BOOLEAN]] /\ rate'[w] = W!NoRate
      /\ \A v \in Widgets \ {w} : rate'[v] = rate[v]
  BY <1>0, <1>1, <1>2
<1>4. /\ accepted' \in [Widgets -> Nat] /\ accepted'[w] = 0
      /\ \A v \in Widgets \ {w} : accepted'[v] = accepted[v]
  BY <1>0, <1>1
<1>5. \A o \in Askers : ~First(o, w)'
  BY <1>1 DEF WdgLimits, Paced, First
<1>6. Paced(w)'
  BY <1>0, <1>2, <1>3, <1>4, <1>5 DEF Paced
<1>7. ASSUME NEW v \in Widgets, v # w PROVE Paced(v)'
  <2>1. \A o \in Askers : First(o, v)' => First(o, v)
    BY <1>1 DEF First
  <2> QED
    BY <1>3, <1>4, <1>7, <2>1, PaceKept
<1>8. ASSUME NEW v \in Widgets PROVE Bounded(v)'
  BY <1>1 DEF WdgLimits, Bounded, Tokens, AllTokens
<1> QED
  BY <1>1, <1>3, <1>4, <1>6, <1>7, <1>8 DEF WdgLimits, WdgTyped

(* Speech costs tokens of its turn, and nothing that is counted.           *)
LEMMA WdgSpeaks ==
  ASSUME WdgLimits, NEW r \in Askers, W!ChargeSpeech(r)
  PROVE  WdgLimits'
<1>0. /\ request \in [Askers -> {W!Idle} \cup Waiting \cup Answering]
      /\ TurnCost \in Nat
  BY WidgetsAssumption DEF WdgLimits, WdgTyped
<1> PICK n, to : n = request[r].left /\ to = [request[r] EXCEPT !.left = n - 1]
  OBVIOUS
<1>1. request[r].at = "running" /\ n > 0 /\ request[r] \in Answering
  BY <1>0 DEF W!ChargeSpeech, W!Idle, Waiting
<1>2. n \in 1 .. TurnCost /\ n - 1 \in 0 .. TurnCost
  BY <1>0, <1>1 DEF Answering
<1>3. /\ to \in Answering /\ to.at = "running" /\ to.id = request[r].id /\ to.left = n - 1
  BY <1>1, <1>2 DEF Answering
<1>4. request' = [request EXCEPT ![r] = to] /\ UNCHANGED <<spent, rate, accepted>>
  BY DEF W!ChargeSpeech
<1>5. /\ request'[r] = to /\ \A o \in Askers \ {r} : request'[o] = request[o]
      /\ request' \in [Askers -> {W!Idle} \cup Waiting \cup Answering]
  BY <1>0, <1>3, <1>4
<1>6. WdgTyped'
  BY <1>4, <1>5 DEF WdgLimits, WdgTyped
<1>7. ASSUME NEW v \in Widgets PROVE Paced(v)' /\ Bounded(v)'
  <2>1. \A o \in Askers : First(o, v)' => First(o, v)
    BY <1>3, <1>5 DEF First
  <2> PICK before, after : before = Tokens(v) /\ after = Tokens(v)'
    OBVIOUS
  <2>2. ASSUME NEW p \in after PROVE p \in before
    <3>1. p \in Askers \X (1 .. TurnCost) /\ p[2] \in Nat
      BY <1>0, <2>2 DEF Tokens
    <3>2. CASE p[1] = r
      <4>1. p[2] <= n - 1
        BY <1>3, <1>5, <2>2, <3>2 DEF Tokens
      <4>2. p[2] <= n
        BY <1>2, <3>1, <4>1
      <4>3. p[1] = r /\ request[r].at = "running" /\ request[r].id = v
        BY <1>1, <1>3, <1>5, <2>2, <3>2 DEF Tokens
      <4> QED
        BY <3>1, <4>2, <4>3 DEF Tokens
    <3>3. CASE p[1] # r
      BY <1>5, <2>2, <3>1, <3>3 DEF Tokens
    <3> QED
      BY <3>2, <3>3
  <2> QED
    BY <1>4, <1>6, <2>1, <2>2, PaceKept, TokensFewer
<1> QED
  BY <1>6, <1>7 DEF WdgLimits

(* A step is charged out of the tokens of its turn.                        *)
LEMMA WdgCharges ==
  ASSUME WdgLimits, NEW r \in Askers, W!ChargeStep(r)
  PROVE  WdgLimits'
<1>0. /\ request \in [Askers -> {W!Idle} \cup Waiting \cup Answering]
      /\ spent \in [Widgets -> Nat] /\ TurnCost \in Nat /\ Ceiling \in Nat
  BY WidgetsAssumption DEF WdgLimits, WdgTyped
<1> PICK w, n, to : /\ w = request[r].id /\ n = request[r].left
                    /\ to = [request[r] EXCEPT !.left = n - 1]
  OBVIOUS
<1>1. request[r].at = "running" /\ n > 0 /\ request[r] \in Answering
  BY <1>0 DEF W!ChargeStep, W!Idle, Waiting
<1>2. w \in Widgets /\ n \in 1 .. TurnCost /\ n - 1 \in 0 .. TurnCost
  BY <1>0, <1>1 DEF Answering
<1>3. to \in Answering /\ to.at = "running" /\ to.id = w /\ to.left = n - 1
  BY <1>1, <1>2 DEF Answering
<1>4. /\ spent' = [spent EXCEPT ![w] = @ + 1] /\ request' = [request EXCEPT ![r] = to]
      /\ UNCHANGED <<rate, accepted>>
  BY DEF W!ChargeStep
<1>5. /\ request'[r] = to /\ \A o \in Askers \ {r} : request'[o] = request[o]
      /\ request' \in [Askers -> {W!Idle} \cup Waiting \cup Answering]
  BY <1>0, <1>3, <1>4
<1>6. /\ spent' \in [Widgets -> Nat] /\ spent'[w] = spent[w] + 1
      /\ \A v \in Widgets \ {w} : spent'[v] = spent[v]
  BY <1>0, <1>2, <1>4
<1>7. WdgTyped'
  BY <1>4, <1>5, <1>6 DEF WdgLimits, WdgTyped
<1>8. ASSUME NEW v \in Widgets PROVE Paced(v)'
  <2>1. \A o \in Askers : First(o, v)' => First(o, v)
    BY <1>3, <1>5 DEF First
  <2> QED
    BY <1>4, <2>1, PaceKept
<1>9. ASSUME NEW v \in Widgets \ {w} PROVE Bounded(v)'
  <2> PICK before, after : before = Tokens(v) /\ after = Tokens(v)'
    OBVIOUS
  <2>1. ASSUME NEW p \in after PROVE p \in before
    BY <1>3, <1>5, <2>1 DEF Tokens
  <2> QED
    BY <1>6, <1>7, <2>1, TokensFewer
<1>10. Bounded(w)'
  <2> PICK before, after, p : before = Tokens(w) /\ after = Tokens(w)' /\ p = <<r, n>>
    OBVIOUS
  <2>1. p \in before
    BY <1>1, <1>2 DEF Tokens
  <2>2. ASSUME NEW q \in after PROVE q \in before \ {p}
    <3>1. q \in Askers \X (1 .. TurnCost) /\ q = <<q[1], q[2]>> /\ q[2] \in 1 .. TurnCost
      BY <2>2 DEF Tokens
    <3>2. CASE q[1] = r
      <4>1. q[2] <= n - 1
        BY <1>3, <1>5, <2>2, <3>2 DEF Tokens
      <4>2. q[2] <= n /\ q[2] # n
        BY <1>2, <3>1, <4>1
      <4> QED
        BY <1>1, <3>1, <3>2, <4>2 DEF Tokens
    <3>3. CASE q[1] # r
      BY <1>5, <2>2, <3>1, <3>3 DEF Tokens
    <3> QED
      BY <3>2, <3>3
  <2>3. IsFiniteSet(before) /\ Cardinality(before) \in Nat /\ AllTokens \in Nat
    BY TokensAreFew
  <2>4. IsFiniteSet(before \ {p}) /\ Cardinality(before \ {p}) = Cardinality(before) - 1
    BY <2>1, <2>3, FS_RemoveElement
  <2>5. IsFiniteSet(after) /\ Cardinality(after) <= Cardinality(before \ {p})
    BY <2>2, <2>4, FS_Subset
  <2>6. Cardinality(after) \in Nat
    BY <2>5, FS_CardinalityType
  <2>7. spent[w] + Cardinality(before) <= Ceiling - 1 + AllTokens /\ spent[w] \in Nat
    BY <1>0, <1>2 DEF WdgLimits, Bounded
  <2>8. spent[w] + 1 + Cardinality(after) <= Ceiling - 1 + AllTokens
    BY <1>0, <2>3, <2>4, <2>5, <2>6, <2>7
  <2> QED
    BY <1>6, <2>8 DEF Bounded, AllTokens
<1> QED
  BY <1>7, <1>8, <1>9, <1>10 DEF WdgLimits

(* A new day starts from nothing, with the turns of the old one.           *)
LEMMA WdgNewDay ==
  ASSUME WdgLimits, W!Midnight
  PROVE  WdgLimits'
<1>1. spent' = [w \in Widgets |-> 0] /\ UNCHANGED <<request, rate, accepted>>
  BY DEF W!Midnight
<1>2. WdgTyped'
  BY <1>1 DEF WdgLimits, WdgTyped
<1>3. ASSUME NEW w \in Widgets PROVE Paced(w)'
  <2>1. \A o \in Askers : First(o, w)' => First(o, w)
    BY <1>1 DEF First
  <2> QED
    BY <1>1, <2>1, PaceKept
<1>4. ASSUME NEW w \in Widgets PROVE Bounded(w)'
  <2>1. Tokens(w)' = Tokens(w) /\ spent'[w] = 0
    BY <1>1 DEF Tokens
  <2>2. Ceiling \in Nat \ {0}
    BY WidgetsAssumption
  <2>3. 0 + Cardinality(Tokens(w)) <= Ceiling - 1 + AllTokens
    BY <2>2, TokensAreFew
  <2> QED
    BY <2>1, <2>3 DEF Bounded, AllTokens
<1> QED
  BY <1>2, <1>3, <1>4 DEF WdgLimits

LEMMA WdgLimitsKept ==
  ASSUME WdgLimits, UNCHANGED <<request, spent, rate, accepted>>
  PROVE  WdgLimits'
  BY DEF WdgLimits, WdgTyped, Bounded, Paced, Tokens, AllTokens, First

LEMMA WdgLimitsStep ==
  ASSUME WdgLimits, W!WdgNext \/ UNCHANGED wdgVars
  PROVE  WdgLimits'
<1>1. CASE UNCHANGED wdgVars
  BY <1>1, WdgLimitsKept DEF wdgVars
<1>2. ASSUME NEW s \in Writers, NEW w \in Widgets, NEW n \in Names, NEW on \in BOOLEAN,
             W!StartSave(s, w, n, on)
      PROVE  WdgLimits'
  BY <1>2, WdgLimitsKept DEF W!StartSave
<1>3. ASSUME NEW s \in Writers, W!WriteWidget(s) PROVE WdgLimits'
  BY <1>3, WdgLimitsKept DEF W!WriteWidget
<1>4. ASSUME NEW w \in Widgets, W!RemoveWidget(w) PROVE WdgLimits'
  BY <1>4, WdgLimitsKept DEF W!RemoveWidget
<1>5. ASSUME NEW w \in Widgets, W!ExpireRate(w) PROVE WdgLimits'
  BY <1>5, WdgHourPasses
<1>6. ASSUME NEW r \in Askers, NEW w \in Widgets, NEW token \in Widgets \cup {None},
             W!Arrive(r, w, token)
      PROVE  WdgLimits'
  BY <1>6, WdgArrives
<1>7. ASSUME NEW r \in Askers, \/ W!CheckCeiling(r) \/ W!CountNewcomer(r) \/ W!ChargeStep(r)
                               \/ W!ChargeSpeech(r) \/ W!EndRequest(r) \/ W!IncrementRate(r)
      PROVE  WdgLimits'
  BY <1>7, WdgArrives, WdgFunds, WdgCounts, WdgCharges, WdgSpeaks
<1>8. ASSUME NEW r \in Askers, NEW done \in BOOLEAN, W!SkipPace(r, done) \/ W!SetExpiry(r, done)
      PROVE  WdgLimits'
  BY <1>8, WdgSkips, WdgGivesAnHour
<1>9. CASE W!Midnight
  BY <1>9, WdgNewDay
<1> QED
  BY <1>1, <1>2, <1>3, <1>4, <1>5, <1>6, <1>7, <1>8, <1>9 DEF W!WdgNext

(* The bounds follow.                                                      *)
LEMMA WdgInvIsEnough == WdgKeys /\ WdgLimits => W!WidgetsAreBounded
<1> SUFFICES ASSUME WdgKeys, WdgLimits PROVE W!WidgetsAreBounded
  OBVIOUS
<1>1. used \subseteq Widgets /\ W!Live \subseteq used
  BY DEF WdgKeys, KeysFit, W!Live, W!Exists
<1>2. ASSUME NEW w \in Widgets
      PROVE  /\ spent[w] <= Ceiling - 1 + Cardinality(Askers) * TurnCost
             /\ accepted[w] <= HourlyLimit
             /\ W!Exists(w) => widget[w].key = published[w]
  <2>1. /\ spent[w] + Cardinality(Tokens(w)) <= Ceiling - 1 + AllTokens /\ spent[w] \in Nat
        /\ accepted[w] <= HourlyLimit
    BY DEF WdgLimits, WdgTyped, Bounded, Paced
  <2>2. Cardinality(Tokens(w)) \in Nat /\ AllTokens \in Nat /\ Ceiling \in Nat
    BY TokensAreFew, WidgetsAssumption
  <2>3. spent[w] <= Ceiling - 1 + AllTokens
    BY <2>1, <2>2
  <2> QED
    BY <2>1, <2>3 DEF WdgKeys, KeysFit, W!Exists, AllTokens
<1>3. ASSUME NEW v \in W!Live, NEW w \in W!Live, v # w
      PROVE  widget[v].name # widget[w].name /\ widget[v].key # widget[w].key
  <2>1. v \in Widgets /\ w \in Widgets /\ widget[v] # None /\ widget[w] # None
    BY DEF W!Live, W!Exists
  <2>2. published[v] = widget[v].key /\ published[w] = widget[w].key
    BY <2>1 DEF WdgKeys, KeysFit
  <2>3. widget[v] \in W!ChatWidgetRow /\ widget[v].key \in Nat
    BY <2>1 DEF WdgKeys, W!ChatWidgetRow
  <2>4. published[v] # None
    BY <2>2, <2>3, NoneAssumption
  <2> QED
    BY <1>3, <2>1, <2>2, <2>4 DEF WdgKeys, KeysFit
<1>4. W!Cardinality(Askers) = Cardinality(Askers)
  BY DEF W!Cardinality, Cardinality
<1>5. \A w \in Widgets :
        /\ spent[w] <= Ceiling - 1 + W!Cardinality(Askers) * TurnCost
        /\ accepted[w] <= HourlyLimit
        /\ W!Exists(w) => widget[w].key = published[w]
  BY <1>2, <1>4
<1> QED
  BY <1>1, <1>3, <1>5 DEF W!WidgetsAreBounded

--------------------------------------------------------------------------------
(* What a run that remembers, and one that recalls, hold between two steps. *)
Rows == M!AgentMemoryRow \cup {None}
Vectors == {Dimensions[e] : e \in Embeddings}
Points == [user : M!Scopes, width : Vectors] \cup {None}
Embedded == [at : {"embedded"}, scope : M!Scopes, fact : Facts, embedding : Embeddings]
Inserted == [at : {"inserted"}, scope : M!Scopes, embedding : Embeddings, row : M!Numbers]
Indexed == [at : {"indexed"}, scope : M!Scopes, embedding : Embeddings]
Counted == [at : {"counted"}, scope : M!Scopes, embedding : Embeddings, excess : Nat]
Evicting == [at : {"evicting"}, embedding : Embeddings, rows : SUBSET M!Numbers]
Remembering == {M!Idle} \cup Embedded \cup Inserted \cup Indexed \cup Counted \cup Evicting
Found == [at : {"found"}, scope : M!Scopes, hits : SUBSET M!Numbers,
          embedding : Embeddings]
Recalled == [at : {"recalled"}, scope : M!Scopes, embedding : Embeddings,
             rows : SUBSET M!Numbers]
Recalling == {M!Idle} \cup Found \cup Recalled

MemTyped ==
  /\ account \subseteq Users /\ setting \in Embeddings /\ written \in 0 .. MaxMemories
  /\ memory \in [M!Numbers -> Rows] /\ point \in [M!Numbers -> Points]
  /\ wrote \in [M!Numbers -> Rows]
  /\ writer \in [Writers -> Remembering] /\ reader \in [Readers -> Recalling]
  /\ recency \subseteq M!Held \X M!Held
  /\ \A n \in M!Numbers : memory[n] # None \/ point[n] # None => n <= written

(* A row and a point are of whom the memory was written about, or the row  *)
(* is of nobody because they left.                                         *)
Kept(n) ==
  /\ memory[n] # None =>
       \/ memory[n].user = wrote[n].user
       \/ memory[n].user = Shared /\ wrote[n].user \notin account
  /\ point[n] # None =>
       point[n] = [user |-> wrote[n].user, width |-> Dimensions[wrote[n].embedding]]

(* A writer between its row and its point has what it wrote.               *)
Wrote(w) ==
  /\ writer[w].row <= written
  /\ wrote[writer[w].row].user = writer[w].scope
  /\ wrote[writer[w].row].embedding = writer[w].embedding

(* What a recall has found or read is theirs, and of the width it searched.  *)
Seen(r) == IF reader[r].at = "found" THEN reader[r].hits
           ELSE IF reader[r].at = "recalled" THEN reader[r].rows ELSE {}
Theirs(r) ==
  \A n \in Seen(r) :
    /\ n <= written
    /\ wrote[n].user \in {Shared, reader[r].scope}
    /\ Dimensions[wrote[n].embedding] = Dimensions[reader[r].embedding]
MemLinks ==
  /\ \A n \in M!Numbers : Kept(n)
  /\ \A w \in Writers : writer[w].at = "inserted" => Wrote(w)
  /\ \A r \in Readers : Theirs(r)

(* Unless it was cut, a scope over its cap has a writer that will bring it *)
(* back: one that has yet to count it, has counted it, or has what it will *)
(* evict.                                                                  *)
Relieves(w, scope) ==
  \/ writer[w].at \in {"inserted", "indexed"} /\ writer[w].scope = scope
  \/ /\ writer[w].at = "counted" /\ writer[w].scope = scope
     /\ Cardinality(M!InScope(scope)) <= MaxPerScope + writer[w].excess
  \/ /\ writer[w].at = "evicting"
     /\ Cardinality(M!InScope(scope) \ writer[w].rows) <= MaxPerScope
Capped(scope) ==
  \/ Cardinality(M!InScope(scope)) <= MaxPerScope
  \/ \E w \in Writers : Relieves(w, scope)
MemCap == cut \/ \A scope \in M!Scopes : Capped(scope)

MemInv == MemTyped /\ MemLinks /\ MemCap

LEMMA ScopesAreFinite ==
  ASSUME NEW scope
  PROVE  /\ M!InScope(scope) \subseteq M!Held /\ M!Held \subseteq M!Numbers
         /\ IsFiniteSet(M!Numbers) /\ IsFiniteSet(M!InScope(scope))
         /\ Cardinality(M!InScope(scope)) \in Nat
<1>1. M!InScope(scope) \subseteq M!Held /\ M!Held \subseteq M!Numbers
  BY DEF M!InScope, M!Held
<1>2. IsFiniteSet(M!Numbers)
  BY BoundsAssumption, FS_Interval DEF M!Numbers
<1> QED
  BY <1>1, <1>2, FS_Subset, FS_CardinalityType

LEMMA MemInvInit == MCInit => MemInv
<1> SUFFICES ASSUME M!MemInit PROVE MemInv
  BY DEF MCInit
<1>1. /\ account = Users /\ setting \in Embeddings /\ written = 0
      /\ memory = [n \in M!Numbers |-> None] /\ point = [n \in M!Numbers |-> None]
      /\ recency = {} /\ writer = [w \in Writers |-> M!Idle]
      /\ reader = [r \in Readers |-> M!Idle] /\ M!Idle.at = "idle"
      /\ wrote = [n \in M!Numbers |-> None]
  BY DEF M!MemInit, M!Idle
<1>2. written \in 0 .. MaxMemories
  BY <1>1, BoundsAssumption
<1>3. MemTyped
  BY <1>1, <1>2 DEF MemTyped, Rows, Points, Remembering, Recalling
<1>4. MemLinks
  BY <1>1 DEF MemLinks, Kept, Theirs, Seen
<1>5. ASSUME NEW scope PROVE Cardinality(M!InScope(scope)) <= MaxPerScope
  <2>1. M!InScope(scope) = {}
    BY <1>1 DEF M!InScope, M!Held
  <2> QED
    BY <2>1, FS_EmptySet, BoundsAssumption
<1> QED
  BY <1>3, <1>4, <1>5 DEF MemInv, MemCap, Capped

(* A writer goes on, and the stores stay as they are.                      *)
LEMMA WriterMoves ==
  ASSUME MemInv, NEW w \in Writers, NEW entry \in Remembering,
         writer' = [writer EXCEPT ![w] = entry], entry.at # "inserted",
         UNCHANGED <<account, setting, memory, point, recency, reader, written, wrote>>,
         cut' \/ /\ UNCHANGED cut
                 /\ \A scope \in M!Scopes :
                      Relieves(w, scope) =>
                        Cardinality(M!InScope(scope)) <= MaxPerScope \/ Relieves(w, scope)'
  PROVE  MemInv'
<1>1. MemTyped /\ MemLinks /\ MemCap
  BY DEF MemInv
<1>2. /\ writer' \in [Writers -> Remembering] /\ writer'[w] = entry
      /\ \A v \in Writers \ {w} : writer'[v] = writer[v]
  BY <1>1 DEF MemTyped
<1>3. MemTyped'
  BY <1>1, <1>2 DEF MemTyped, M!Held
<1>4. MemLinks'
  <2>1. \A v \in Writers : writer'[v].at = "inserted" => v # w /\ writer'[v] = writer[v]
    BY <1>2
  <2>2. \A n \in M!Numbers : Kept(n)'
    BY <1>1 DEF MemLinks, Kept
  <2>3. \A r \in Readers : Theirs(r)'
    BY <1>1 DEF MemLinks, Theirs, Seen
  <2> QED
    BY <1>1, <2>1, <2>2, <2>3 DEF MemLinks, Wrote
<1>5. MemCap'
  <2>1. CASE cut'
    BY <2>1 DEF MemCap
  <2>2. CASE UNCHANGED cut /\ \A scope \in M!Scopes :
               Relieves(w, scope) =>
                 Cardinality(M!InScope(scope)) <= MaxPerScope \/ Relieves(w, scope)'
    <3> SUFFICES ASSUME ~cut, NEW scope \in M!Scopes PROVE Capped(scope)'
      BY <2>2 DEF MemCap
    <3>1. M!InScope(scope)' = M!InScope(scope)
      BY DEF M!InScope, M!Held
    <3>2. ASSUME NEW v \in Writers, v # w, Relieves(v, scope) PROVE Relieves(v, scope)'
      BY <1>2, <3>1, <3>2 DEF Relieves
    <3>3. Capped(scope)
      BY <1>1 DEF MemCap
    <3> QED
      BY <2>2, <3>1, <3>2, <3>3 DEF Capped
  <2> QED
    BY <2>1, <2>2
<1> QED
  BY <1>3, <1>4, <1>5 DEF MemInv

(* Rows that are used become the most recent.                              *)
LEMMA TouchedAreHeld ==
  ASSUME MemTyped, NEW ns PROVE M!Touched(ns) \subseteq M!Held \X M!Held
  BY DEF MemTyped, M!Touched

LEMMA NothingMoves ==
  ASSUME MemInv, UNCHANGED <<memory, point, writer, reader, written, wrote, cut>>,
         recency' \subseteq M!Held \X M!Held, setting' \in Embeddings, account' \subseteq account
  PROVE  MemInv'
<1>1. MemTyped'
  BY DEF MemInv, MemTyped, M!Held
<1>2. MemLinks'
  BY DEF MemInv, MemLinks, Kept, Theirs, Wrote, Seen
<1>3. ASSUME NEW scope PROVE Capped(scope)' <=> Capped(scope)
  <2>1. M!InScope(scope)' = M!InScope(scope)
    BY DEF M!InScope, M!Held
  <2> QED
    BY <2>1 DEF Capped, Relieves
<1>4. MemCap'
  BY <1>3 DEF MemInv, MemCap
<1> QED
  BY <1>1, <1>2, <1>4 DEF MemInv

(* A fact that is remembered verbatim is touched; another one is embedded. *)
LEMMA MemRemembers ==
  ASSUME MemInv, NEW w \in Writers, NEW scope \in M!Scopes, NEW fact \in Facts,
         M!Remember(w, scope, fact)
  PROVE  MemInv'
<1>1. MemTyped
  BY DEF MemInv
<1> PICK same : same = {n \in M!InScope(scope) : memory[n].fact = fact}
  OBVIOUS
<1>2. CASE same # {}
  <2>1. PICK n \in same : recency' = M!Touched({n}) /\ UNCHANGED writer
    BY <1>2 DEF M!Remember
  <2>2. recency' \subseteq M!Held \X M!Held
    BY <1>1, <2>1, TouchedAreHeld
  <2> QED
    BY <1>1, <2>1, <2>2, NothingMoves DEF M!Remember, MemTyped
<1>3. CASE same = {}
  <2> PICK entry : entry = [at |-> "embedded", scope |-> scope, fact |-> fact,
                            embedding |-> setting]
    OBVIOUS
  <2>1. /\ writer' = [writer EXCEPT ![w] = entry] /\ writer[w] = M!Idle
        /\ UNCHANGED <<account, setting, memory, point, recency, reader, written, wrote, cut>>
    BY <1>3 DEF M!Remember
  <2>2. entry \in Embedded /\ entry.at = "embedded"
    BY <1>1 DEF Embedded, MemTyped
  <2>3. \A s : ~Relieves(w, s)
    BY <2>1 DEF Relieves, M!Idle
  <2> QED
    BY <2>1, <2>2, <2>3, WriterMoves DEF Remembering
<1> QED
  BY <1>2, <1>3

(* A scope is counted, and as many of its rows as are too many are chosen. *)
LEMMA MemCounts ==
  ASSUME MemInv, NEW w \in Writers, M!CountScope(w)
  PROVE  MemInv'
<1>1. writer \in [Writers -> Remembering]
  BY DEF MemInv, MemTyped
<1> PICK s, held : s = writer[w].scope /\ held = Cardinality(M!InScope(s))
  OBVIOUS
<1>2. writer[w] \in Indexed /\ writer[w].at = "indexed" /\ s \in M!Scopes
  BY <1>1 DEF M!CountScope, Remembering, Indexed, Embedded, Inserted, Counted, Evicting, M!Idle
<1>3. held \in Nat /\ MaxPerScope \in Nat
  BY ScopesAreFinite, BoundsAssumption
<1>4. M!Cardinality(M!InScope(s)) = held
  BY DEF M!Cardinality, Cardinality
<1>5. UNCHANGED <<account, setting, memory, point, recency, reader, written, wrote, cut>>
  BY DEF M!CountScope
<1>6. \A o \in M!Scopes : Relieves(w, o) => o = s
  BY <1>2 DEF Relieves
<1>7. M!InScope(s)' = M!InScope(s)
  BY <1>5 DEF M!InScope, M!Held
<1>8. CASE held <= MaxPerScope
  <2>1. writer' = [writer EXCEPT ![w] = M!Idle]
    BY <1>4, <1>8 DEF M!CountScope
  <2>2. M!Idle \in Remembering /\ M!Idle.at # "inserted"
    BY DEF Remembering, M!Idle
  <2> QED
    BY <1>5, <1>6, <1>8, <2>1, <2>2, WriterMoves
<1>9. CASE ~(held <= MaxPerScope)
  <2> PICK entry : entry = [at |-> "counted", scope |-> s, embedding |-> writer[w].embedding,
                            excess |-> held - MaxPerScope]
    OBVIOUS
  <2>1. writer' = [writer EXCEPT ![w] = entry]
    BY <1>4, <1>9 DEF M!CountScope
  <2>2. held - MaxPerScope \in Nat /\ held <= MaxPerScope + (held - MaxPerScope)
    BY <1>3, <1>9
  <2>3. entry \in Counted /\ entry.at = "counted" /\ entry.scope = s
        /\ entry.excess = held - MaxPerScope
    BY <1>2, <2>2 DEF Counted, Indexed
  <2>4. writer'[w] = entry /\ entry \in Remembering
    BY <1>1, <2>1, <2>3 DEF Remembering
  <2>5. Relieves(w, s)'
    BY <1>7, <2>2, <2>3, <2>4 DEF Relieves
  <2> QED
    BY <1>5, <1>6, <2>1, <2>3, <2>4, <2>5, WriterMoves
<1> QED
  BY <1>8, <1>9

LEMMA MemChooses ==
  ASSUME MemInv, NEW w \in Writers, M!ChooseEvicted(w)
  PROVE  MemInv'
<1>1. writer \in [Writers -> Remembering]
  BY DEF MemInv, MemTyped
<1> PICK s, n : s = writer[w].scope /\ n = writer[w].excess
  OBVIOUS
<1>2. /\ writer[w] \in Counted /\ writer[w].at = "counted"
      /\ s \in M!Scopes /\ n \in Nat /\ writer[w].embedding \in Embeddings
  BY <1>1 DEF M!ChooseEvicted, Remembering, Indexed, Embedded, Inserted, Counted, Evicting,
              M!Idle
<1>3. PICK rows \in M!OldestUnused(s, n) :
        writer' = [writer EXCEPT ![w] = [at |-> "evicting", embedding |-> writer[w].embedding,
                                         rows |-> rows]]
  BY <1>1 DEF M!ChooseEvicted
<1> PICK entry : entry = [at |-> "evicting", embedding |-> writer[w].embedding, rows |-> rows]
  OBVIOUS
<1>4. UNCHANGED <<account, setting, memory, point, recency, reader, written, wrote, cut>>
  BY DEF M!ChooseEvicted
<1>5. M!Cardinality(rows) = Cardinality(rows)
  BY DEF M!Cardinality, Cardinality
<1>6. rows \subseteq M!InScope(s) /\ (Cardinality(rows) = n \/ rows = M!InScope(s))
  BY <1>5 DEF M!OldestUnused
<1>7. entry \in Evicting /\ entry.at = "evicting" /\ entry.rows = rows
  BY <1>2, <1>6, ScopesAreFinite DEF Evicting
<1>8. writer'[w] = entry /\ entry \in Remembering /\ writer' = [writer EXCEPT ![w] = entry]
  BY <1>1, <1>3, <1>7 DEF Remembering
<1>9. M!InScope(s)' = M!InScope(s)
  BY <1>4 DEF M!InScope, M!Held
<1>10. ASSUME Relieves(w, s) PROVE Relieves(w, s)'
  <2>1. Cardinality(M!InScope(s)) <= MaxPerScope + n /\ MaxPerScope \in Nat
    BY <1>2, <1>10, BoundsAssumption DEF Relieves
  <2>2. IsFiniteSet(M!InScope(s)) /\ Cardinality(M!InScope(s)) \in Nat
    BY ScopesAreFinite
  <2>3. M!InScope(s) \cap rows = rows
    BY <1>6
  <2>4. Cardinality(M!InScope(s) \ rows) = Cardinality(M!InScope(s)) - Cardinality(rows)
    <3> PICK all : all = M!InScope(s)
      OBVIOUS
    <3>1. Cardinality(all \ rows) = Cardinality(all) - Cardinality(all \cap rows)
      BY <2>2, FS_Difference
    <3> QED
      BY <2>3, <3>1
  <2>5. CASE Cardinality(rows) = n
    <3>1. Cardinality(M!InScope(s) \ rows) <= MaxPerScope
      BY <1>2, <2>1, <2>2, <2>4, <2>5
    <3> QED
      BY <1>7, <1>8, <1>9, <3>1 DEF Relieves
  <2>6. CASE rows = M!InScope(s)
    <3>1. M!InScope(s) \ rows = {}
      BY <2>6
    <3>2. Cardinality(M!InScope(s) \ rows) <= MaxPerScope
      BY <2>1, <3>1, FS_EmptySet
    <3> QED
      BY <1>7, <1>8, <1>9, <3>2 DEF Relieves
  <2> QED
    BY <1>6, <2>5, <2>6
<1>11. \A o \in M!Scopes : Relieves(w, o) => o = s
  BY <1>2 DEF Relieves
<1> QED
  BY <1>4, <1>7, <1>8, <1>10, <1>11, WriterMoves

(* The row is written, with the next number.                               *)
LEMMA MemInserts ==
  ASSUME MemInv, NEW w \in Writers, M!InsertRow(w)
  PROVE  MemInv'
<1>1. MemTyped /\ MemLinks /\ MemCap
  BY DEF MemInv
<1> PICK s, n : s = writer[w].scope /\ n = written + 1
  OBVIOUS
<1>2. /\ writer[w] \in Embedded /\ writer[w].at = "embedded" /\ s \in M!Scopes
      /\ writer[w].fact \in Facts /\ writer[w].embedding \in Embeddings
  BY <1>1 DEF MemTyped, M!InsertRow, Remembering, Indexed, Embedded, Inserted, Counted, Evicting,
              M!Idle
<1>3. UNCHANGED <<account, setting, point, reader, cut>>
  BY DEF M!InsertRow
<1>4. CASE s # Shared /\ s \notin account
  <2>1. writer' = [writer EXCEPT ![w] = M!Idle] /\ UNCHANGED <<memory, recency, written, wrote>>
    BY <1>4 DEF M!InsertRow
  <2>2. M!Idle \in Remembering /\ M!Idle.at # "inserted"
    BY DEF Remembering, M!Idle
  <2>3. \A o : ~Relieves(w, o)
    BY <1>2 DEF Relieves
  <2> QED
    BY <1>3, <2>1, <2>2, <2>3, WriterMoves
<1>5. CASE ~(s # Shared /\ s \notin account)
  <2> PICK row, entry :
        /\ row = [user |-> s, fact |-> writer[w].fact, embedding |-> writer[w].embedding]
        /\ entry = [at |-> "inserted", scope |-> s, embedding |-> writer[w].embedding, row |-> n]
    OBVIOUS
  <2>1. /\ n \in M!Numbers /\ written' = n /\ memory' = [memory EXCEPT ![n] = row]
        /\ recency' = recency \cup (M!Held \X {n}) /\ writer' = [writer EXCEPT ![w] = entry]
        /\ wrote' = [wrote EXCEPT ![n] = row]
    BY <1>5 DEF M!InsertRow
  <2>2. row \in M!AgentMemoryRow /\ row # None /\ row.user = s
        /\ row.embedding = writer[w].embedding
    BY <1>2, NoneAssumption DEF M!AgentMemoryRow
  <2>3. entry \in Inserted /\ entry.at = "inserted" /\ entry.scope = s /\ entry.row = n
        /\ entry.embedding = writer[w].embedding
    BY <1>2, <2>1 DEF Inserted
  <2>4. /\ memory' \in [M!Numbers -> Rows] /\ memory'[n] = row
        /\ \A m \in M!Numbers \ {n} : memory'[m] = memory[m]
        /\ writer' \in [Writers -> Remembering] /\ writer'[w] = entry
        /\ \A v \in Writers \ {w} : writer'[v] = writer[v]
        /\ wrote' \in [M!Numbers -> Rows] /\ wrote'[n] = row
        /\ \A m \in M!Numbers \ {n} : wrote'[m] = wrote[m]
    BY <1>1, <2>1, <2>2, <2>3 DEF MemTyped, Rows, Remembering
  <2>5. /\ written \in Nat /\ n \in 0 .. MaxMemories /\ written <= n /\ ~(n <= written)
        /\ n \in Nat /\ n <= n
    BY <1>1, <2>1, BoundsAssumption DEF MemTyped, M!Numbers
  <2>6. /\ point[n] = None /\ memory[n] = None
        /\ \A m \in M!Numbers : m <= written => m <= n
    BY <1>1, <2>1, <2>5 DEF MemTyped, M!Numbers
  <2>7. M!Held' = M!Held \cup {n}
    BY <2>1, <2>2, <2>4 DEF M!Held
  <2>8. recency' \subseteq M!Held' \X M!Held'
    BY <1>1, <2>1, <2>7 DEF MemTyped
  <2>9. \A m \in M!Numbers : memory'[m] # None \/ point'[m] # None => m <= written'
    BY <1>1, <1>3, <2>1, <2>4, <2>5, <2>6 DEF MemTyped
  <2>10. MemTyped'
    BY <1>1, <1>3, <2>1, <2>4, <2>5, <2>8, <2>9 DEF MemTyped
  <2>11. \A r \in Readers : Seen(r)' = Seen(r) /\ Seen(r) \subseteq M!Numbers
    BY <1>1, <1>3 DEF Seen, MemTyped, Recalling, Found, Recalled, M!Idle
  <2>12. ASSUME NEW r \in Readers PROVE Theirs(r)'
    <3>1. \A m \in Seen(r) : m \in M!Numbers /\ m # n /\ m <= n /\ wrote'[m] = wrote[m]
      BY <1>1, <2>4, <2>5, <2>6, <2>11 DEF MemLinks, Theirs
    <3> QED
      BY <1>1, <1>3, <2>1, <2>11, <3>1 DEF MemLinks, Theirs
  <2>13. ASSUME NEW m \in M!Numbers PROVE Kept(m)'
    <3>1. CASE m = n
      BY <1>3, <2>4, <2>6, <3>1 DEF Kept
    <3>2. CASE m # n
      BY <1>1, <1>3, <2>4, <3>2 DEF MemLinks, Kept
    <3> QED
      BY <3>1, <3>2
  <2>14. ASSUME NEW v \in Writers, writer'[v].at = "inserted" PROVE Wrote(v)'
    <3>1. CASE v = w
      BY <2>1, <2>2, <2>3, <2>4, <2>5, <3>1 DEF Wrote
    <3>2. CASE v # w
      <4>1. writer'[v] = writer[v] /\ writer[v].at = "inserted"
        BY <2>4, <2>14, <3>2
      <4>2. Wrote(v) /\ writer[v].row \in M!Numbers
        BY <1>1, <4>1 DEF MemLinks, MemTyped, Remembering, Indexed, Embedded, Inserted, Counted,
                           Evicting, M!Idle
      <4>3. writer[v].row # n /\ writer[v].row <= n
        BY <2>5, <2>6, <4>2 DEF Wrote
      <4> QED
        BY <2>1, <2>4, <4>1, <4>2, <4>3 DEF Wrote
    <3> QED
      BY <3>1, <3>2
  <2>15. MemLinks'
    BY <2>12, <2>13, <2>14 DEF MemLinks
  <2>16. ASSUME ~cut, NEW o \in M!Scopes PROVE Capped(o)'
    <3>1. CASE o = s
      BY <2>3, <2>4, <3>1 DEF Capped, Relieves
    <3>2. CASE o # s
      <4>1. M!InScope(o)' = M!InScope(o)
        BY <2>2, <2>4, <2>6, <2>7, <3>2 DEF M!InScope, M!Held
      <4>2. ~Relieves(w, o)
        BY <1>2 DEF Relieves
      <4>3. \A v \in Writers \ {w} : Relieves(v, o) => Relieves(v, o)'
        BY <2>4, <4>1 DEF Relieves
      <4>4. Capped(o)
        BY <1>1, <2>16 DEF MemCap
      <4> QED
        BY <4>1, <4>2, <4>3, <4>4 DEF Capped
    <3> QED
      BY <3>1, <3>2
  <2> QED
    BY <1>3, <2>10, <2>15, <2>16 DEF MemInv, MemCap
<1> QED
  BY <1>4, <1>5

(* Then its point, in the collection of its width.                         *)
LEMMA MemIndexes ==
  ASSUME MemInv, NEW w \in Writers, NEW stored \in BOOLEAN, M!UpsertPoint(w, stored)
  PROVE  MemInv'
<1>1. MemTyped /\ MemLinks /\ MemCap
  BY DEF MemInv
<1> PICK s, n, e : s = writer[w].scope /\ n = writer[w].row /\ e = writer[w].embedding
  OBVIOUS
<1>2. /\ writer[w] \in Inserted /\ writer[w].at = "inserted" /\ s \in M!Scopes
      /\ n \in M!Numbers /\ e \in Embeddings
  BY <1>1 DEF MemTyped, M!UpsertPoint, Remembering, Indexed, Embedded, Inserted, Counted,
              Evicting, M!Idle
<1>3. UNCHANGED <<account, setting, memory, recency, reader, written, wrote>>
  BY DEF M!UpsertPoint
<1>4. CASE ~stored
  <2>1. writer' = [writer EXCEPT ![w] = M!Idle] /\ cut' /\ UNCHANGED point
    BY <1>4 DEF M!UpsertPoint
  <2>2. M!Idle \in Remembering /\ M!Idle.at # "inserted"
    BY DEF Remembering, M!Idle
  <2> QED
    BY <1>3, <2>1, <2>2, WriterMoves
<1>5. CASE stored
  <2> PICK p, entry : /\ p = [user |-> s, width |-> Dimensions[e]]
                      /\ entry = [at |-> "indexed", scope |-> s, embedding |-> e]
    OBVIOUS
  <2>1. /\ point' = [point EXCEPT ![n] = p] /\ writer' = [writer EXCEPT ![w] = entry]
        /\ UNCHANGED cut
    BY <1>5 DEF M!UpsertPoint
  <2>2. p \in Points
    BY <1>2 DEF Points, Vectors
  <2>3. entry \in Indexed /\ entry.at = "indexed" /\ entry.scope = s
    BY <1>2 DEF Indexed
  <2>4. /\ point' \in [M!Numbers -> Points]
        /\ \A m \in M!Numbers \ {n} : point'[m] = point[m]
        /\ writer' \in [Writers -> Remembering] /\ writer'[w] = entry
        /\ \A v \in Writers \ {w} : writer'[v] = writer[v]
    BY <1>1, <1>2, <2>1, <2>2, <2>3 DEF MemTyped, Remembering
  <2>5. Wrote(w)
    BY <1>1, <1>2 DEF MemLinks
  <2>6. M!Held' = M!Held
    BY <1>3 DEF M!Held
  <2>7. \A m \in M!Numbers : memory'[m] # None \/ point'[m] # None => m <= written'
    BY <1>1, <1>3, <2>4, <2>5 DEF MemTyped, Wrote
  <2>8. MemTyped'
    BY <1>1, <1>3, <2>4, <2>6, <2>7 DEF MemTyped
  <2>9. \A r \in Readers : Theirs(r)'
    BY <1>1, <1>3 DEF MemLinks, Theirs, Seen
  <2>10. ASSUME NEW m \in M!Numbers PROVE Kept(m)'
    <3>1. CASE m = n
      BY <1>1, <1>3, <2>1, <2>5, <3>1 DEF MemTyped, MemLinks, Kept, Wrote
    <3>2. CASE m # n
      BY <1>1, <1>3, <2>4, <3>2 DEF MemLinks, Kept
    <3> QED
      BY <3>1, <3>2
  <2>11. \A v \in Writers : writer'[v].at = "inserted" => v # w /\ writer'[v] = writer[v]
    BY <2>3, <2>4
  <2>12. MemLinks'
    BY <1>1, <1>3, <2>9, <2>10, <2>11 DEF MemLinks, Wrote
  <2>13. ASSUME ~cut, NEW o \in M!Scopes PROVE Capped(o)'
    <3>1. M!InScope(o)' = M!InScope(o)
      BY <1>3 DEF M!InScope, M!Held
    <3>2. \A v \in Writers : Relieves(v, o) => Relieves(v, o)'
      BY <1>2, <2>3, <2>4, <3>1 DEF Relieves
    <3>3. Capped(o)
      BY <1>1, <2>13 DEF MemCap
    <3> QED
      BY <3>1, <3>2, <3>3 DEF Capped
  <2> QED
    BY <2>1, <2>8, <2>12, <2>13 DEF MemInv, MemCap
<1> QED
  BY <1>4, <1>5

(* What was chosen is removed, whoever uses it meanwhile.                  *)
LEMMA MemEvicts ==
  ASSUME MemInv, NEW w \in Writers, NEW deleted \in BOOLEAN, M!Evict(w, deleted)
  PROVE  MemInv'
<1>1. MemTyped /\ MemLinks /\ MemCap
  BY DEF MemInv
<1> PICK rows : rows = writer[w].rows
  OBVIOUS
<1>2. writer[w] \in Evicting /\ writer[w].at = "evicting" /\ rows \subseteq M!Numbers
  BY <1>1 DEF MemTyped, M!Evict, Remembering, Indexed, Embedded, Inserted, Counted, Evicting,
              M!Idle
<1>3. /\ memory' = [n \in M!Numbers |-> IF n \in rows THEN None ELSE memory[n]]
      /\ recency' = {p \in recency : p[1] \notin rows /\ p[2] \notin rows}
      /\ \A n \in M!Numbers : point'[n] = point[n] \/ point'[n] = None
      /\ point' \in [M!Numbers -> Points]
      /\ writer' = [writer EXCEPT ![w] = M!Idle]
      /\ UNCHANGED <<account, setting, reader, written, wrote, cut>>
  BY <1>1 DEF M!Evict, MemTyped, Points
<1>4. /\ memory' \in [M!Numbers -> Rows]
      /\ \A n \in M!Numbers : memory'[n] = IF n \in rows THEN None ELSE memory[n]
  BY <1>1, <1>3 DEF MemTyped, Rows
<1>5. M!Held' = M!Held \ rows
  BY <1>4 DEF M!Held
<1>6. /\ writer' \in [Writers -> Remembering] /\ writer'[w] = M!Idle /\ M!Idle.at = "idle"
      /\ \A v \in Writers \ {w} : writer'[v] = writer[v]
  BY <1>1, <1>3 DEF MemTyped, Remembering, M!Idle
<1>7. recency' \subseteq M!Held' \X M!Held'
  BY <1>1, <1>3, <1>5 DEF MemTyped
<1>8. MemTyped'
  BY <1>1, <1>3, <1>4, <1>6, <1>7 DEF MemTyped
<1>9. \A r \in Readers : Theirs(r)'
  BY <1>1, <1>3 DEF MemLinks, Theirs, Seen
<1>10. MemLinks'
  <2>1. \A v \in Writers : writer'[v].at = "inserted" => v # w /\ writer'[v] = writer[v]
    BY <1>6
  <2>2. \A n \in M!Numbers : Kept(n)'
    BY <1>1, <1>3, <1>4 DEF MemLinks, Kept
  <2> QED
    BY <1>1, <1>3, <1>9, <2>1, <2>2 DEF MemLinks, Wrote
<1>11. ASSUME ~cut, NEW s \in M!Scopes PROVE Capped(s)'
  <2> PICK before, after : before = M!InScope(s) /\ after = M!InScope(s)'
    OBVIOUS
  <2>1. after = before \ rows
    BY <1>4, <1>5 DEF M!InScope, M!Held
  <2>2. IsFiniteSet(before) /\ Cardinality(before) \in Nat /\ MaxPerScope \in Nat
    BY ScopesAreFinite, BoundsAssumption
  <2>3. \A left \in SUBSET before : Cardinality(left) \in Nat
                                    /\ Cardinality(left) <= Cardinality(before)
    BY <2>2, FS_Subset, FS_CardinalityType
  <2>4. Capped(s)
    BY <1>1, <1>11 DEF MemCap
  <2>5. CASE Cardinality(before) <= MaxPerScope
    <3>1. Cardinality(after) <= MaxPerScope
      BY <2>1, <2>2, <2>3, <2>5
    <3> QED
      BY <3>1 DEF Capped
  <2>6. ASSUME NEW v \in Writers, Relieves(v, s) PROVE Capped(s)'
    <3>1. CASE v = w
      <4>1. Cardinality(after) <= MaxPerScope
        BY <1>2, <2>1, <2>6, <3>1 DEF Relieves
      <4> QED
        BY <4>1 DEF Capped
    <3>2. CASE v # w /\ writer[v].at \in {"inserted", "indexed"}
      BY <1>6, <2>6, <3>2 DEF Capped, Relieves
    <3>3. CASE v # w /\ writer[v].at = "counted"
      <4>1. writer[v].excess \in Nat /\ writer[v].scope = s
        BY <1>1, <2>6, <3>3 DEF Relieves, MemTyped, Remembering, Indexed, Embedded, Inserted,
                                Counted, Evicting, M!Idle
      <4>2. Cardinality(before) <= MaxPerScope + writer[v].excess
        BY <2>6, <3>3 DEF Relieves
      <4>3. Cardinality(after) <= MaxPerScope + writer[v].excess
        BY <2>1, <2>2, <2>3, <4>1, <4>2
      <4>4. Relieves(v, s)'
        BY <1>6, <3>3, <4>1, <4>3 DEF Relieves
      <4> QED
        BY <4>4 DEF Capped
    <3>4. CASE v # w /\ writer[v].at = "evicting"
      <4> PICK mine : mine = writer[v].rows
        OBVIOUS
      <4>1. Cardinality(before \ mine) <= MaxPerScope
        BY <2>6, <3>4 DEF Relieves
      <4>2. /\ IsFiniteSet(before \ mine) /\ after \ mine \subseteq before \ mine
            /\ Cardinality(before \ mine) \in Nat
        BY <2>1, <2>2, <2>3, FS_Subset
      <4>3. Cardinality(after \ mine) <= Cardinality(before \ mine)
        BY <4>2, FS_Subset
      <4>4. IsFiniteSet(after \ mine) /\ Cardinality(after \ mine) \in Nat
        BY <4>2, FS_Subset, FS_CardinalityType
      <4>5. Cardinality(after \ mine) <= MaxPerScope
        BY <2>2, <4>1, <4>2, <4>3, <4>4
      <4>6. writer'[v].at = "evicting" /\ writer'[v].rows = mine
        BY <1>6, <3>4
      <4>7. Relieves(v, s)'
        BY <4>5, <4>6 DEF Relieves
      <4> QED
        BY <4>7 DEF Capped
    <3> QED
      BY <2>6, <3>1, <3>2, <3>3, <3>4 DEF Relieves
  <2> QED
    BY <2>4, <2>5, <2>6 DEF Capped
<1> QED
  BY <1>3, <1>8, <1>10, <1>11 DEF MemInv, MemCap

(* A recall goes on: nothing is written, and what it saw is its own.       *)
LEMMA ReaderMoves ==
  ASSUME MemInv, NEW r \in Readers, NEW to \in Recalling,
         reader' = [reader EXCEPT ![r] = to], recency' \subseteq M!Held \X M!Held,
         UNCHANGED <<account, setting, memory, point, writer, written, wrote, cut>>,
         Theirs(r)'
  PROVE  MemInv'
<1>1. MemTyped /\ MemLinks /\ MemCap
  BY DEF MemInv
<1>2. /\ reader' \in [Readers -> Recalling] /\ reader'[r] = to
      /\ \A o \in Readers \ {r} : reader'[o] = reader[o]
  BY <1>1 DEF MemTyped
<1>3. MemTyped'
  BY <1>1, <1>2 DEF MemTyped, M!Held
<1>4. \A o \in Readers : Theirs(o)'
  BY <1>1, <1>2 DEF MemLinks, Theirs, Seen
<1>5. MemLinks'
  BY <1>1, <1>4 DEF MemLinks, Kept, Wrote
<1>6. ASSUME NEW s PROVE Capped(s)' <=> Capped(s)
  <2>1. M!InScope(s)' = M!InScope(s)
    BY DEF M!InScope, M!Held
  <2> QED
    BY <2>1 DEF Capped, Relieves
<1> QED
  BY <1>1, <1>3, <1>5, <1>6 DEF MemInv, MemCap

LEMMA MemSearches ==
  ASSUME MemInv, NEW r \in Readers, NEW scope \in M!Scopes, M!Search(r, scope)
  PROVE  MemInv'
<1>1. MemTyped /\ MemLinks
  BY DEF MemInv
<1>2. PICK hits \in SUBSET M!Numbers :
        /\ \A n \in hits : /\ point[n] # None /\ point[n].user \in {Shared, scope}
                           /\ point[n].width = Dimensions[setting]
        /\ reader' = [reader EXCEPT ![r] = [at |-> "found", scope |-> scope, hits |-> hits,
                                            embedding |-> setting]]
  BY DEF M!Search, M!Theirs
<1>3. UNCHANGED <<account, setting, memory, point, recency, writer, written, wrote, cut>>
  BY DEF M!Search
<1> PICK to : to = [at |-> "found", scope |-> scope, hits |-> hits, embedding |-> setting]
  OBVIOUS
<1>4. to \in Found /\ to.at = "found" /\ to.hits = hits /\ to.scope = scope
      /\ to.embedding = setting
  BY <1>1 DEF Found, MemTyped
<1>5. reader' = [reader EXCEPT ![r] = to] /\ to \in Recalling /\ reader'[r] = to
  BY <1>1, <1>2, <1>4 DEF Recalling, MemTyped
<1>6. Seen(r)' = hits
  BY <1>4, <1>5 DEF Seen
<1>7. Theirs(r)'
  <2>1. ASSUME NEW n \in hits
        PROVE  /\ n <= written /\ wrote[n].user \in {Shared, scope}
               /\ Dimensions[wrote[n].embedding] = Dimensions[setting]
    <3>1. /\ n \in M!Numbers /\ point[n] # None /\ point[n].user \in {Shared, scope}
          /\ point[n].width = Dimensions[setting]
      BY <1>2
    <3>2. point[n] = [user |-> wrote[n].user, width |-> Dimensions[wrote[n].embedding]]
      BY <1>1, <3>1 DEF MemLinks, Kept
    <3> QED
      BY <1>1, <3>1, <3>2 DEF MemTyped
  <2> QED
    BY <1>3, <1>4, <1>5, <1>6, <2>1 DEF Theirs
<1>8. recency' \subseteq M!Held \X M!Held
  BY <1>1, <1>3 DEF MemTyped
<1> QED
  BY <1>3, <1>5, <1>7, <1>8, ReaderMoves

LEMMA MemReads ==
  ASSUME MemInv, NEW r \in Readers, M!ReadRows(r)
  PROVE  MemInv'
<1>1. MemTyped /\ MemLinks
  BY DEF MemInv
<1> PICK rows, s :
      /\ s = reader[r].scope
      /\ rows = {n \in reader[r].hits :
                   /\ memory[n] # None
                   /\ Dimensions[memory[n].embedding] = Dimensions[reader[r].embedding]}
  OBVIOUS
<1>2. reader[r] \in Found /\ reader[r].at = "found" /\ s \in M!Scopes
      /\ reader[r].embedding \in Embeddings
  BY <1>1 DEF M!ReadRows, MemTyped, Recalling, Found, Recalled, M!Idle
<1> PICK to : to = [at |-> "recalled", scope |-> s, embedding |-> reader[r].embedding,
                    rows |-> rows]
  OBVIOUS
<1>3. /\ reader' = [reader EXCEPT ![r] = to] /\ recency' = M!Touched(rows)
      /\ UNCHANGED <<account, setting, memory, point, writer, written, wrote, cut>>
  BY DEF M!ReadRows
<1>4. rows \subseteq M!Numbers /\ rows \subseteq M!Held /\ rows \subseteq Seen(r)
  BY <1>2 DEF Found, M!Held, Seen
<1>5. to \in Recalled /\ to.at = "recalled" /\ to.rows = rows /\ to.scope = s
      /\ to.embedding = reader[r].embedding
  BY <1>2, <1>4 DEF Recalled
<1>6. reader'[r] = to /\ to \in Recalling
  BY <1>1, <1>3, <1>5 DEF Recalling, MemTyped
<1>7. Seen(r)' = rows
  BY <1>5, <1>6 DEF Seen
<1>8. Theirs(r)'
  BY <1>1, <1>3, <1>4, <1>5, <1>6, <1>7 DEF MemLinks, Theirs
<1>9. recency' \subseteq M!Held \X M!Held
  BY <1>1, <1>3, TouchedAreHeld
<1> QED
  BY <1>3, <1>6, <1>8, <1>9, ReaderMoves

LEMMA MemAnswers ==
  ASSUME MemInv, NEW r \in Readers, M!EndRecall(r)
  PROVE  MemInv'
<1>1. MemTyped
  BY DEF MemInv
<1>2. /\ reader' = [reader EXCEPT ![r] = M!Idle] /\ M!Idle \in Recalling /\ M!Idle.at = "idle"
      /\ UNCHANGED <<account, setting, memory, point, recency, writer, written, wrote, cut>>
  BY DEF M!EndRecall, Recalling, M!Idle
<1>3. reader'[r] = M!Idle
  BY <1>1, <1>2 DEF MemTyped
<1>4. Theirs(r)'
  BY <1>2, <1>3 DEF Seen, Theirs
<1>5. recency' \subseteq M!Held \X M!Held
  BY <1>1, <1>2 DEF MemTyped
<1> QED
  BY <1>2, <1>4, <1>5, ReaderMoves

(* A person's rows fall to the shared scope, which may pass its cap.       *)
LEMMA MemLosesAccount ==
  ASSUME MemInv, NEW u \in Users, M!RemoveAccount(u)
  PROVE  MemInv'
<1>1. MemTyped /\ MemLinks /\ MemCap
  BY DEF MemInv
<1>2. /\ account' = account \ {u} /\ (cut' <=> cut \/ M!InScope(u) # {})
      /\ memory' = [n \in M!Numbers |-> IF n \in M!InScope(u)
                                          THEN [memory[n] EXCEPT !.user = Shared]
                                          ELSE memory[n]]
      /\ UNCHANGED <<setting, point, recency, writer, reader, written, wrote>>
  BY DEF M!RemoveAccount
<1>3. ASSUME NEW n \in M!InScope(u)
      PROVE  /\ [memory[n] EXCEPT !.user = Shared] \in M!AgentMemoryRow
             /\ [memory[n] EXCEPT !.user = Shared] # None
  <2>1. memory[n] \in M!AgentMemoryRow /\ Shared \in M!Scopes
    BY <1>1 DEF MemTyped, Rows, M!InScope, M!Held, M!Scopes
  <2>2. [memory[n] EXCEPT !.user = Shared] \in M!AgentMemoryRow
    BY <2>1 DEF M!AgentMemoryRow
  <2> QED
    BY <2>2, NoneAssumption
<1>4. M!InScope(u) \subseteq M!Held /\ M!Held \subseteq M!Numbers
  BY ScopesAreFinite
<1>5. memory' \in [M!Numbers -> Rows]
  BY <1>1, <1>2, <1>3 DEF MemTyped, Rows
<1>6. M!Held' = M!Held
  BY <1>2, <1>3, <1>4 DEF M!Held, M!InScope
<1>7. \A n \in M!Numbers : memory'[n] # None => memory[n] # None
  BY <1>6 DEF M!Held
<1>8. MemTyped'
  BY <1>1, <1>2, <1>5, <1>6, <1>7 DEF MemTyped
<1>9. MemLinks'
  <2>1. ASSUME NEW n \in M!Numbers PROVE Kept(n)'
    <3>1. CASE n \in M!InScope(u)
      <4>1. memory[n] # None /\ memory[n].user = u /\ memory[n] \in M!AgentMemoryRow
        BY <1>1, <3>1 DEF MemTyped, Rows, M!InScope, M!Held
      <4>2. memory'[n].user = Shared
        BY <1>2, <3>1, <4>1 DEF M!AgentMemoryRow
      <4>3. wrote[n].user = u \/ wrote[n].user \notin account
        BY <1>1, <4>1 DEF MemLinks, Kept
      <4> QED
        BY <1>1, <1>2, <4>2, <4>3 DEF MemLinks, Kept
    <3>2. CASE n \notin M!InScope(u)
      BY <1>1, <1>2, <3>2 DEF MemLinks, Kept
    <3> QED
      BY <3>1, <3>2
  <2> QED
    BY <1>1, <1>2, <2>1 DEF MemLinks, Theirs, Wrote, Seen
<1>10. ASSUME ~cut', NEW s \in M!Scopes PROVE Capped(s)'
  <2>1. M!InScope(u) = {} /\ ~cut
    BY <1>2, <1>10
  <2>2. \A n \in M!Numbers : memory'[n] = memory[n]
    BY <1>2, <2>1
  <2>3. M!InScope(s)' = M!InScope(s)
    BY <1>6, <2>2 DEF M!InScope, M!Held
  <2>4. Capped(s)
    BY <1>1, <2>1 DEF MemCap
  <2> QED
    BY <1>2, <2>3, <2>4 DEF Capped, Relieves
<1> QED
  BY <1>8, <1>9, <1>10 DEF MemInv, MemCap

LEMMA MemStep ==
  ASSUME MemInv, M!MemNext \/ UNCHANGED memVars
  PROVE  MemInv'
<1>1. MemTyped
  BY DEF MemInv
<1>2. CASE UNCHANGED memVars
  BY <1>1, <1>2, NothingMoves DEF memVars, MemTyped
<1>3. ASSUME NEW w \in Writers, M!CrashWriter(w) PROVE MemInv'
  <2>1. M!Idle \in Remembering /\ M!Idle.at # "inserted"
    BY DEF Remembering, M!Idle
  <2> QED
    BY <1>3, <2>1, WriterMoves DEF M!CrashWriter
<1>4. ASSUME NEW e \in Embeddings, M!ChangeSetting(e) PROVE MemInv'
  BY <1>1, <1>4, NothingMoves DEF M!ChangeSetting, MemTyped
<1>5. ASSUME NEW w \in Writers, NEW scope \in M!Scopes, NEW fact \in Facts,
             M!Remember(w, scope, fact)
      PROVE  MemInv'
  BY <1>5, MemRemembers
<1>6. ASSUME NEW w \in Writers, \/ M!InsertRow(w) \/ M!CountScope(w) \/ M!ChooseEvicted(w)
      PROVE  MemInv'
  BY <1>6, MemInserts, MemCounts, MemChooses
<1>7. ASSUME NEW w \in Writers, NEW done \in BOOLEAN, M!UpsertPoint(w, done) \/ M!Evict(w, done)
      PROVE  MemInv'
  BY <1>7, MemIndexes, MemEvicts
<1>8. ASSUME NEW r \in Readers, NEW scope \in M!Scopes, M!Search(r, scope) PROVE MemInv'
  BY <1>8, MemSearches
<1>9. ASSUME NEW r \in Readers, M!ReadRows(r) \/ M!EndRecall(r) PROVE MemInv'
  BY <1>9, MemReads, MemAnswers
<1>10. ASSUME NEW u \in Users, M!RemoveAccount(u) PROVE MemInv'
  BY <1>10, MemLosesAccount
<1> QED
  BY <1>2, <1>3, <1>4, <1>5, <1>6, <1>7, <1>8, <1>9, <1>10 DEF M!MemNext

LEMMA MemInvIsEnough == MemInv => M!MemoriesStayInScope
<1> SUFFICES ASSUME MemInv PROVE M!MemoriesStayInScope
  OBVIOUS
<1>1. MemTyped /\ MemLinks /\ MemCap
  BY DEF MemInv
<1>2. M!MemTypeOK
  <2>1. M!Held \subseteq 1 .. written
    BY <1>1, BoundsAssumption DEF MemTyped, M!Held, M!Numbers
  <2>2. \A n \in M!Held : memory[n].user \in M!Scopes /\ memory[n].fact \in Facts
    BY <1>1 DEF MemTyped, Rows, M!Held, M!AgentMemoryRow
  <2> QED
    BY <1>1, <2>1, <2>2 DEF MemTyped, M!MemTypeOK
<1>3. \A n \in M!Numbers : Kept(n)
  BY <1>1 DEF MemLinks
<1>4. ASSUME NEW r \in Readers, reader[r].at = "recalled", NEW n \in reader[r].rows
      PROVE  /\ wrote[n].user \in {Shared, reader[r].scope}
             /\ Dimensions[wrote[n].embedding] = Dimensions[reader[r].embedding]
  BY <1>1, <1>4 DEF MemLinks, Theirs, Seen
<1>5. ASSUME ~cut, \A w \in Writers : writer[w] = M!Idle, NEW scope \in M!Scopes
      PROVE  M!Cardinality(M!InScope(scope)) <= MaxPerScope
  <2>1. \A w \in Writers : ~Relieves(w, scope)
    BY <1>5 DEF Relieves, M!Idle
  <2>2. Cardinality(M!InScope(scope)) <= MaxPerScope
    BY <1>1, <1>5, <2>1 DEF MemCap, Capped
  <2>3. M!Cardinality(M!InScope(scope)) = Cardinality(M!InScope(scope))
    BY DEF M!Cardinality, Cardinality
  <2> QED
    BY <2>2, <2>3
<1> QED
  BY <1>2, <1>3, <1>4, <1>5 DEF M!MemoriesStayInScope, M!Held, Kept

--------------------------------------------------------------------------------
(* The files.  A number is given to one upload, so a row that a removal    *)
(* deleted does not come back before its object is gone.                   *)
Removal == [at : {"idle", "read", "deleted"}, file : C!Files \cup {0}]
Transcription == [at : {"idle", "read", "marked", "heard", "saved"}, file : C!Files \cup {0}]
FilesTyped ==
  /\ uploaded \in 0 .. MaxFiles /\ object \subseteq 1 .. uploaded
  /\ charged \subseteq 1 .. uploaded
  /\ file \in [C!Files -> C!Rows \cup {None}]
  /\ removing \in Removal /\ scribe \in [Writers -> Transcription]
  /\ removing.at # "idle" => removing.file \in 1 .. uploaded
  /\ \A s \in Writers : scribe[s].at # "idle" => scribe[s].file \in 1 .. uploaded

HasWords(f) == file[f] # None => file[f].extracted # "none"
FilesWhole ==
  /\ \A f \in C!Files : file[f] # None => f \in object
  /\ \A f \in charged : HasWords(f)
  /\ removing.at = "deleted" => file[removing.file] = None
  /\ \A s \in Writers : scribe[s].at = "saved" => HasWords(scribe[s].file)

FileInv == FilesTyped /\ FilesWhole

LEMMA UploadedAreFiles ==
  FilesTyped => /\ 1 .. uploaded \subseteq C!Files /\ uploaded \in Nat
                /\ \A f \in 1 .. uploaded : f # uploaded + 1 /\ f \in 1 .. (uploaded + 1)
  BY BoundsAssumption DEF FilesTyped, C!Files

LEMMA FilesInit == MCInit => FileInv
<1> SUFFICES ASSUME C!AttInit \/ C!AttUploaded PROVE FileInv
  BY DEF MCInit, C!ChtInit, C!ChtUploaded
<1>1. /\ C!Idle \in Removal /\ C!Idle \in Transcription /\ C!Idle.at = "idle"
  BY DEF C!Idle, Removal, Transcription
<1>2. CASE C!AttInit
  <2>1. uploaded = 0 /\ uploaded \in 0 .. MaxFiles
    BY <1>2, BoundsAssumption DEF C!AttInit
  <2>2. /\ file = [f \in C!Files |-> None] /\ object = {} /\ charged = {} /\ removing = C!Idle
        /\ scribe = [s \in Writers |-> C!Idle]
    BY <1>2 DEF C!AttInit
  <2> QED
    BY <1>1, <2>1, <2>2 DEF FileInv, FilesTyped, FilesWhole
<1>3. CASE C!AttUploaded
  <2>1. uploaded = MaxFiles /\ uploaded \in 0 .. MaxFiles /\ C!Files = 1 .. uploaded
    BY <1>3, BoundsAssumption DEF C!AttUploaded, C!Files
  <2>2. /\ object = C!Files /\ charged = {} /\ removing = C!Idle
        /\ scribe = [s \in Writers |-> C!Idle]
    BY <1>3 DEF C!AttUploaded
  <2> DEFINE Ready == {[kind |-> kind, message |-> C!Unbound, status |-> "ready",
                        extracted |-> IF kind = "image" THEN "none" ELSE "words"]
                        : kind \in {"image", "audio"}}
  <2>3. file \in [C!Files -> Ready]
    BY <1>3 DEF C!AttUploaded
  <2>4. Ready \subseteq C!Rows
    <3>1. 0 \in Int
      OBVIOUS
    <3> QED
      BY <3>1 DEF C!Rows, C!Kinds, C!Statuses, C!Extractions, C!Unbound
  <2>5. file \in [C!Files -> C!Rows \cup {None}]
    BY <2>3, <2>4
  <2> QED
    BY <1>1, <2>1, <2>2, <2>5 DEF FileInv, FilesTyped, FilesWhole
<1> QED
  BY <1>2, <1>3

(* A row is patched or goes: what it is stays, and its words too.          *)
Patches(f) ==
  \/ file'[f] = file[f]
  \/ file'[f] = None
  \/ /\ file[f] # None /\ file'[f] \in C!Rows /\ file'[f].kind = file[f].kind
     /\ file[f].extracted # "none" => file'[f].extracted # "none"
LEMMA FilesArePatched ==
  ASSUME FileInv, UNCHANGED <<uploaded, object, charged, removing, scribe>>,
         file' \in [C!Files -> C!Rows \cup {None}], \A f \in C!Files : Patches(f)
  PROVE  FileInv'
<1>1. 1 .. uploaded \subseteq C!Files
  BY UploadedAreFiles DEF FileInv
<1>2. FilesTyped'
  BY DEF FileInv, FilesTyped
<1>3. ASSUME NEW f \in C!Files, HasWords(f) PROVE HasWords(f)'
  BY <1>3 DEF HasWords, Patches
<1>4. FilesWhole'
  <2>1. \A f \in C!Files : file'[f] # None => f \in object
    BY DEF Patches, FileInv, FilesWhole
  <2>2. \A f \in charged : HasWords(f)'
    BY <1>1, <1>3 DEF FileInv, FilesWhole, FilesTyped
  <2>3. removing.at = "deleted" => file'[removing.file] = None
    BY <1>1 DEF FileInv, FilesWhole, FilesTyped, Patches
  <2>4. ASSUME NEW s \in Writers, scribe[s].at = "saved" PROVE HasWords(scribe[s].file)'
    <3> PICK f : f = scribe[s].file
      OBVIOUS
    <3>1. f \in C!Files /\ HasWords(f)
      BY <1>1, <2>4 DEF FileInv, FilesWhole, FilesTyped, Transcription
    <3>2. HasWords(f)'
      BY <1>3, <3>1
    <3> QED
      BY <3>2 DEF HasWords
  <2> QED
    BY <2>1, <2>2, <2>3, <2>4 DEF FilesWhole
<1> QED
  BY <1>2, <1>4 DEF FileInv

(* What the requests about files do to a row: a new one is unbound, only   *)
(* an unbound one goes, and whose it is stays.                             *)
Stays(f) == file[f] # None /\ file'[f] # None /\ file'[f].message = file[f].message
            /\ file'[f].kind = file[f].kind
Handled(f) ==
  \/ file'[f] = file[f] \/ Stays(f)
  \/ file'[f] = None /\ file[f].message = C!Unbound
  \/ file[f] = None /\ file'[f] # None /\ file'[f].message = C!Unbound
AttKept == FileInv' /\ \A f \in C!Files : Handled(f)

LEMMA AttUploads ==
  ASSUME FileInv, NEW kind \in C!Kinds, NEW recorded \in BOOLEAN, C!Upload(kind, recorded)
  PROVE  AttKept
<1> PICK f : f = uploaded + 1
  OBVIOUS
<1>1. /\ f \in C!Files /\ uploaded' = f /\ object' = object \cup {f}
      /\ UNCHANGED <<scribe, removing, charged>>
  BY DEF C!Upload
<1>2. /\ 1 .. uploaded \subseteq C!Files /\ uploaded \in Nat /\ f \notin 1 .. uploaded
      /\ 1 .. uploaded \subseteq 1 .. f /\ f \in 1 .. f /\ f \in 0 .. MaxFiles
  BY <1>1, UploadedAreFiles, BoundsAssumption DEF FileInv, C!Files
<1>3. file[f] = None
  BY <1>1, <1>2 DEF FileInv, FilesWhole, FilesTyped
<1> PICK row : row = [kind |-> kind, message |-> C!Unbound, status |-> "ready",
                      extracted |-> "none"]
  OBVIOUS
<1>4. row \in C!Rows /\ row.message = C!Unbound /\ row # None
  <2>1. 0 \in Int
    OBVIOUS
  <2>2. row \in C!Rows /\ row.message = C!Unbound
    BY <2>1 DEF C!Rows, C!Statuses, C!Extractions, C!Unbound
  <2> QED
    BY <2>2, NoneAssumption
<1>5. file' = [file EXCEPT ![f] = row] \/ UNCHANGED file
  BY DEF C!Upload
<1>6. /\ file' \in [C!Files -> C!Rows \cup {None}]
      /\ \A g \in C!Files \ {f} : file'[g] = file[g]
      /\ file'[f] = row \/ file'[f] = None
  BY <1>1, <1>3, <1>4, <1>5 DEF FileInv, FilesTyped
<1>7. FilesTyped'
  <2>1. object' \subseteq 1 .. f /\ charged' \subseteq 1 .. f
    BY <1>1, <1>2 DEF FileInv, FilesTyped
  <2>2. /\ removing'.at # "idle" => removing'.file \in 1 .. f
        /\ \A s \in Writers : scribe'[s].at # "idle" => scribe'[s].file \in 1 .. f
    BY <1>1, <1>2 DEF FileInv, FilesTyped
  <2> QED
    BY <1>1, <1>2, <1>6, <2>1, <2>2 DEF FileInv, FilesTyped
<1>8. FilesWhole'
  <2>1. \A g \in 1 .. uploaded : file'[g] = file[g]
    BY <1>2, <1>6
  <2>2. \A g \in C!Files : file'[g] # None => g \in object'
    BY <1>1, <1>6 DEF FileInv, FilesWhole
  <2>3. /\ \A g \in charged' : HasWords(g)'
        /\ removing'.at = "deleted" => file'[removing'.file] = None
    BY <1>1, <2>1 DEF FileInv, FilesWhole, FilesTyped, HasWords
  <2>4. \A s \in Writers : scribe'[s].at = "saved" => HasWords(scribe[s].file)'
    BY <1>1, <2>1 DEF FileInv, FilesWhole, FilesTyped, HasWords
  <2> QED
    BY <1>1, <2>2, <2>3, <2>4 DEF FilesWhole
<1> QED
  BY <1>3, <1>4, <1>6, <1>7, <1>8 DEF FileInv, AttKept, Handled

(* A removal: read, deleted where it is still unbound, and its object.     *)
LEMMA AttRemoves ==
  ASSUME FileInv,
         \/ \E f \in C!Files : C!StartRemove(f)
         \/ C!DeleteRow \/ \E cleared \in BOOLEAN : C!RemoveObject(cleared)
  PROVE  AttKept
<1>1. FilesTyped /\ FilesWhole /\ 1 .. uploaded \subseteq C!Files
  BY UploadedAreFiles DEF FileInv
<1>2. C!Idle \in Removal /\ C!Idle.at = "idle"
  BY DEF C!Idle, Removal
<1>3. ASSUME NEW f \in C!Files, C!StartRemove(f) PROVE AttKept
  <2> PICK to : to = [at |-> "read", file |-> f]
    OBVIOUS
  <2>1. /\ removing' = to /\ file[f] # None
        /\ UNCHANGED <<uploaded, file, object, scribe, charged>>
    BY <1>3 DEF C!StartRemove, C!Exists
  <2>2. to \in Removal /\ to.at = "read" /\ to.file = f /\ f \in 1 .. uploaded
    BY <1>1, <2>1 DEF Removal, FilesTyped, FilesWhole
  <2>3. FilesTyped'
    BY <1>1, <2>1, <2>2 DEF FilesTyped
  <2>4. FilesWhole'
    BY <1>1, <2>1, <2>2 DEF FilesWhole, HasWords
  <2> QED
    BY <2>1, <2>3, <2>4 DEF FileInv, AttKept, Handled
<1>4. CASE C!DeleteRow
  <2> PICK f : f = removing.file
    OBVIOUS
  <2>1. /\ removing.at = "read" /\ f \in 1 .. uploaded /\ f \in C!Files
        /\ UNCHANGED <<uploaded, object, scribe, charged>>
    BY <1>1, <1>4 DEF C!DeleteRow, FilesTyped
  <2>2. CASE C!DeletableRow(f)
    <3> PICK to : to = [removing EXCEPT !.at = "deleted"]
      OBVIOUS
    <3>1. file' = [file EXCEPT ![f] = None] /\ removing' = to
      BY <1>4, <2>2 DEF C!DeleteRow
    <3>2. to \in Removal /\ to.file = f
      BY <1>1 DEF FilesTyped, Removal
    <3>3. /\ file' \in [C!Files -> C!Rows \cup {None}] /\ file'[f] = None
          /\ \A g \in C!Files \ {f} : file'[g] = file[g]
      BY <1>1, <2>1, <3>1 DEF FilesTyped
    <3>4. FilesTyped'
      BY <1>1, <2>1, <3>1, <3>2, <3>3 DEF FilesTyped
    <3>5. FilesWhole'
      <4>1. \A g \in C!Files : HasWords(g) => HasWords(g)'
        BY <3>3 DEF HasWords
      <4>2. \A g \in charged : HasWords(g)'
        BY <1>1, <4>1 DEF FilesWhole, FilesTyped
      <4>3. ASSUME NEW s \in Writers, scribe[s].at = "saved" PROVE HasWords(scribe[s].file)'
        <5> PICK g : g = scribe[s].file
          OBVIOUS
        <5>1. g \in C!Files /\ HasWords(g)
          BY <1>1, <4>3 DEF FilesTyped, FilesWhole
        <5>2. HasWords(g)'
          BY <4>1, <5>1
        <5> QED
          BY <2>1, <5>2 DEF HasWords
      <4> QED
        BY <1>1, <2>1, <3>1, <3>2, <3>3, <4>2, <4>3 DEF FilesWhole
    <3> QED
      BY <2>2, <3>3, <3>4, <3>5 DEF FileInv, AttKept, Handled, C!DeletableRow
  <2>3. CASE ~C!DeletableRow(f)
    <3>1. UNCHANGED file /\ removing' = C!Idle
      BY <1>4, <2>3 DEF C!DeleteRow
    <3> QED
      BY <1>1, <1>2, <2>1, <3>1 DEF FileInv, AttKept, Handled, FilesTyped, FilesWhole, HasWords
  <2> QED
    BY <2>2, <2>3
<1>5. ASSUME NEW cleared \in BOOLEAN, C!RemoveObject(cleared) PROVE AttKept
  <2>1. /\ removing.at = "deleted" /\ object \ {removing.file} \subseteq object'
        /\ object' \subseteq object /\ removing' = C!Idle
        /\ UNCHANGED <<uploaded, file, scribe, charged>>
    BY <1>5 DEF C!RemoveObject
  <2>2. FilesTyped'
    BY <1>1, <1>2, <2>1 DEF FilesTyped
  <2>3. FilesWhole'
    BY <1>1, <1>2, <2>1 DEF FilesWhole, HasWords
  <2> QED
    BY <2>1, <2>2, <2>3 DEF FileInv, AttKept, Handled
<1> QED
  BY <1>3, <1>4, <1>5

(* A transcription: its stages, and the patches of the row.                *)
LEMMA ScribeMoves ==
  ASSUME FileInv, NEW s \in Writers, NEW to \in Transcription,
         scribe' = [scribe EXCEPT ![s] = to],
         file' \in [C!Files -> C!Rows \cup {None}], \A f \in C!Files : Patches(f),
         to.at # "idle" => to.file \in 1 .. uploaded,
         to.at = "saved" => HasWords(to.file)',
         UNCHANGED <<uploaded, object, removing>>,
         charged' \subseteq charged \cup {f \in 1 .. uploaded : HasWords(f)}
  PROVE  FileInv'
<1>1. FilesTyped /\ FilesWhole /\ 1 .. uploaded \subseteq C!Files
  BY UploadedAreFiles DEF FileInv
<1>2. /\ scribe' \in [Writers -> Transcription] /\ scribe'[s] = to
      /\ \A o \in Writers \ {s} : scribe'[o] = scribe[o]
  BY <1>1 DEF FilesTyped
<1>3. FilesTyped'
  BY <1>1, <1>2 DEF FilesTyped
<1>4. \A f \in C!Files : HasWords(f) => HasWords(f)'
  BY DEF HasWords, Patches
<1>5. \A f \in charged' : HasWords(f)'
  BY <1>1, <1>4 DEF FilesWhole, FilesTyped
<1>6. \A f \in C!Files : file'[f] # None => f \in object
  BY <1>1 DEF Patches, FilesWhole
<1>7. removing.at = "deleted" => file'[removing.file] = None
  BY <1>1 DEF FilesWhole, FilesTyped, Patches
<1>8. ASSUME NEW o \in Writers, scribe'[o].at = "saved" PROVE HasWords(scribe[o].file)'
  <2>1. CASE o = s
    BY <1>2, <1>8, <2>1 DEF HasWords
  <2>2. CASE o # s
    <3> PICK f : f = scribe[o].file
      OBVIOUS
    <3>1. scribe'[o] = scribe[o] /\ f \in C!Files /\ HasWords(f)
      BY <1>1, <1>2, <1>8, <2>2 DEF FilesTyped, FilesWhole
    <3>2. HasWords(f)'
      BY <1>4, <3>1
    <3> QED
      BY <3>1, <3>2 DEF HasWords
  <2> QED
    BY <2>1, <2>2
<1> QED
  BY <1>3, <1>5, <1>6, <1>7, <1>8 DEF FileInv, FilesWhole

LEMMA PatchesRow ==
  ASSUME FileInv, NEW g \in C!Files, NEW status \in C!Statuses, NEW extracted \in C!Extractions,
         file' = C!Patched(g, status, extracted)
  PROVE  /\ file' \in [C!Files -> C!Rows \cup {None}]
         /\ \A f \in C!Files : Patches(f) /\ Handled(f)
         /\ extracted # "none" => HasWords(g)'
<1>1. file \in [C!Files -> C!Rows \cup {None}]
  BY DEF FileInv, FilesTyped
<1>2. CASE file[g] = None
  BY <1>1, <1>2 DEF C!Patched, C!Exists, Patches, Handled, HasWords
<1>3. CASE file[g] # None
  <2> PICK row, words : /\ words = IF extracted = "none" THEN file[g].extracted ELSE extracted
                        /\ row = [file[g] EXCEPT !.status = status, !.extracted = words]
    OBVIOUS
  <2>1. file' = [file EXCEPT ![g] = row]
    BY <1>1, <1>3 DEF C!Patched, C!Exists
  <2>2. /\ row \in C!Rows /\ row.kind = file[g].kind /\ row.message = file[g].message
        /\ row.extracted = words
    <3>1. file[g] \in C!Rows
      BY <1>1, <1>3
    <3>2. words \in C!Extractions
      BY <3>1 DEF C!Rows
    <3> QED
      BY <3>1, <3>2 DEF C!Rows
  <2>3. row # None
    BY <2>2, NoneAssumption
  <2>4. file'[g] = row /\ \A f \in C!Files \ {g} : file'[f] = file[f]
    BY <1>1, <2>1
  <2>5. file' \in [C!Files -> C!Rows \cup {None}]
    BY <1>1, <2>1, <2>2
  <2>6. Patches(g) /\ Handled(g)
    BY <1>3, <2>2, <2>3, <2>4 DEF Patches, Handled, Stays
  <2>7. extracted # "none" => HasWords(g)'
    BY <2>2, <2>4 DEF HasWords
  <2> QED
    BY <2>4, <2>5, <2>6, <2>7 DEF Patches, Handled
<1> QED
  BY <1>2, <1>3

LEMMA AttTranscribes ==
  ASSUME FileInv, NEW s \in Writers,
         \/ \E f \in C!Files : C!StartTranscription(s, f)
         \/ C!MarkProcessing(s)
         \/ \E readable \in BOOLEAN : C!ReadRecording(s, readable)
         \/ \E extracted \in C!Extractions : C!Transcribe(s, extracted)
         \/ \E paid \in BOOLEAN : C!ChargeTranscript(s, paid)
  PROVE  AttKept
<1>1. FilesTyped /\ FilesWhole /\ 1 .. uploaded \subseteq C!Files
  BY UploadedAreFiles DEF FileInv
<1>2. C!Idle \in Transcription /\ C!Idle.at = "idle"
  BY DEF C!Idle, Transcription
<1>3. UNCHANGED file =>
        /\ file' \in [C!Files -> C!Rows \cup {None}]
        /\ \A f \in C!Files : Patches(f) /\ Handled(f)
        /\ \A f \in C!Files : HasWords(f) => HasWords(f)'
  BY <1>1 DEF Patches, Handled, FilesTyped, HasWords
<1> PICK g : g = scribe[s].file
  OBVIOUS
<1>4. scribe[s] \in Transcription /\ (scribe[s].at # "idle" => g \in 1 .. uploaded /\ g \in C!Files)
  BY <1>1 DEF FilesTyped
<1>5. ASSUME NEW at \in {"marked", "heard", "saved"}
      PROVE  /\ [scribe[s] EXCEPT !.at = at] \in Transcription
             /\ [scribe[s] EXCEPT !.at = at].at = at /\ [scribe[s] EXCEPT !.at = at].file = g
  BY <1>4 DEF Transcription
<1>6. ASSUME NEW f \in C!Files, C!StartTranscription(s, f) PROVE AttKept
  <2> PICK to : to = [at |-> "read", file |-> f]
    OBVIOUS
  <2>1. /\ scribe' = [scribe EXCEPT ![s] = to] /\ file[f] # None
        /\ UNCHANGED <<uploaded, file, object, removing, charged>>
    BY <1>6 DEF C!StartTranscription, C!Exists
  <2>2. to \in Transcription /\ to.at = "read" /\ to.file = f /\ f \in 1 .. uploaded
    BY <1>1, <2>1 DEF Transcription, FilesTyped, FilesWhole
  <2> QED
    BY <1>3, <2>1, <2>2, ScribeMoves DEF AttKept
<1>7. CASE C!MarkProcessing(s)
  <2> PICK to : to = [scribe[s] EXCEPT !.at = "marked"]
    OBVIOUS
  <2>1. /\ scribe' = [scribe EXCEPT ![s] = to] /\ file' = C!Patched(g, "processing", "none")
        /\ UNCHANGED <<uploaded, object, removing, charged>> /\ scribe[s].at = "read"
    BY <1>1, <1>7 DEF C!MarkProcessing, FilesTyped
  <2>2. /\ file' \in [C!Files -> C!Rows \cup {None}]
        /\ \A f \in C!Files : Patches(f) /\ Handled(f)
    BY <1>4, <2>1, PatchesRow DEF C!Statuses, C!Extractions
  <2> QED
    BY <1>4, <1>5, <2>1, <2>2, ScribeMoves DEF AttKept
<1>8. ASSUME NEW readable \in BOOLEAN, C!ReadRecording(s, readable) PROVE AttKept
  <2> PICK to : to = IF readable THEN [scribe[s] EXCEPT !.at = "heard"] ELSE C!Idle
    OBVIOUS
  <2>1. /\ scribe' = [scribe EXCEPT ![s] = to] /\ scribe[s].at = "marked"
        /\ UNCHANGED <<uploaded, file, object, removing, charged>>
    BY <1>1, <1>8 DEF C!ReadRecording, FilesTyped
  <2>2. /\ to \in Transcription /\ (to.at # "idle" => to.file \in 1 .. uploaded)
        /\ to.at # "saved"
    BY <1>2, <1>4, <1>5, <2>1
  <2> QED
    BY <1>3, <2>1, <2>2, ScribeMoves DEF AttKept
<1>9. ASSUME NEW extracted \in C!Extractions, C!Transcribe(s, extracted) PROVE AttKept
  <2>1. UNCHANGED <<uploaded, object, removing, charged>> /\ scribe[s].at = "heard"
    BY <1>9 DEF C!Transcribe
  <2>2. CASE extracted = "none"
    <3>1. /\ scribe' = [scribe EXCEPT ![s] = C!Idle] /\ file' = C!Patched(g, "failed", "none")
      BY <1>9, <2>2 DEF C!Transcribe
    <3>2. /\ file' \in [C!Files -> C!Rows \cup {None}]
          /\ \A f \in C!Files : Patches(f) /\ Handled(f)
      BY <1>4, <2>1, <3>1, PatchesRow DEF C!Statuses, C!Extractions
    <3> QED
      BY <1>2, <2>1, <3>1, <3>2, ScribeMoves DEF AttKept
  <2>3. CASE extracted # "none"
    <3> PICK to : to = [scribe[s] EXCEPT !.at = "saved"]
      OBVIOUS
    <3>1. /\ scribe' = [scribe EXCEPT ![s] = to] /\ file' = C!Patched(g, "ready", extracted)
      BY <1>1, <1>9, <2>3 DEF C!Transcribe, FilesTyped
    <3>2. /\ file' \in [C!Files -> C!Rows \cup {None}]
          /\ \A f \in C!Files : Patches(f) /\ Handled(f)
          /\ HasWords(g)'
      BY <1>4, <2>1, <2>3, <3>1, PatchesRow DEF C!Statuses
    <3>3. HasWords(to.file)'
      BY <1>5, <3>2 DEF HasWords
    <3> QED
      BY <1>4, <1>5, <2>1, <3>1, <3>2, <3>3, ScribeMoves DEF AttKept
  <2> QED
    BY <2>2, <2>3
<1>10. ASSUME NEW paid \in BOOLEAN, C!ChargeTranscript(s, paid) PROVE AttKept
  <2>1. /\ scribe' = [scribe EXCEPT ![s] = C!Idle] /\ scribe[s].at = "saved"
        /\ charged' \subseteq charged \cup {g}
        /\ UNCHANGED <<uploaded, file, object, removing>>
    BY <1>10 DEF C!ChargeTranscript
  <2>2. HasWords(g) /\ g \in 1 .. uploaded
    BY <1>1, <1>4, <2>1 DEF FilesWhole
  <2>3. charged' \subseteq charged \cup {f \in 1 .. uploaded : HasWords(f)}
    BY <2>1, <2>2
  <2> QED
    BY <1>2, <1>3, <2>1, <2>3, ScribeMoves DEF AttKept
<1> QED
  BY <1>6, <1>7, <1>8, <1>9, <1>10

LEMMA AttStep ==
  ASSUME FileInv, C!AttNext \/ UNCHANGED attVars
  PROVE  AttKept
<1>1. FilesTyped /\ FilesWhole
  BY DEF FileInv
<1>2. /\ C!Idle \in Transcription /\ C!Idle \in Removal /\ C!Idle.at = "idle"
  BY DEF C!Idle, Transcription, Removal
<1>3. CASE UNCHANGED attVars
  <2>1. UNCHANGED <<uploaded, file, object, scribe, removing, charged>>
    BY <1>3 DEF attVars
  <2>2. FileInv'
    BY <1>1, <2>1, FilesArePatched DEF Patches, FilesTyped
  <2> QED
    BY <2>1, <2>2 DEF AttKept, Handled
<1>4. CASE C!CrashFile
  <2>1. ASSUME NEW s \in Writers, scribe' = [scribe EXCEPT ![s] = C!Idle],
               UNCHANGED <<uploaded, file, object, charged, removing>>
        PROVE  AttKept
    BY <1>1, <1>2, <2>1, ScribeMoves DEF AttKept, Handled, Patches, FilesTyped
  <2>2. ASSUME removing' = C!Idle, UNCHANGED <<uploaded, file, object, charged, scribe>>
        PROVE  AttKept
    <3>1. FilesTyped'
      BY <1>1, <1>2, <2>2 DEF FilesTyped
    <3>2. FilesWhole'
      BY <1>1, <1>2, <2>2 DEF FilesWhole, HasWords
    <3> QED
      BY <2>2, <3>1, <3>2 DEF FileInv, AttKept, Handled
  <2> QED
    BY <1>4, <2>1, <2>2 DEF C!CrashFile
<1>5. ASSUME NEW kind \in C!Kinds, NEW recorded \in BOOLEAN, C!Upload(kind, recorded)
      PROVE  AttKept
  BY <1>5, AttUploads
<1>6. ASSUME \/ \E f \in C!Files : C!StartRemove(f)
             \/ C!DeleteRow \/ \E cleared \in BOOLEAN : C!RemoveObject(cleared)
      PROVE  AttKept
  BY <1>6, AttRemoves
<1>7. ASSUME NEW s \in Writers,
             \/ \E f \in C!Files : C!StartTranscription(s, f)
             \/ C!MarkProcessing(s)
             \/ \E readable \in BOOLEAN : C!ReadRecording(s, readable)
             \/ \E extracted \in C!Extractions : C!Transcribe(s, extracted)
             \/ \E paid \in BOOLEAN : C!ChargeTranscript(s, paid)
      PROVE  AttKept
  BY <1>7, AttTranscribes
<1> QED
  BY <1>3, <1>4, <1>5, <1>6, <1>7 DEF C!AttNext

--------------------------------------------------------------------------------
(* The turns.                                                              *)
Question == [role : {"user", "assistant"}, turn : C!Turns,
             status : {"complete", "failed", "stopped"}]
TurnRow == [at : C!Stages, conv : Conversations \cup {None}, files : SUBSET C!Files,
            vision : C!Visions, images : SUBSET C!Files, texts : SUBSET C!Files,
            spent : SUBSET {"rerank", "refine"}, answer : BOOLEAN, stopped : BOOLEAN]
TurnsTyped ==
  /\ open \subseteq Conversations /\ thread \in [Conversations -> Seq(Question)]
  /\ turn \in [C!Turns -> TurnRow]
  /\ billed \subseteq C!Turns \X C!StepNames
  /\ stops \subseteq pressed /\ pressed \subseteq Conversations \X C!Turns

(* Where a turn is tells what it may have: nothing is spent before it      *)
(* gathers, nothing is billed before it saves, and a stop was pressed.     *)
Before == {"none", "asked", "built", "conflict", "bound", "started", "failing"}
Unpaid(t) == \A step \in C!StepNames : <<t, step>> \notin billed
InStage(t) ==
  /\ turn[t].at # "none" => turn[t].conv \in Conversations
  /\ turn[t].at \in Before => ~turn[t].answer /\ turn[t].spent = {}
  /\ turn[t].at \in Before \cup {"gathered", "streaming"} => ~turn[t].stopped /\ Unpaid(t)
  /\ turn[t].stopped => <<turn[t].conv, t>> \in pressed
  /\ <<t, "chat">> \in billed => turn[t].answer

(* A turn with a row of its own has ended, and its row says what it is.    *)
Accounted(t, status) ==
  /\ turn[t].at = "ended"
  /\ turn[t].answer => <<t, "chat">> \in billed
  /\ \A step \in turn[t].spent : <<t, step>> \in billed
  /\ status = "stopped" => <<turn[t].conv, t>> \in pressed
  /\ status = "complete" => <<t, "chat">> \in billed
Answered(r) == r.role = "assistant" => Accounted(r.turn, r.status)
Told(r, c) == turn[r.turn].at # "none" /\ turn[r.turn].conv = c /\ Answered(r)
ToldOnce(c) ==
  \A i, j \in DOMAIN thread[c] :
    /\ thread[c][i].role = "assistant" /\ thread[c][j].role = "assistant"
    /\ thread[c][i].turn = thread[c][j].turn
    => i = j

TurnInv ==
  /\ TurnsTyped
  /\ \A t \in C!Turns : InStage(t)
  /\ \A c \in Conversations : ToldOnce(c) /\ \A i \in DOMAIN thread[c] : Told(thread[c][i], c)

LEMMA TurnsInit == MCInit => TurnInv
<1> SUFFICES ASSUME C!NoTurns PROVE TurnInv
  BY DEF MCInit, C!ChtInit, C!ChtUploaded
<1>1. /\ open = Conversations /\ thread = [c \in Conversations |-> <<>>]
      /\ turn = [t \in C!Turns |-> C!NoTurn] /\ billed = {} /\ stops = {} /\ pressed = {}
  BY DEF C!NoTurns
<1>2. /\ C!NoTurn \in TurnRow /\ C!NoTurn.at = "none" /\ ~C!NoTurn.answer
      /\ C!NoTurn.spent = {} /\ ~C!NoTurn.stopped
  BY DEF C!NoTurn, TurnRow, C!Stages, C!Visions
<1>3. <<>> \in Seq(Question) /\ DOMAIN <<>> = {}
  OBVIOUS
<1>4. thread \in [Conversations -> Seq(Question)] /\ turn \in [C!Turns -> TurnRow]
  BY <1>1, <1>2, <1>3
<1>5. \A c \in Conversations : DOMAIN thread[c] = {}
  BY <1>1, <1>3
<1>6. \A t \in C!Turns : InStage(t)
  BY <1>1, <1>2 DEF InStage, Unpaid
<1> QED
  BY <1>1, <1>4, <1>5, <1>6 DEF TurnInv, TurnsTyped, ToldOnce, Told

(* A thread may be left, emptied, or told one more row of a turn.          *)
Tells(t, r, new) ==
  /\ r \in Question /\ r.turn = t
  /\ thread' = [thread EXCEPT ![new.conv] = Append(@, r)]
(* One turn moves on from where it was, and may be billed for more.        *)
LEMMA TurnMoves ==
  ASSUME TurnInv, NEW t \in C!Turns, NEW new \in TurnRow, turn' = [turn EXCEPT ![t] = new],
         turn[t].at # "ended", new.at # "none", new.conv \in Conversations,
         turn[t].at # "none" => new.conv = turn[t].conv,
         billed \subseteq billed', billed' \subseteq billed \cup ({t} \X C!StepNames),
         stops' \subseteq stops, UNCHANGED <<open, pressed>>, InStage(t)',
         \/ UNCHANGED thread
         \/ \E r : Tells(t, r, new) /\ Answered(r)'
  PROVE  TurnInv'
<1>1. /\ TurnsTyped
      /\ \A c \in Conversations : ToldOnce(c) /\ \A i \in DOMAIN thread[c] : Told(thread[c][i], c)
  BY DEF TurnInv
<1>2. /\ turn' \in [C!Turns -> TurnRow] /\ turn'[t] = new
      /\ \A o \in C!Turns \ {t} : turn'[o] = turn[o]
  BY <1>1 DEF TurnsTyped
<1>3. billed' \subseteq C!Turns \X C!StepNames
  BY <1>1 DEF TurnsTyped
<1>4. ASSUME NEW o \in C!Turns PROVE InStage(o)'
  <2>1. CASE o = t
    BY <2>1
  <2>2. CASE o # t
    <3>1. InStage(o) /\ turn'[o] = turn[o]
      BY <1>2, <2>2 DEF TurnInv
    <3>2. \A step : <<o, step>> \in billed' <=> <<o, step>> \in billed
      BY <2>2
    <3> QED
      BY <3>1, <3>2 DEF InStage, Unpaid
  <2> QED
    BY <2>1, <2>2
<1>5. ASSUME NEW c \in Conversations, NEW r \in Question, Told(r, c)
      PROVE  /\ Told(r, c)' /\ (r.role = "assistant" => r.turn # t)
             /\ turn'[r.turn].at # "none" /\ turn'[r.turn].conv = c
  <2>1. r.turn \in C!Turns
    BY DEF Question
  <2>2. r.role = "assistant" => r.turn # t
    BY <1>5 DEF Told, Answered, Accounted
  <2>3. turn'[r.turn].at # "none" /\ turn'[r.turn].conv = c
    BY <1>2, <1>5, <2>1 DEF Told
  <2>4. r.role = "assistant" => Accounted(r.turn, r.status)'
    BY <1>2, <1>5, <2>1, <2>2 DEF Told, Answered, Accounted
  <2> QED
    BY <2>2, <2>3, <2>4 DEF Told, Answered
<1>6. thread \in [Conversations -> Seq(Question)]
  BY <1>1 DEF TurnsTyped
<1>7. CASE UNCHANGED thread
  <2>1. ASSUME NEW c \in Conversations, NEW i \in DOMAIN thread[c] PROVE Told(thread[c][i], c)'
    <3> PICK r : r = thread[c][i]
      OBVIOUS
    <3>1. r \in Question /\ Told(r, c)
      BY <1>1, <1>6
    <3>2. Told(r, c)'
      BY <1>5, <3>1
    <3> QED
      BY <1>7, <3>2 DEF Told, Answered, Accounted
  <2>2. ASSUME NEW c \in Conversations PROVE ToldOnce(c)'
    BY <1>1, <1>7 DEF ToldOnce
  <2> QED
    BY <1>1, <1>2, <1>3, <1>4, <1>7, <2>1, <2>2 DEF TurnInv, TurnsTyped
<1>8. ASSUME NEW r, Tells(t, r, new), Answered(r)' PROVE TurnInv'
  <2> PICK d : d = new.conv
    OBVIOUS
  <2>1. /\ r \in Question /\ r.turn = t /\ d \in Conversations
        /\ thread' = [thread EXCEPT ![d] = Append(thread[d], r)]
    BY <1>8 DEF Tells
  <2>2. /\ thread' \in [Conversations -> Seq(Question)]
        /\ thread'[d] = Append(thread[d], r)
        /\ \A c \in Conversations \ {d} : thread'[c] = thread[c]
    BY <1>6, <2>1
  <2>3. Told(r, d)'
    BY <1>2, <1>8, <2>1 DEF Told
  <2> PICK s, n : s = thread[d] /\ n = Len(thread[d]) + 1
    OBVIOUS
  <2>4. /\ s \in Seq(Question) /\ thread'[d] = Append(s, r) /\ n = Len(s) + 1
        /\ Len(s) \in Nat /\ DOMAIN s = 1 .. Len(s)
    BY <1>6, <2>1, <2>2
  <2>5. /\ DOMAIN Append(s, r) = 1 .. n /\ Append(s, r)[n] = r
        /\ \A i \in 1 .. n : i # n => i \in DOMAIN s /\ Append(s, r)[i] = s[i]
    BY <2>1, <2>4
  <2>6. ASSUME NEW c \in Conversations, NEW i \in DOMAIN thread'[c]
        PROVE  /\ thread'[c][i] \in Question
               /\ \/ i \in DOMAIN thread[c] /\ thread'[c][i] = thread[c][i]
                     /\ Told(thread[c][i], c)
                  \/ c = d /\ i = n /\ thread'[c][i] = r
    <3>1. CASE c # d
      <4>1. thread'[c] = thread[c] /\ thread[c] \in Seq(Question)
        BY <1>6, <2>2, <3>1
      <4>2. i \in DOMAIN thread[c] /\ Told(thread[c][i], c)
        BY <1>1, <2>6, <4>1
      <4>3. thread[c][i] \in Question
        BY <4>1, <4>2
      <4> QED
        BY <4>1, <4>2, <4>3
    <3>2. CASE c = d
      <4>1. i \in 1 .. n /\ thread'[c][i] = Append(s, r)[i]
        BY <2>4, <2>5, <2>6, <3>2
      <4>2. CASE i = n
        BY <2>1, <2>5, <3>2, <4>1, <4>2
      <4>3. CASE i # n
        <5>1. i \in DOMAIN s /\ thread'[c][i] = s[i]
          BY <2>5, <4>1, <4>3
        <5>2. s[i] \in Question
          BY <2>4, <5>1
        <5>3. s = thread[c]
          BY <3>2
        <5>4. Told(thread[c][i], c)
          BY <1>1, <5>1, <5>3
        <5> QED
          BY <5>1, <5>2, <5>3, <5>4
      <4> QED
        BY <4>2, <4>3
    <3> QED
      BY <3>1, <3>2
  <2>7. ASSUME NEW c \in Conversations, NEW i \in DOMAIN thread'[c]
        PROVE  Told(thread[c][i], c)'
    <3> PICK q : q = thread'[c][i]
      OBVIOUS
    <3>1. q \in Question /\ (Told(q, c) \/ (c = d /\ q = r))
      <4>1. CASE i \in DOMAIN thread[c] /\ q = thread[c][i] /\ Told(thread[c][i], c)
        BY <2>6, <4>1
      <4>2. CASE c = d /\ q = r
        BY <2>1, <4>2
      <4> QED
        BY <2>6, <4>1, <4>2
    <3>2. Told(q, c)'
      BY <1>5, <2>3, <3>1
    <3> QED
      BY <3>2 DEF Told, Answered, Accounted
  <2>8. ASSUME NEW c \in Conversations PROVE ToldOnce(c)'
    <3> SUFFICES ASSUME NEW i \in DOMAIN thread'[c], NEW j \in DOMAIN thread'[c],
                        thread'[c][i].role = "assistant", thread'[c][j].role = "assistant",
                        thread'[c][i].turn = thread'[c][j].turn
                 PROVE  i = j
      BY DEF ToldOnce
    <3> PICK p, q : p = thread'[c][i] /\ q = thread'[c][j]
      OBVIOUS
    <3>1. p \in Question /\ q \in Question /\ p.turn = q.turn
          /\ p.role = "assistant" /\ q.role = "assistant"
      BY <2>6
    <3>2. CASE Told(p, c) /\ Told(q, c) /\ i \in DOMAIN thread[c] /\ j \in DOMAIN thread[c]
                 /\ p = thread[c][i] /\ q = thread[c][j]
      BY <1>1, <3>1, <3>2 DEF ToldOnce
    <3>3. CASE Told(p, c) /\ q = r
      BY <1>5, <2>1, <3>1, <3>3
    <3>4. CASE Told(q, c) /\ p = r
      BY <1>5, <2>1, <3>1, <3>4
    <3>5. CASE i = n /\ j = n
      BY <3>5
    <3> QED
      BY <2>6, <3>2, <3>3, <3>4, <3>5
  <2> QED
    BY <1>1, <1>2, <1>3, <1>4, <2>2, <2>7, <2>8 DEF TurnInv, TurnsTyped
<1> QED
  BY <1>7, <1>8

(* A conversation is emptied, a stop is pressed, or nothing at all.        *)
LEMMA TurnsRest ==
  ASSUME TurnInv, UNCHANGED <<turn, billed>>, open' \subseteq open,
         stops' \subseteq pressed', pressed \subseteq pressed',
         pressed' \subseteq Conversations \X C!Turns,
         thread' \in [Conversations -> Seq(Question)],
         \A c \in Conversations : thread'[c] = thread[c] \/ thread'[c] = <<>>
  PROVE  TurnInv'
<1>1. /\ TurnsTyped /\ \A t \in C!Turns : InStage(t)
      /\ \A c \in Conversations : ToldOnce(c) /\ \A i \in DOMAIN thread[c] : Told(thread[c][i], c)
  BY DEF TurnInv
<1>2. TurnsTyped'
  BY <1>1 DEF TurnsTyped
<1>3. \A t \in C!Turns : InStage(t)'
  BY <1>1 DEF InStage, Unpaid
<1>4. ASSUME NEW c \in Conversations
      PROVE  ToldOnce(c)' /\ \A i \in DOMAIN thread'[c] : Told(thread[c][i], c)'
  <2>1. CASE thread'[c] = <<>>
    <3>1. DOMAIN thread'[c] = {}
      BY <2>1
    <3> QED
      BY <3>1 DEF ToldOnce
  <2>2. CASE thread'[c] = thread[c]
    <3>1. ToldOnce(c)'
      BY <1>1, <2>2 DEF ToldOnce
    <3>2. ASSUME NEW i \in DOMAIN thread'[c] PROVE Told(thread[c][i], c)'
      <4> PICK r : r = thread[c][i]
        OBVIOUS
      <4>1. Told(r, c)
        BY <1>1, <2>2, <3>2
      <4>2. Told(r, c)'
        BY <4>1 DEF Told, Answered, Accounted
      <4> QED
        BY <2>2, <4>2 DEF Told, Answered, Accounted
    <3> QED
      BY <3>1, <3>2
  <2> QED
    BY <2>1, <2>2
<1> QED
  BY <1>2, <1>3, <1>4 DEF TurnInv

--------------------------------------------------------------------------------
(* The turn's own record after a move that keeps its conversation.         *)
LEMMA TurnFacts ==
  ASSUME TurnInv, NEW t \in C!Turns
  PROVE  /\ turn[t] \in TurnRow /\ InStage(t)
         /\ \A new : new \in TurnRow /\ turn' = [turn EXCEPT ![t] = new] => turn'[t] = new
  BY DEF TurnInv, TurnsTyped

(* Only the stage changes, or what was gathered, or the answer begins.     *)
LEMMA TurnAdvances ==
  ASSUME TurnInv, NEW t \in C!Turns, NEW new \in TurnRow, turn' = [turn EXCEPT ![t] = new],
         turn[t].at \notin {"none", "ended"}, new.conv = turn[t].conv,
         new.at \in C!Stages \ {"none"},
         new.at \in Before => turn[t].at \in Before /\ new.spent = {},
         new.at \in Before => ~new.answer,
         new.at \in Before \cup {"gathered", "streaming"} =>
           turn[t].at \in Before \cup {"gathered", "streaming"},
         new.stopped => turn[t].stopped
                        \/ (<<turn[t].conv, t>> \in stops
                              /\ new.at \notin Before \cup {"gathered", "streaming"}),
         turn[t].answer => new.answer,
         UNCHANGED <<open, thread, billed, stops, pressed>>
  PROVE  TurnInv'
<1>1. /\ turn[t] \in TurnRow /\ InStage(t) /\ turn'[t] = new /\ turn[t].conv \in Conversations
      /\ stops \subseteq pressed
  BY TurnFacts DEF InStage, TurnInv, TurnsTyped
<1>2. new.at \in Before \cup {"gathered", "streaming"} => ~new.stopped /\ Unpaid(t)
  BY <1>1 DEF InStage
<1>3. InStage(t)'
  BY <1>1, <1>2 DEF InStage, Unpaid
<1> QED
  BY <1>1, <1>3, TurnMoves

(* A turn ends with what it had, and may leave its row.                    *)
LEMMA TurnEnds ==
  ASSUME TurnInv, NEW t \in C!Turns, NEW status \in {"complete", "failed", "stopped"},
         turn[t].at \notin {"none", "ended"}, turn' = C!Over(t),
         stops' \subseteq stops, UNCHANGED <<open, billed, pressed>>,
         \/ UNCHANGED thread
         \/ /\ thread' = C!Inserted(t, "assistant", status)
            /\ turn[t].answer => <<t, "chat">> \in billed
            /\ \A step \in turn[t].spent : <<t, step>> \in billed
            /\ status = "stopped" => <<turn[t].conv, t>> \in pressed
            /\ status = "complete" => <<t, "chat">> \in billed
  PROVE  TurnInv'
<1> PICK new, r : /\ new = [turn[t] EXCEPT !.at = "ended", !.images = {}, !.texts = {}]
                  /\ r = [role |-> "assistant", turn |-> t, status |-> status]
  OBVIOUS
<1>1. turn \in [C!Turns -> TurnRow] /\ InStage(t) /\ turn[t] \in TurnRow
  BY TurnFacts DEF TurnInv, TurnsTyped
<1>2. /\ new \in TurnRow /\ new.at = "ended" /\ new.conv = turn[t].conv
      /\ (new.answer <=> turn[t].answer) /\ new.spent = turn[t].spent /\ (new.stopped <=> turn[t].stopped)
  BY <1>1 DEF TurnRow, C!Stages
<1>3. turn' = [turn EXCEPT ![t] = new] /\ turn'[t] = new
  BY <1>1, <1>2 DEF C!Over
<1>4. new.conv \in Conversations
  BY <1>1, <1>2 DEF InStage
<1>5. InStage(t)'
  BY <1>1, <1>2, <1>3 DEF InStage, Before
<1>6. r \in Question /\ r.turn = t /\ r.role = "assistant" /\ r.status = status
  BY DEF Question
<1>7. CASE UNCHANGED thread
  BY <1>1, <1>2, <1>3, <1>4, <1>5, <1>7, TurnMoves
<1>8. CASE /\ thread' = C!Inserted(t, "assistant", status)
           /\ turn[t].answer => <<t, "chat">> \in billed
           /\ \A step \in turn[t].spent : <<t, step>> \in billed
           /\ status = "stopped" => <<turn[t].conv, t>> \in pressed
           /\ status = "complete" => <<t, "chat">> \in billed
  <2>1. thread' = [thread EXCEPT ![new.conv] = Append(@, r)]
    BY <1>2, <1>8 DEF C!Inserted, C!Row
  <2>2. Tells(t, r, new)
    BY <1>6, <2>1 DEF Tells
  <2>3. Accounted(t, status)'
    BY <1>2, <1>3, <1>8 DEF Accounted
  <2>4. Answered(r)'
    BY <1>6, <2>3 DEF Answered
  <2> QED
    BY <1>1, <1>2, <1>3, <1>4, <1>5, <2>2, <2>4, TurnMoves
<1> QED
  BY <1>7, <1>8

LEMMA TurnAsks ==
  ASSUME TurnInv, NEW t \in C!Turns, NEW c \in Conversations, NEW fs \in SUBSET C!Files,
         NEW v \in C!Visions, C!Ask(t, c, fs, v)
  PROVE  TurnInv'
<1> PICK new, r : /\ new = [C!NoTurn EXCEPT !.at = "asked", !.conv = c, !.files = fs,
                              !.vision = v]
                  /\ r = [role |-> "user", turn |-> t, status |-> "complete"]
  OBVIOUS
<1>1. /\ new \in TurnRow /\ new.at = "asked" /\ new.conv = c /\ ~new.answer
      /\ new.spent = {} /\ ~new.stopped
  BY DEF C!NoTurn, TurnRow, C!Stages
<1>2. /\ turn' = [turn EXCEPT ![t] = new] /\ turn[t].at = "none" /\ turn'[t] = new
      /\ UNCHANGED <<open, billed, stops, pressed>>
  BY <1>1, TurnFacts DEF C!Ask
<1>3. InStage(t)
  BY TurnFacts
<1>4. InStage(t)'
  BY <1>1, <1>2, <1>3 DEF InStage, Before, Unpaid
<1>5. r \in Question /\ r.turn = t /\ r.role = "user"
  BY DEF Question
<1>6. Tells(t, r, new) /\ Answered(r)'
  BY <1>1, <1>5 DEF Tells, Answered, C!Ask, C!Row
<1> QED
  BY <1>1, <1>2, <1>4, <1>6, TurnMoves

LEMMA TurnGathers ==
  ASSUME TurnInv, NEW t \in C!Turns, NEW paid \in Spends, NEW found \in BOOLEAN,
         C!Gather(t, paid, found)
  PROVE  TurnInv'
<1>1. turn \in [C!Turns -> TurnRow] /\ InStage(t) /\ turn[t] \in TurnRow
      /\ turn[t].at = "started"
  BY TurnFacts DEF TurnInv, TurnsTyped, C!Gather
<1>2. UNCHANGED <<open, thread, billed, stops, pressed>>
  BY DEF C!Gather
<1>3. CASE turn' = [turn EXCEPT ![t].at = "failing"]
  <2> PICK new : new = [turn[t] EXCEPT !.at = "failing"]
    OBVIOUS
  <2>1. /\ new \in TurnRow /\ new.at = "failing" /\ new.conv = turn[t].conv
        /\ (new.answer <=> turn[t].answer) /\ new.spent = turn[t].spent
        /\ (new.stopped <=> turn[t].stopped) /\ turn' = [turn EXCEPT ![t] = new]
    BY <1>1, <1>3 DEF TurnRow, C!Stages
  <2> QED
    BY <1>1, <1>2, <2>1, TurnAdvances DEF Before, InStage, C!Stages
<1>4. ASSUME NEW images \in SUBSET C!Files, NEW texts \in SUBSET C!Files,
             turn' = [turn EXCEPT ![t].at = "gathered", ![t].spent = paid,
                        ![t].images = images, ![t].texts = texts]
      PROVE  TurnInv'
  <2> PICK new : new = [turn[t] EXCEPT !.at = "gathered", !.spent = paid, !.images = images,
                          !.texts = texts]
    OBVIOUS
  <2>1. paid \in SUBSET {"rerank", "refine"}
    BY SpendsAssumption
  <2>2. /\ new \in TurnRow /\ new.at = "gathered" /\ new.conv = turn[t].conv
        /\ (new.answer <=> turn[t].answer) /\ (new.stopped <=> turn[t].stopped)
        /\ turn' = [turn EXCEPT ![t] = new]
    BY <1>1, <1>4, <2>1 DEF TurnRow, C!Stages
  <2> QED
    BY <1>1, <1>2, <2>2, TurnAdvances DEF Before, InStage, C!Stages
<1> QED
  <2>1. C!HistoryFiles(t) \subseteq C!Files
    BY DEF C!HistoryFiles
  <2> DEFINE history == C!HistoryFiles(t)
             images == {f \in turn[t].files : C!Exists(f) /\ file[f].kind = "image"}
             plan == C!PlanTurnImages(images,
                       {f \in history : file[f].kind = "image" /\ ~C!Words(f)},
                       turn[t].vision # "none")
             texts == {f \in history : C!Words(f)}
  <2>2. turn[t].files \subseteq C!Files
    BY <1>1 DEF TurnRow
  <2>3. plan \subseteq C!Files
    BY <2>1, <2>2 DEF C!PlanTurnImages, C!Newest
  <2>4. plan \cap object \in SUBSET C!Files /\ texts \in SUBSET C!Files
    BY <2>1, <2>3
  <2>5. \/ turn' = [turn EXCEPT ![t].at = "failing"]
        \/ turn' = [turn EXCEPT ![t].at = "gathered", ![t].spent = paid,
                      ![t].images = plan \cap object, ![t].texts = texts]
    BY DEF C!Gather
  <2> QED
    BY <1>3, <1>4, <2>4, <2>5

(* The stages from the refusals to the end of the stream.                  *)
LEMMA TurnAdvancesSteps ==
  ASSUME TurnInv, NEW t \in C!Turns,
         \/ C!Build(t) \/ C!Bind(t) \/ C!CheckStop(t) \/ C!Delta(t)
         \/ C!SeeStop(t) \/ C!EndStream(t)
         \/ C!Start(t, TRUE)
  PROVE  TurnInv'
<1>1. turn \in [C!Turns -> TurnRow] /\ InStage(t) /\ turn[t] \in TurnRow
  BY TurnFacts DEF TurnInv, TurnsTyped
<1>2. ASSUME NEW at \in C!Stages \ {"none"}, turn' = [turn EXCEPT ![t].at = at],
             turn[t].at \notin {"none", "ended"},
             at \in Before => turn[t].at \in Before,
             at \in Before \cup {"gathered", "streaming"} =>
               turn[t].at \in Before \cup {"gathered", "streaming"},
             UNCHANGED <<open, thread, billed, stops, pressed>>
      PROVE  TurnInv'
  <2> PICK new : new = [turn[t] EXCEPT !.at = at]
    OBVIOUS
  <2>1. /\ new \in TurnRow /\ new.at = at /\ new.conv = turn[t].conv
        /\ (new.answer <=> turn[t].answer) /\ new.spent = turn[t].spent
        /\ (new.stopped <=> turn[t].stopped) /\ turn' = [turn EXCEPT ![t] = new]
    BY <1>1, <1>2 DEF TurnRow
  <2>2. at \in Before => ~new.answer /\ new.spent = {}
    BY <1>1, <1>2, <2>1 DEF InStage
  <2>3. /\ new.at \in C!Stages \ {"none"} /\ turn[t].at \notin {"none", "ended"}
        /\ new.at \in Before => turn[t].at \in Before /\ new.spent = {}
        /\ new.at \in Before => ~new.answer
        /\ new.at \in Before \cup {"gathered", "streaming"} =>
             turn[t].at \in Before \cup {"gathered", "streaming"}
        /\ new.stopped => turn[t].stopped
        /\ turn[t].answer => new.answer
    BY <1>2, <2>1, <2>2
  <2>4. UNCHANGED <<open, thread, billed, stops, pressed>>
    BY <1>2
  <2> QED
    BY <2>1, <2>3, <2>4, TurnAdvances
<1>3. CASE turn[t].at \in {"gathered", "streaming"} /\ C!IsStopRequested(t)
           /\ turn' = [turn EXCEPT ![t].at = "saving", ![t].stopped = TRUE]
           /\ UNCHANGED <<open, thread, billed, stops, pressed>>
  <2> PICK new : new = [turn[t] EXCEPT !.at = "saving", !.stopped = TRUE]
    OBVIOUS
  <2>1. /\ new \in TurnRow /\ new.at = "saving" /\ new.conv = turn[t].conv
        /\ (new.answer <=> turn[t].answer) /\ new.spent = turn[t].spent
        /\ turn' = [turn EXCEPT ![t] = new]
    BY <1>1, <1>3 DEF TurnRow, C!Stages
  <2>2. /\ <<turn[t].conv, t>> \in stops
        /\ new.at \in C!Stages \ {"none"} /\ new.at \notin Before \cup {"gathered", "streaming"}
        /\ turn[t].at \notin {"none", "ended"} /\ new.at \notin Before
    BY <1>3, <2>1 DEF C!IsStopRequested, Before, C!Stages
  <2> QED
    BY <1>3, <2>1, <2>2, TurnAdvances
<1>4. CASE C!Delta(t)
  <2> PICK new : new = [turn[t] EXCEPT !.answer = TRUE]
    OBVIOUS
  <2>1. /\ new \in TurnRow /\ new.at = "streaming" /\ new.conv = turn[t].conv
        /\ new.answer /\ new.spent = turn[t].spent /\ (new.stopped <=> turn[t].stopped)
        /\ turn' = [turn EXCEPT ![t] = new] /\ turn[t].at = "streaming"
        /\ UNCHANGED <<open, thread, billed, stops, pressed>>
    BY <1>1, <1>4 DEF TurnRow, C!Delta
  <2> QED
    BY <2>1, TurnAdvances DEF Before, C!Stages
<1>5. CASE C!Build(t)
  BY <1>2, <1>5 DEF C!Build, Before, C!Stages
<1>6. CASE C!Bind(t)
  <2>1. \E at \in {"bound", "conflict"} : turn' = [turn EXCEPT ![t].at = at]
    BY <1>6 DEF C!Bind
  <2> QED
    BY <1>2, <1>6, <2>1 DEF C!Bind, Before, C!Stages
<1>7. CASE C!CheckStop(t)
  BY <1>2, <1>3, <1>7 DEF C!CheckStop, Before, C!Stages
<1>8. CASE C!SeeStop(t)
  BY <1>3, <1>8 DEF C!SeeStop
<1>9. CASE C!EndStream(t)
  BY <1>2, <1>9 DEF C!EndStream, Before, C!Stages
<1>10. CASE C!Start(t, TRUE)
  BY <1>2, <1>10 DEF C!Start, Before, C!Stages
<1> QED
  BY <1>4, <1>5, <1>6, <1>7, <1>8, <1>9, <1>10

(* A turn that ends early, with a refusal or with nothing.                 *)
LEMMA TurnStopsShort ==
  ASSUME TurnInv, NEW t \in C!Turns,
         C!Refuse(t) \/ C!Start(t, FALSE) \/ C!CrashTurn(t)
  PROVE  TurnInv'
<1>1. InStage(t)
  BY TurnFacts
<1>2. CASE C!Refuse(t)
  <2>1. ~turn[t].answer /\ turn[t].spent = {}
    BY <1>1, <1>2 DEF InStage, C!Refuse, Before
  <2>2. /\ turn[t].at \notin {"none", "ended"} /\ turn' = C!Over(t)
        /\ UNCHANGED <<open, billed, stops, pressed>>
        /\ UNCHANGED thread \/ thread' = C!Inserted(t, "assistant", "failed")
    BY <1>2 DEF C!Refuse
  <2> QED
    BY <2>1, <2>2, TurnEnds
<1>3. CASE C!Start(t, FALSE)
  BY <1>3, TurnEnds DEF C!Start
<1>4. CASE C!CrashTurn(t)
  BY <1>4, TurnEnds DEF C!CrashTurn
<1> QED
  BY <1>2, <1>3, <1>4

LEMMA TurnCharges ==
  ASSUME TurnInv, NEW t \in C!Turns, NEW paid \in BOOLEAN, C!Charge(t, paid)
  PROVE  TurnInv'
<1>1. turn \in [C!Turns -> TurnRow] /\ InStage(t) /\ turn[t] \in TurnRow
      /\ turn[t].at = "saving" /\ UNCHANGED <<open, thread, stops, pressed>>
  BY TurnFacts DEF TurnInv, TurnsTyped, C!Charge
<1>2. CASE turn' = C!Over(t) /\ UNCHANGED billed
  BY <1>1, <1>2, TurnEnds
<1>3. ASSUME NEW i \in C!Outstanding(t), UNCHANGED turn,
             billed' = billed \cup {<<t, C!Steps[i]>>}
      PROVE  TurnInv'
  <2> PICK step : step = C!Steps[i]
    OBVIOUS
  <2>1. step \in C!StepNames /\ step \in C!Due(t)
    BY DEF C!Outstanding, C!StepNames
  <2>2. step = "chat" => turn[t].answer
    BY <1>1, <2>1 DEF C!Due, TurnRow
  <2>3. billed' = billed \cup {<<t, step>>}
    BY <1>3
  <2>4. turn' = [turn EXCEPT ![t] = turn[t]]
    BY <1>1, <1>3
  <2>5. InStage(t)'
    BY <1>1, <1>3, <2>2, <2>3 DEF InStage, Before, Unpaid
  <2>6. turn[t].conv \in Conversations
    BY <1>1 DEF InStage
  <2>7. billed \subseteq billed' /\ billed' \subseteq billed \cup ({t} \X C!StepNames)
    BY <2>1, <2>3
  <2>8. stops' \subseteq stops
    BY <1>1
  <2> QED
    BY <1>1, <2>4, <2>5, <2>6, <2>7, <2>8, TurnMoves
<1> QED
  BY <1>2, <1>3 DEF C!Charge

LEMMA TurnStores ==
  ASSUME TurnInv, NEW t \in C!Turns, C!Store(t)
  PROVE  TurnInv'
<1>1. /\ InStage(t) /\ turn[t] \in TurnRow /\ turn[t].at \in {"saving", "failing"}
      /\ C!Outstanding(t) = {} /\ turn' = C!Over(t) /\ UNCHANGED <<open, billed, pressed>>
  BY TurnFacts DEF C!Store
<1>2. stops' \subseteq stops
  BY DEF C!Store
<1> PICK status : status = C!Status(t)
  OBVIOUS
<1>3. /\ status \in {"complete", "failed", "stopped"}
      /\ status = "stopped" <=> turn[t].stopped
      /\ status = "complete" => turn[t].answer
  BY <1>1 DEF C!Status, TurnRow
<1>4. \A step \in C!Due(t) : <<t, step>> \in billed
  <2> SUFFICES ASSUME NEW step \in C!Due(t) PROVE <<t, step>> \in billed
    OBVIOUS
  <2>1. step \in {"rerank", "refine", "chat"}
    BY <1>1 DEF C!Due, TurnRow
  <2>2. /\ DOMAIN C!Steps = 1 .. 3 /\ C!Steps[1] = "rerank" /\ C!Steps[2] = "refine"
        /\ C!Steps[3] = "chat"
    BY DEF C!Steps
  <2>3. PICK i \in DOMAIN C!Steps : C!Steps[i] = step
    BY <2>1, <2>2
  <2>4. i \notin C!Outstanding(t)
    BY <1>1
  <2> QED
    BY <2>3, <2>4 DEF C!Outstanding
<1>5. /\ turn[t].answer => <<t, "chat">> \in billed
      /\ \A step \in turn[t].spent : <<t, step>> \in billed
  BY <1>1, <1>4 DEF C!Due
<1>6. status = "stopped" => <<turn[t].conv, t>> \in pressed
  BY <1>1, <1>3 DEF InStage
<1>7. UNCHANGED thread \/ thread' = C!Inserted(t, "assistant", status)
  BY DEF C!Store
<1> QED
  BY <1>1, <1>2, <1>3, <1>5, <1>6, <1>7, TurnEnds

(* A stop is pressed or expires, or a conversation is deleted.             *)
LEMMA TurnsAround ==
  ASSUME TurnInv, NEW c \in Conversations,
         \/ \E t \in C!Turns : C!PressStop(c, t) \/ C!ExpireStop(c, t)
         \/ C!DeleteConversation(c)
  PROVE  TurnInv'
<1>1. TurnsTyped
  BY DEF TurnInv
<1>2. ASSUME NEW t \in C!Turns, C!PressStop(c, t) PROVE TurnInv'
  BY <1>1, <1>2, TurnsRest DEF C!PressStop, TurnsTyped
<1>3. ASSUME NEW t \in C!Turns, C!ExpireStop(c, t) PROVE TurnInv'
  BY <1>1, <1>3, TurnsRest DEF C!ExpireStop, TurnsTyped
<1>4. CASE C!DeleteConversation(c)
  <2>1. <<>> \in Seq(Question)
    OBVIOUS
  <2>2. /\ thread' \in [Conversations -> Seq(Question)]
        /\ \A d \in Conversations : thread'[d] = thread[d] \/ thread'[d] = <<>>
    BY <1>1, <1>4, <2>1 DEF C!DeleteConversation, TurnsTyped
  <2> QED
    BY <1>1, <1>4, <2>2, TurnsRest DEF C!DeleteConversation, TurnsTyped
<1> QED
  BY <1>2, <1>3, <1>4

LEMMA TurnsStep ==
  ASSUME TurnInv, C!ChtNext \/ UNCHANGED <<attVars, chtVars>>
  PROVE  TurnInv'
<1>1. CASE UNCHANGED chtVars \/ UNCHANGED C!chtVars
  BY <1>1, TurnsRest DEF chtVars, C!chtVars, TurnInv, TurnsTyped
<1>2. ASSUME NEW t \in C!Turns, NEW c \in Conversations, NEW fs \in SUBSET C!Files,
             NEW v \in C!Visions, C!Ask(t, c, fs, v)
      PROVE  TurnInv'
  BY <1>2, TurnAsks
<1>3. ASSUME NEW t \in C!Turns,
             \/ C!Build(t) \/ C!Bind(t) \/ C!CheckStop(t) \/ C!Delta(t)
             \/ C!SeeStop(t) \/ C!EndStream(t)
      PROVE  TurnInv'
  BY <1>3, TurnAdvancesSteps
<1>4. ASSUME NEW t \in C!Turns, NEW credential \in BOOLEAN, C!Start(t, credential)
      PROVE  TurnInv'
  BY <1>4, TurnAdvancesSteps, TurnStopsShort
<1>5. ASSUME NEW t \in C!Turns, C!Refuse(t) \/ C!CrashTurn(t) PROVE TurnInv'
  BY <1>5, TurnStopsShort
<1>6. ASSUME NEW t \in C!Turns, NEW s \in Spends, NEW found \in BOOLEAN, C!Gather(t, s, found)
      PROVE  TurnInv'
  BY <1>6, TurnGathers
<1>7. ASSUME NEW t \in C!Turns, NEW paid \in BOOLEAN, C!Charge(t, paid) PROVE TurnInv'
  BY <1>7, TurnCharges
<1>8. ASSUME NEW t \in C!Turns, C!Store(t) PROVE TurnInv'
  BY <1>8, TurnStores
<1>9. ASSUME NEW c \in Conversations, NEW t \in C!Turns, C!PressStop(c, t) \/ C!ExpireStop(c, t)
      PROVE  TurnInv'
  BY <1>9, TurnsAround
<1>10. ASSUME NEW c \in Conversations, C!DeleteConversation(c) PROVE TurnInv'
  BY <1>10, TurnsAround
<1> QED
  BY <1>1, <1>2, <1>3, <1>4, <1>5, <1>6, <1>7, <1>8, <1>9, <1>10 DEF C!ChtNext, chtVars

--------------------------------------------------------------------------------
(* The turns move the rows of files only where they bind them or go.       *)
(* A row is as it was, goes with its conversation or before it is bound,   *)
(* or is bound to a turn that has begun.                                   *)
Loose(f) == file[f] = None \/ file[f].message = C!Unbound
Follows(f) ==
  \/ file'[f] = file[f]
  \/ Stays(f)
  \/ /\ Loose(f) \/ turn[file[f].message].conv \notin open'
     /\ \/ file'[f] = None
        \/ file'[f].message = C!Unbound
        \/ file'[f].message \in C!Turns /\ turn[file'[f].message].at # "none"
FilesFollow == FileInv' /\ \A f \in C!Files : Follows(f)

LEMMA BindFollows ==
  ASSUME FileInv, TurnInv, NEW t \in C!Turns, C!Bind(t)
  PROVE  FilesFollow
<1>1. file \in [C!Files -> C!Rows \cup {None}]
  BY DEF FileInv, FilesTyped
<1>2. turn[t].at = "built" /\ UNCHANGED <<uploaded, object, scribe, removing, charged>>
  BY DEF C!Bind
<1>3. t \in Int
  BY BoundsAssumption DEF C!Turns
<1>4. CASE UNCHANGED file
  <2>1. FileInv'
    BY <1>1, <1>2, <1>4, FilesArePatched DEF Patches
  <2> QED
    BY <1>4, <2>1 DEF FilesFollow, Follows
<1>5. CASE file' = [f \in C!Files |-> IF f \in C!Claimed(turn[t].files)
                                        THEN [file[f] EXCEPT !.message = t] ELSE file[f]]
  <2>1. ASSUME NEW f \in C!Files
        PROVE  file'[f] \in C!Rows \cup {None} /\ Patches(f) /\ Follows(f)
    <3>1. CASE f \notin C!Claimed(turn[t].files)
      <4>1. file'[f] = file[f]
        BY <1>5, <3>1
      <4> QED
        BY <1>1, <4>1 DEF Patches, Follows
    <3>2. CASE f \in C!Claimed(turn[t].files)
      <4> PICK row : row = [file[f] EXCEPT !.message = t]
        OBVIOUS
      <4>1. file'[f] = row /\ file[f] \in C!Rows /\ file[f].message = C!Unbound /\ file[f] # None
        BY <1>1, <1>5, <3>2 DEF C!Claimed, C!Exists
      <4>2. /\ row \in C!Rows /\ row.message = t /\ row.kind = file[f].kind
            /\ row.extracted = file[f].extracted
        BY <1>3, <4>1 DEF C!Rows
      <4>3. Patches(f)
        BY <4>1, <4>2 DEF Patches
      <4>4. Follows(f)
        BY <1>2, <4>1, <4>2 DEF Follows, Loose
      <4> QED
        BY <4>1, <4>2, <4>3, <4>4
    <3> QED
      BY <3>1, <3>2
  <2>2. file' \in [C!Files -> C!Rows \cup {None}]
    BY <1>5, <2>1
  <2> QED
    BY <1>2, <2>1, <2>2, FilesArePatched DEF FilesFollow
<1> QED
  BY <1>4, <1>5 DEF C!Bind

LEMMA DeleteFollows ==
  ASSUME FileInv, NEW c \in Conversations, C!DeleteConversation(c)
  PROVE  FilesFollow
<1>1. file \in [C!Files -> C!Rows \cup {None}]
  BY DEF FileInv, FilesTyped
<1>2. UNCHANGED <<uploaded, object, scribe, removing, charged>> /\ c \notin open'
  BY DEF C!DeleteConversation
<1>3. ASSUME NEW f \in C!Files
      PROVE  file'[f] \in C!Rows \cup {None} /\ Patches(f) /\ Follows(f)
  <2>1. CASE C!InConversation(f, c)
    <3>1. file'[f] = None
      BY <2>1 DEF C!DeleteConversation
    <3> QED
      BY <1>2, <2>1, <3>1 DEF Patches, Follows, C!InConversation
  <2>2. CASE ~C!InConversation(f, c)
    <3>1. file'[f] = file[f]
      BY <2>2 DEF C!DeleteConversation
    <3> QED
      BY <1>1, <3>1 DEF Patches, Follows
  <2> QED
    BY <2>1, <2>2
<1>4. file' \in [C!Files -> C!Rows \cup {None}]
  <2>1. file' = [f \in C!Files |-> file'[f]]
    BY DEF C!DeleteConversation
  <2> QED
    BY <1>3, <2>1
<1> QED
  BY <1>2, <1>3, <1>4, FilesArePatched DEF FilesFollow

LEMMA FilesStep ==
  ASSUME FileInv, TurnInv, C!ChtNext \/ UNCHANGED <<attVars, chtVars>>
  PROVE  FilesFollow
<1>1. ASSUME C!AttNext \/ UNCHANGED attVars PROVE FilesFollow
  BY <1>1, AttStep DEF AttKept, FilesFollow, Handled, Follows, Loose
<1>2. ASSUME NEW t \in C!Turns, C!Bind(t) PROVE FilesFollow
  BY <1>2, BindFollows
<1>3. ASSUME NEW c \in Conversations, C!DeleteConversation(c) PROVE FilesFollow
  BY <1>3, DeleteFollows
<1>4. ASSUME NEW t \in C!Turns, NEW c \in Conversations, NEW fs \in SUBSET C!Files,
             NEW v \in C!Visions, C!Ask(t, c, fs, v)
      PROVE  UNCHANGED attVars
  BY <1>4 DEF C!Ask, C!attVars, attVars
<1>5. ASSUME NEW t \in C!Turns,
             \/ C!Build(t) \/ C!Refuse(t) \/ C!CheckStop(t) \/ C!Delta(t) \/ C!SeeStop(t)
             \/ C!EndStream(t) \/ C!Store(t) \/ C!CrashTurn(t)
             \/ \E credential \in BOOLEAN : C!Start(t, credential)
             \/ \E s \in Spends, found \in BOOLEAN : C!Gather(t, s, found)
             \/ \E paid \in BOOLEAN : C!Charge(t, paid)
             \/ \E c \in Conversations : C!PressStop(c, t) \/ C!ExpireStop(c, t)
      PROVE  UNCHANGED attVars
  BY <1>5 DEF C!Build, C!Refuse, C!CheckStop, C!Delta, C!SeeStop, C!EndStream, C!Store,
              C!CrashTurn, C!Start, C!Gather, C!Charge, C!PressStop, C!ExpireStop,
              C!attVars, attVars
<1> QED
  BY <1>1, <1>2, <1>3, <1>4, <1>5 DEF C!ChtNext, attVars, C!attVars

(* What a thread tells is accounted for.                                   *)
LEMMA AttInvIsEnough == FileInv => C!AttTypeOK /\ C!NoBrokenFiles
<1> SUFFICES ASSUME FileInv PROVE C!AttTypeOK /\ C!NoBrokenFiles
  OBVIOUS
<1>1. FilesTyped /\ FilesWhole /\ 1 .. uploaded \subseteq C!Files
  BY UploadedAreFiles DEF FileInv
<1>2. /\ removing.at \in {"idle", "read", "deleted"}
      /\ \A s \in Writers : scribe[s].at \in {"idle", "read", "marked", "heard", "saved"}
  BY <1>1 DEF FilesTyped, Removal, Transcription
<1> QED
  BY <1>1, <1>2 DEF C!AttTypeOK, C!NoBrokenFiles, C!Exists, FilesTyped, FilesWhole, HasWords

LEMMA TurnInvIsEnough == FileInv /\ TurnInv => C!TurnsAreAccountedFor
<1> SUFFICES ASSUME FileInv, TurnInv PROVE C!TurnsAreAccountedFor
  OBVIOUS
<1>1. /\ TurnsTyped
      /\ \A c \in Conversations : ToldOnce(c) /\ \A i \in DOMAIN thread[c] : Told(thread[c][i], c)
  BY DEF TurnInv
<1>2. C!ChtTypeOK
  <2>1. \A t \in C!Turns : turn[t].at \in C!Stages /\ turn[t].vision \in C!Visions
    BY <1>1 DEF TurnsTyped, TurnRow
  <2> QED
    BY <1>1, <2>1, AttInvIsEnough DEF C!ChtTypeOK, TurnsTyped
<1>3. ASSUME NEW t \in C!Turns, turn[t].at # "none"
      PROVE  /\ C!Cardinality(C!Answers(t)) <= 1
             /\ \A i \in C!Answers(t) :
                  /\ turn[t].answer => <<t, "chat">> \in billed
                  /\ \A step \in turn[t].spent : <<t, step>> \in billed
                  /\ thread[turn[t].conv][i].status = "stopped" => <<turn[t].conv, t>> \in pressed
                  /\ thread[turn[t].conv][i].status = "complete" => <<t, "chat">> \in billed
             /\ <<t, "chat">> \in billed => turn[t].answer
  <2> PICK c, A : c = turn[t].conv /\ A = C!Answers(t)
    OBVIOUS
  <2>1. InStage(t) /\ c \in Conversations
    BY <1>3 DEF TurnInv, InStage
  <2>2. A = {i \in DOMAIN thread[c] : thread[c][i].role = "assistant" /\ thread[c][i].turn = t}
    BY DEF C!Answers
  <2>3. \A i, j \in A : i = j
    BY <1>1, <2>1, <2>2 DEF ToldOnce
  <2>4. C!Cardinality(A) <= 1
    <3>1. CASE A = {}
      <4>1. C!Cardinality(A) = 0
        BY <3>1, FS_EmptySet DEF C!Cardinality, Cardinality
      <4> QED
        BY <4>1
    <3>2. CASE A # {}
      <4>1. \E x : A = {x}
        BY <2>3, <3>2
      <4>2. Cardinality(A) = 1
        BY <4>1, FS_Singleton
      <4>3. C!Cardinality(A) = Cardinality(A)
        BY DEF C!Cardinality, Cardinality
      <4> QED
        BY <4>2, <4>3
    <3> QED
      BY <3>1, <3>2
  <2>5. ASSUME NEW i \in A
        PROVE  /\ turn[t].answer => <<t, "chat">> \in billed
               /\ \A step \in turn[t].spent : <<t, step>> \in billed
               /\ thread[c][i].status = "stopped" => <<turn[t].conv, t>> \in pressed
               /\ thread[c][i].status = "complete" => <<t, "chat">> \in billed
    <3> PICK r : r = thread[c][i]
      OBVIOUS
    <3>1. Told(r, c) /\ r.role = "assistant" /\ r.turn = t
      BY <1>1, <2>1, <2>2
    <3>2. Accounted(t, r.status)
      BY <3>1 DEF Told, Answered
    <3> QED
      BY <3>2 DEF Accounted
  <2> QED
    BY <2>1, <2>4, <2>5 DEF InStage
<1> QED
  BY <1>2, <1>3 DEF C!TurnsAreAccountedFor

--------------------------------------------------------------------------------
(* Where the files go.  A bound row names a turn that has begun; past the  *)
(* binding a turn holds its files, and what the model was given is of the  *)
(* turn's own conversation.                                                *)
Given == {"gathered", "streaming", "saving"}
BoundOnce(f) ==
  Loose(f) \/ (file[f].message \in C!Turns /\ turn[file[f].message].at # "none")
Holds(t) ==
  C!Sent(t) /\ turn[t].conv \in open =>
    \A f \in turn[t].files : file[f] # None /\ file[f].message = t
Shown(t) ==
  /\ Cardinality(turn[t].images) <= MaxTurnImages
  /\ turn[t].images # {} => turn[t].vision # "none"
  /\ turn[t].conv \in open =>
       \A f \in turn[t].images \cup turn[t].texts : C!InConversation(f, turn[t].conv)
  /\ turn[t].conv \in open =>
       \/ turn[t].images \subseteq turn[t].files
       \/ \A f \in turn[t].files : file[f].kind = "image" => f \in turn[t].images
GivesNothing(t) == turn[t].images = {} /\ turn[t].texts = {}
FilesOf(t) == Holds(t) /\ Shown(t) /\ (turn[t].at \notin Given => GivesNothing(t))
BindInv == (\A f \in C!Files : BoundOnce(f)) /\ \A t \in C!Turns : FilesOf(t)

LEMMA BindInit == MCInit => BindInv
<1> SUFFICES ASSUME C!NoTurns, C!AttInit \/ C!AttUploaded PROVE BindInv
  BY DEF MCInit, C!ChtInit, C!ChtUploaded
<1>1. \A f \in C!Files : Loose(f)
  BY DEF C!AttInit, C!AttUploaded, Loose
<1>2. ASSUME NEW t \in C!Turns PROVE FilesOf(t)
  <2>1. turn[t].at = "none" /\ turn[t].images = {} /\ turn[t].texts = {}
    BY DEF C!NoTurns, C!NoTurn
  <2>2. Cardinality(turn[t].images) <= MaxTurnImages
    BY <2>1, FS_EmptySet, BoundsAssumption
  <2> QED
    BY <2>1, <2>2 DEF FilesOf, Holds, Shown, GivesNothing, C!Sent
<1> QED
  BY <1>1, <1>2 DEF BindInv, BoundOnce

(* Turns that have begun go on in their conversation.                      *)
GoesOn(t) == turn[t].at # "none" => turn'[t].at # "none" /\ turn'[t].conv = turn[t].conv
(* Nothing new is sent or given by a turn.                                 *)
SameFiles(t) ==
  /\ turn'[t].conv = turn[t].conv /\ turn'[t].files = turn[t].files
  /\ turn'[t].vision = turn[t].vision
  /\ C!Sent(t)' => C!Sent(t)
  /\ \/ turn'[t].images = {} /\ turn'[t].texts = {}
     \/ /\ turn'[t].images = turn[t].images /\ turn'[t].texts = turn[t].texts
        /\ turn[t].at \in Given /\ turn'[t].at \in Given
NoneSent(t) == ~C!Sent(t)' /\ turn'[t].images = {} /\ turn'[t].texts = {}
BindKept ==
  /\ FileInv /\ TurnInv /\ BindInv /\ FilesFollow
  /\ open' \subseteq open
  /\ \A t \in C!Turns : GoesOn(t)

LEMMA RowsAreBound ==
  ASSUME BindKept, NEW f \in C!Files
  PROVE  BoundOnce(f)'
<1>1. BoundOnce(f) /\ Follows(f) /\ FileInv /\ FileInv'
  BY DEF BindKept, BindInv, FilesFollow
<1>2. ASSUME NEW m \in C!Turns, turn[m].at # "none" PROVE turn'[m].at # "none"
  BY <1>2 DEF BindKept, GoesOn
<1>3. CASE Loose(f)'
  BY <1>3 DEF BoundOnce
<1>4. CASE ~Loose(f)'
  <2> PICK m : m = file'[f].message
    OBVIOUS
  <2>1. m \in C!Turns /\ turn[m].at # "none"
    BY <1>1, <1>4 DEF Loose, Follows, Stays, BoundOnce
  <2>2. turn'[m].at # "none"
    BY <1>2, <2>1
  <2> QED
    BY <2>1, <2>2 DEF BoundOnce
<1> QED
  BY <1>3, <1>4

(* A row of a conversation that stays, stays.                              *)
LEMMA RowsStay ==
  ASSUME BindKept, NEW f \in C!Files, file[f] # None, file[f].message \in C!Turns,
         turn[file[f].message].conv \in open'
  PROVE  Stays(f)
<1>1. Follows(f)
  BY DEF BindKept, FilesFollow
<1>2. file[f].message # C!Unbound
  BY BoundsAssumption DEF C!Turns, C!Unbound
<1>3. ~Loose(f)
  BY <1>2 DEF Loose
<1> QED
  BY <1>1, <1>3 DEF Follows, Stays

LEMMA ConversationsKeepFiles ==
  ASSUME BindKept, NEW c \in open', NEW f \in C!Files, C!InConversation(f, c)
  PROVE  C!InConversation(f, c)'
<1> PICK m : m = file[f].message
  OBVIOUS
<1>1. file[f] # None /\ m # C!Unbound /\ turn[m].conv = c
  BY DEF C!InConversation, C!Exists
<1>2. m \in C!Turns /\ turn[m].at # "none"
  BY <1>1 DEF BindKept, BindInv, BoundOnce, Loose
<1>3. Stays(f)
  BY <1>1, <1>2, RowsStay
<1>4. turn'[m].conv = c
  BY <1>1, <1>2 DEF BindKept, GoesOn
<1> QED
  BY <1>1, <1>3, <1>4 DEF Stays, C!InConversation, C!Exists

LEMMA TurnsKeepFiles ==
  ASSUME BindKept, NEW t \in C!Turns, SameFiles(t)
  PROVE  FilesOf(t)'
<1>1. FilesOf(t) /\ turn[t] \in TurnRow
  BY TurnFacts DEF BindKept, BindInv
<1>2. /\ turn[t].files \subseteq C!Files /\ turn[t].images \subseteq C!Files
      /\ turn[t].texts \subseteq C!Files
  BY <1>1 DEF TurnRow
<1> PICK c : c = turn[t].conv
  OBVIOUS
<1>3. turn'[t].conv = c /\ open' \subseteq open
  BY DEF BindKept, SameFiles
<1>4. ASSUME NEW f \in turn[t].files, C!Sent(t), c \in open'
      PROVE  Stays(f) /\ file[f].message = t
  <2>1. file[f] # None /\ file[f].message = t
    BY <1>1, <1>3, <1>4 DEF FilesOf, Holds
  <2> QED
    BY <1>2, <1>4, <2>1, RowsStay
<1>5. Holds(t)'
  <2> SUFFICES ASSUME C!Sent(t)', c \in open', NEW f \in turn'[t].files
               PROVE  file'[f] # None /\ file'[f].message = t
    BY <1>3 DEF Holds
  <2> QED
    BY <1>4 DEF SameFiles, Stays
<1>6. CASE turn'[t].images = {} /\ turn'[t].texts = {}
  <2>1. Cardinality(turn'[t].images) <= MaxTurnImages
    BY <1>6, FS_EmptySet, BoundsAssumption
  <2>2. Shown(t)'
    BY <1>6, <2>1 DEF Shown
  <2> QED
    BY <1>5, <1>6, <2>2 DEF FilesOf, GivesNothing
<1>7. CASE /\ turn'[t].images = turn[t].images /\ turn'[t].texts = turn[t].texts
           /\ turn[t].at \in Given /\ turn'[t].at \in Given
  <2>1. C!Sent(t)
    BY <1>7 DEF C!Sent, Given
  <2>2. c \in open' => \A f \in turn[t].images \cup turn[t].texts : C!InConversation(f, c)'
    BY <1>1, <1>2, <1>3, ConversationsKeepFiles DEF FilesOf, Shown
  <2>3. c \in open' => \/ turn[t].images \subseteq turn[t].files
                       \/ \A f \in turn[t].files : file'[f].kind = "image" => f \in turn[t].images
    BY <1>1, <1>3, <1>4, <2>1 DEF FilesOf, Shown, Stays
  <2>4. Shown(t)'
    BY <1>1, <1>3, <1>7, <2>2, <2>3 DEF FilesOf, Shown, SameFiles, C!InConversation, C!Exists
  <2> QED
    BY <1>5, <1>7, <2>4 DEF FilesOf
<1> QED
  BY <1>6, <1>7 DEF SameFiles

LEMMA NothingSent ==
  ASSUME NEW t \in C!Turns, NoneSent(t)
  PROVE  FilesOf(t)'
<1>1. Cardinality(turn'[t].images) <= MaxTurnImages
  BY FS_EmptySet, BoundsAssumption DEF NoneSent
<1> QED
  BY <1>1 DEF NoneSent, FilesOf, Holds, Shown, GivesNothing

(* The newest n of some numbers are at most n: the ranks of no two of them *)
(* are the same.                                                           *)
LEMMA NewestAreFew ==
  ASSUME NEW S \in SUBSET Nat, IsFiniteSet(S), NEW n \in Int
  PROVE  /\ C!Newest(S, n) \subseteq S /\ IsFiniteSet(C!Newest(S, n))
         /\ n >= 0 => Cardinality(C!Newest(S, n)) <= n
         /\ n <= 0 => C!Newest(S, n) = {}
<1> DEFINE Above(f) == {g \in S : g > f}
<1>1. ASSUME NEW f \in S
      PROVE  /\ IsFiniteSet(Above(f)) /\ Cardinality(Above(f)) \in Nat
             /\ C!Cardinality(Above(f)) = Cardinality(Above(f))
  <2>1. Above(f) \in SUBSET S
    OBVIOUS
  <2>2. IsFiniteSet(Above(f))
    BY <2>1, FS_Subset
  <2>3. Cardinality(Above(f)) \in Nat
    BY <2>2, FS_CardinalityType
  <2> QED
    BY <2>2, <2>3 DEF C!Cardinality, Cardinality
<1> PICK N : N = {f \in S : Cardinality(Above(f)) < n}
  OBVIOUS
<1>2. C!Newest(S, n) = N
  BY <1>1 DEF C!Newest
<1>3. N \in SUBSET S
  OBVIOUS
<1>4. IsFiniteSet(N) /\ Cardinality(N) \in Nat
  BY <1>3, FS_Subset, FS_CardinalityType
<1>5. ASSUME NEW f \in S, NEW h \in S, f < h
      PROVE  Cardinality(Above(h)) < Cardinality(Above(f))
  <2> PICK A, B : A = Above(f) /\ B = Above(h)
    OBVIOUS
  <2>1. h \in A /\ IsFiniteSet(A) /\ Cardinality(A) \in Nat
    BY <1>1, <1>5
  <2>2. IsFiniteSet(A \ {h}) /\ Cardinality(A \ {h}) = Cardinality(A) - 1
    BY <2>1, FS_RemoveElement
  <2>3. B \in SUBSET (A \ {h})
    <3>1. ASSUME NEW g \in B PROVE g \in A /\ g # h
      <4>1. g \in Nat /\ f \in Nat /\ h \in Nat /\ g > h
        BY <3>1
      <4>2. g > f /\ g # h
        BY <1>5, <4>1
      <4> QED
        BY <3>1, <4>2
    <3> QED
      BY <3>1
  <2>4. Cardinality(B) <= Cardinality(A) - 1 /\ Cardinality(B) \in Nat
    BY <1>1, <2>2, <2>3, FS_Subset
  <2> QED
    BY <2>1, <2>4
<1>6. n >= 0 => Cardinality(N) <= n
  <2> SUFFICES ASSUME n >= 0, Cardinality(N) > n PROVE FALSE
    BY <1>4
  <2> PICK T, rank : T = 0 .. (n - 1) /\ rank = [f \in N |-> Cardinality(Above(f))]
    OBVIOUS
  <2>1. IsFiniteSet(T) /\ Cardinality(T) = n
    BY FS_Interval
  <2>2. \A f \in N : Cardinality(Above(f)) \in T
    <3> SUFFICES ASSUME NEW f \in N PROVE Cardinality(Above(f)) \in T
      OBVIOUS
    <3>1. Cardinality(Above(f)) \in Nat /\ Cardinality(Above(f)) < n
      BY <1>1
    <3> QED
      BY <3>1
  <2>3. rank \in [N -> T]
    BY <2>2
  <2>4. Cardinality(T) < Cardinality(N)
    BY <1>4, <2>1
  <2>5. IsFiniteSet(N) /\ IsFiniteSet(T)
    BY <1>4, <2>1
  <2>6. \E x, y \in N : x # y /\ rank[x] = rank[y]
    <3> HIDE DEF Above
    <3> QED
      BY ONLY <2>3, <2>4, <2>5, FS_PigeonHole
  <2>7. PICK f, h \in N : f # h /\ rank[f] = rank[h]
    BY <2>6
  <2> PICK a, b : a = Cardinality(Above(f)) /\ b = Cardinality(Above(h))
    OBVIOUS
  <2>8. a = b /\ a \in Nat
    BY <1>1, <2>7
  <2>9. f \in Nat /\ h \in Nat /\ (f < h \/ h < f)
    BY <1>3, <2>7
  <2>10. b < a \/ a < b
    BY <1>5, <2>9
  <2> QED
    BY <2>8, <2>10
<1>7. n <= 0 => N = {}
  <2> SUFFICES ASSUME n <= 0, NEW f \in N PROVE FALSE
    OBVIOUS
  <2>1. Cardinality(Above(f)) \in Nat /\ Cardinality(Above(f)) < n
    BY <1>1
  <2> QED
    BY <2>1
<1> QED
  BY <1>2, <1>3, <1>4, <1>6, <1>7

(* At most so many images are sent, the question's own before any other.   *)
LEMMA ImagesAreFew ==
  ASSUME NEW current \in SUBSET C!Files, NEW history \in SUBSET C!Files,
         NEW left, left = MaxTurnImages - C!Cardinality(current),
         NEW plan, plan = C!Newest(current, MaxTurnImages) \cup C!Newest(history, left)
  PROVE  /\ plan \subseteq current \cup history /\ IsFiniteSet(plan)
         /\ Cardinality(plan) <= MaxTurnImages
         /\ plan \subseteq current \/ current \subseteq plan
<1> PICK k, max, new, old :
      /\ k = Cardinality(current) /\ max = MaxTurnImages
      /\ new = C!Newest(current, max) /\ old = C!Newest(history, left)
  OBVIOUS
<1>1. IsFiniteSet(C!Files) /\ C!Files \subseteq Nat
  <2>1. 1 \in Int /\ MaxFiles \in Int
    BY BoundsAssumption
  <2>2. IsFiniteSet(1 .. MaxFiles)
    BY <2>1, FS_Interval
  <2>3. 1 .. MaxFiles \subseteq Nat
    BY <2>1
  <2> QED
    BY <2>2, <2>3 DEF C!Files
<1>2. /\ IsFiniteSet(current) /\ IsFiniteSet(history) /\ k \in Nat /\ max \in Nat
      /\ current \in SUBSET Nat /\ history \in SUBSET Nat
  BY <1>1, FS_Subset, FS_CardinalityType, BoundsAssumption
<1>3. left = max - k /\ left \in Int
  <2>1. left = max - k
    BY DEF C!Cardinality, Cardinality
  <2> QED
    BY <1>2, <2>1
<1>4. plan = new \cup old
  OBVIOUS
<1>5. new \subseteq current /\ IsFiniteSet(new) /\ Cardinality(new) <= max
  BY <1>2, NewestAreFew
<1>6. /\ old \subseteq history /\ IsFiniteSet(old)
      /\ left >= 0 => Cardinality(old) <= left
      /\ left <= 0 => old = {}
  BY <1>2, <1>3, NewestAreFew
<1>7. Cardinality(new) \in Nat /\ Cardinality(old) \in Nat /\ Cardinality(new) <= k
  BY <1>2, <1>5, <1>6, FS_Subset, FS_CardinalityType
<1>8. /\ IsFiniteSet(new \cup old) /\ Cardinality(new \cup old) \in Nat
      /\ Cardinality(new \cup old) <= Cardinality(new) + Cardinality(old)
  <2>1. /\ IsFiniteSet(new \cup old)
        /\ Cardinality(new \cup old)
             = Cardinality(new) + Cardinality(old) - Cardinality(new \cap old)
    BY <1>5, <1>6, FS_Union
  <2>2. IsFiniteSet(new \cap old)
    <3>1. (new \cap old) \in SUBSET new
      OBVIOUS
    <3> QED
      BY <1>5, <3>1, FS_Subset
  <2>3. Cardinality(new \cap old) \in Nat /\ Cardinality(new \cup old) \in Nat
    BY <2>1, <2>2, FS_CardinalityType
  <2> QED
    BY <1>7, <2>1, <2>3
<1>9. Cardinality(new \cup old) <= max
  <2>1. CASE left >= 0
    BY <1>2, <1>3, <1>6, <1>7, <1>8, <2>1
  <2>2. CASE left < 0
    <3>1. old = {}
      BY <1>3, <1>6, <2>2
    <3>2. new \cup old = new
      BY <3>1
    <3> QED
      BY <1>5, <3>2
  <2> QED
    BY <1>3, <2>1, <2>2
<1>10. k <= max => current \subseteq new
  <2> SUFFICES ASSUME k <= max, NEW f \in current PROVE f \in new
    OBVIOUS
  <2> PICK A : A = {g \in current : g > f}
    OBVIOUS
  <2>1. A \in SUBSET (current \ {f})
    BY <1>2
  <2>2. IsFiniteSet(current \ {f}) /\ Cardinality(current \ {f}) = k - 1
    BY <1>2, FS_RemoveElement
  <2>3. IsFiniteSet(A) /\ Cardinality(A) <= k - 1
    BY <2>1, <2>2, FS_Subset
  <2>4. Cardinality(A) \in Nat
    BY <2>3, FS_CardinalityType
  <2>5. Cardinality(A) < max
    BY <1>2, <2>3, <2>4
  <2>6. C!Cardinality(A) = Cardinality(A)
    BY DEF C!Cardinality, Cardinality
  <2> QED
    BY <2>5, <2>6 DEF C!Newest
<1>11. k > max => old = {}
  BY <1>2, <1>3, <1>6
<1>12. k <= max \/ k > max
  BY <1>2
<1> QED
  BY <1>4, <1>5, <1>6, <1>8, <1>9, <1>10, <1>11, <1>12

--------------------------------------------------------------------------------
(* One turn moves on, and the others keep what they have.                  *)
LEMMA OneTurnMoves ==
  ASSUME FileInv, TurnInv, BindInv, FilesFollow, open' \subseteq open,
         NEW t \in C!Turns, NEW new \in TurnRow, turn' = [turn EXCEPT ![t] = new],
         new.at # "none", turn[t].at # "none" => new.conv = turn[t].conv
  PROVE  /\ BindKept /\ turn'[t] = new
         /\ SameFiles(t) \/ NoneSent(t) \/ FilesOf(t)' => BindInv'
<1>1. /\ turn'[t] = new
      /\ \A o \in C!Turns \ {t} : turn'[o] = turn[o]
  BY DEF TurnInv, TurnsTyped
<1>2. \A o \in C!Turns : GoesOn(o)
  BY <1>1 DEF GoesOn
<1>3. BindKept
  BY <1>2 DEF BindKept
<1>4. ASSUME NEW o \in C!Turns \ {t} PROVE FilesOf(o)'
  <2>1. turn'[o] = turn[o] /\ (turn[o].at \notin Given => GivesNothing(o))
    BY <1>1 DEF BindInv, FilesOf
  <2>2. SameFiles(o)
    BY <2>1 DEF SameFiles, C!Sent, GivesNothing
  <2> QED
    BY <1>3, <2>2, TurnsKeepFiles
<1>5. ASSUME SameFiles(t) \/ NoneSent(t) \/ FilesOf(t)' PROVE BindInv'
  <2>1. FilesOf(t)'
    BY <1>3, <1>5, TurnsKeepFiles, NothingSent
  <2>2. \A f \in C!Files : BoundOnce(f)'
    BY <1>3, RowsAreBound
  <2> QED
    BY <1>4, <2>1, <2>2 DEF BindInv
<1> QED
  BY <1>1, <1>3, <1>5

LEMMA NoTurnMoves ==
  ASSUME FileInv, TurnInv, BindInv, FilesFollow, open' \subseteq open, UNCHANGED turn
  PROVE  BindInv'
<1>1. BindKept
  BY DEF BindKept, GoesOn
<1>2. ASSUME NEW o \in C!Turns PROVE FilesOf(o)'
  <2>1. turn'[o] = turn[o] /\ (turn[o].at \notin Given => GivesNothing(o))
    BY DEF BindInv, FilesOf
  <2>2. SameFiles(o)
    BY <2>1 DEF SameFiles, C!Sent, GivesNothing
  <2> QED
    BY <1>1, <2>2, TurnsKeepFiles
<1> QED
  BY <1>1, <1>2, RowsAreBound DEF BindInv

LEMMA OverGivesNothing ==
  ASSUME FileInv, TurnInv, BindInv, FilesFollow, open' \subseteq open,
         NEW t \in C!Turns, turn' = C!Over(t), turn[t].at # "none"
  PROVE  BindInv'
<1> PICK new : new = [turn[t] EXCEPT !.at = "ended", !.images = {}, !.texts = {}]
  OBVIOUS
<1>1. turn \in [C!Turns -> TurnRow] /\ turn[t] \in TurnRow
  BY TurnFacts DEF TurnInv, TurnsTyped
<1>2. /\ new \in TurnRow /\ new.at = "ended" /\ new.conv = turn[t].conv
      /\ new.images = {} /\ new.texts = {} /\ turn' = [turn EXCEPT ![t] = new]
  BY <1>1 DEF TurnRow, C!Stages, C!Over
<1>3. BindKept /\ turn'[t] = new /\ (SameFiles(t) \/ NoneSent(t) \/ FilesOf(t)' => BindInv')
  BY <1>2, OneTurnMoves
<1>4. NoneSent(t)
  BY <1>2, <1>3 DEF NoneSent, C!Sent
<1> QED
  BY <1>3, <1>4

LEMMA AskSendsNothing ==
  ASSUME FileInv, TurnInv, BindInv, FilesFollow, NEW t \in C!Turns, NEW c \in Conversations,
         NEW fs \in SUBSET C!Files, NEW v \in C!Visions, C!Ask(t, c, fs, v)
  PROVE  BindInv'
<1> PICK new : new = [C!NoTurn EXCEPT !.at = "asked", !.conv = c, !.files = fs, !.vision = v]
  OBVIOUS
<1>1. /\ new \in TurnRow /\ new.at = "asked" /\ new.images = {} /\ new.texts = {}
  BY DEF C!NoTurn, TurnRow, C!Stages
<1>2. turn' = [turn EXCEPT ![t] = new] /\ turn[t].at = "none" /\ open' = open
  BY DEF C!Ask
<1>3. turn'[t] = new /\ (SameFiles(t) \/ NoneSent(t) \/ FilesOf(t)' => BindInv')
  BY <1>1, <1>2, OneTurnMoves
<1>4. NoneSent(t)
  BY <1>1, <1>3 DEF NoneSent, C!Sent
<1> QED
  BY <1>3, <1>4

(* A turn past the binding, or short of it, gives what it gave.            *)
LEMMA AdvanceKeepsFiles ==
  ASSUME FileInv, TurnInv, BindInv, FilesFollow, UNCHANGED open,
         NEW t \in C!Turns, NEW new \in TurnRow, turn' = [turn EXCEPT ![t] = new],
         turn[t].at # "none", new.at # "none", new.conv = turn[t].conv,
         new.files = turn[t].files, new.vision = turn[t].vision,
         new.images = turn[t].images, new.texts = turn[t].texts,
         \/ turn[t].at \in Given /\ new.at \in Given
         \/ /\ turn[t].at \notin Given /\ new.at \notin Given
            /\ new.at \in {"bound", "started"} => turn[t].at \in {"bound", "started"}
  PROVE  BindInv'
<1>1. turn'[t] = new /\ (SameFiles(t) \/ NoneSent(t) \/ FilesOf(t)' => BindInv')
  BY OneTurnMoves
<1>2. turn[t].at \notin Given => turn[t].images = {} /\ turn[t].texts = {}
  BY DEF BindInv, FilesOf, GivesNothing
<1>3. C!Sent(t)' => C!Sent(t)
  BY <1>1 DEF C!Sent, Given
<1>4. SameFiles(t)
  BY <1>1, <1>2, <1>3 DEF SameFiles
<1> QED
  BY <1>1, <1>4

LEMMA AdvancesKeepFiles ==
  ASSUME FileInv, TurnInv, BindInv, FilesFollow, NEW t \in C!Turns,
         \/ C!Build(t) \/ C!Start(t, TRUE) \/ C!CheckStop(t) \/ C!Delta(t) \/ C!SeeStop(t)
         \/ C!EndStream(t)
         \/ \E s \in Spends, found \in BOOLEAN :
              C!Gather(t, s, found) /\ turn' = [turn EXCEPT ![t].at = "failing"]
  PROVE  BindInv'
<1>1. turn \in [C!Turns -> TurnRow] /\ turn[t] \in TurnRow
  BY TurnFacts DEF TurnInv, TurnsTyped
<1>2. UNCHANGED open /\ turn[t].at \notin {"none", "ended"}
  BY DEF C!Build, C!Start, C!CheckStop, C!Delta, C!SeeStop, C!EndStream, C!Gather
<1>3. ASSUME NEW new \in TurnRow, turn' = [turn EXCEPT ![t] = new],
             new = [turn[t] EXCEPT !.at = new.at, !.answer = new.answer, !.stopped = new.stopped],
             new.at # "none",
             \/ turn[t].at \in Given /\ new.at \in Given
             \/ /\ turn[t].at \notin Given /\ new.at \notin Given
                /\ new.at \in {"bound", "started"} => turn[t].at \in {"bound", "started"}
      PROVE  BindInv'
  <2>1. /\ new.conv = turn[t].conv
        /\ new.files = turn[t].files /\ new.vision = turn[t].vision
        /\ new.images = turn[t].images /\ new.texts = turn[t].texts
    BY <1>1, <1>3 DEF TurnRow
  <2>2. turn[t].at # "none" /\ UNCHANGED open
    BY <1>2
  <2> QED
    BY <1>3, <2>1, <2>2, AdvanceKeepsFiles
<1>4. ASSUME NEW at \in C!Stages \ {"none"}, turn' = [turn EXCEPT ![t].at = at],
             \/ turn[t].at \in Given /\ at \in Given
             \/ /\ turn[t].at \notin Given /\ at \notin Given
                /\ at \in {"bound", "started"} => turn[t].at \in {"bound", "started"}
      PROVE  BindInv'
  <2> PICK new : new = [turn[t] EXCEPT !.at = at]
    OBVIOUS
  <2>1. /\ new \in TurnRow /\ turn' = [turn EXCEPT ![t] = new] /\ new.at = at
        /\ new = [turn[t] EXCEPT !.at = new.at, !.answer = new.answer, !.stopped = new.stopped]
    BY <1>1, <1>4 DEF TurnRow
  <2> QED
    BY <1>3, <1>4, <2>1
<1>5. ASSUME NEW new \in TurnRow, turn' = [turn EXCEPT ![t] = new],
             new = [turn[t] EXCEPT !.at = new.at, !.answer = new.answer, !.stopped = new.stopped],
             turn[t].at \in {"gathered", "streaming"}, new.at \in {"streaming", "saving"}
      PROVE  BindInv'
  BY <1>3, <1>5 DEF Given
<1>6. CASE C!Build(t) \/ C!Start(t, TRUE)
  BY <1>4, <1>6 DEF C!Build, C!Start, Given, C!Stages
<1>7. CASE C!CheckStop(t) \/ C!SeeStop(t) \/ C!EndStream(t)
  <2>1. CASE /\ turn' = [turn EXCEPT ![t].at = "saving", ![t].stopped = TRUE]
             /\ turn[t].at \in {"gathered", "streaming"}
    <3> PICK new : new = [turn[t] EXCEPT !.at = "saving", !.stopped = TRUE]
      OBVIOUS
    <3>1. /\ new \in TurnRow /\ turn' = [turn EXCEPT ![t] = new] /\ new.at = "saving"
          /\ new = [turn[t] EXCEPT !.at = new.at, !.answer = new.answer,
                                   !.stopped = new.stopped]
      BY <1>1, <2>1 DEF TurnRow, C!Stages
    <3> QED
      BY <1>5, <2>1, <3>1
  <2>2. ASSUME NEW at \in {"streaming", "saving"}, turn' = [turn EXCEPT ![t].at = at],
               turn[t].at \in {"gathered", "streaming"}
        PROVE  BindInv'
    BY <1>4, <2>2 DEF Given, C!Stages
  <2> QED
    BY <1>7, <2>1, <2>2 DEF C!CheckStop, C!SeeStop, C!EndStream
<1>8. CASE C!Delta(t)
  <2> PICK new : new = [turn[t] EXCEPT !.answer = TRUE]
    OBVIOUS
  <2>1. turn[t].at = "streaming" /\ turn' = [turn EXCEPT ![t] = new]
    BY <1>8 DEF C!Delta
  <2>2. /\ new \in TurnRow /\ new.at = "streaming"
        /\ new = [turn[t] EXCEPT !.at = new.at, !.answer = new.answer, !.stopped = new.stopped]
    BY <1>1, <2>1 DEF TurnRow
  <2> QED
    BY <1>5, <2>1, <2>2
<1>9. ASSUME NEW s \in Spends, NEW found \in BOOLEAN, C!Gather(t, s, found),
             turn' = [turn EXCEPT ![t].at = "failing"]
      PROVE  BindInv'
  <2>1. turn[t].at = "started"
    BY <1>9 DEF C!Gather
  <2> QED
    BY <1>4, <1>9, <2>1 DEF Given, C!Stages
<1> QED
  BY <1>6, <1>7, <1>8, <1>9

(* The statement claims every file of the question, or the turn is refused. *)
LEMMA BindSends ==
  ASSUME FileInv, TurnInv, BindInv, FilesFollow, NEW t \in C!Turns, C!Bind(t)
  PROVE  BindInv'
<1>1. /\ turn \in [C!Turns -> TurnRow] /\ turn[t] \in TurnRow
      /\ file \in [C!Files -> C!Rows \cup {None}] /\ FileInv'
  BY TurnFacts DEF TurnInv, TurnsTyped, FileInv, FilesTyped, FilesFollow
<1>2. turn[t].at = "built" /\ open' = open /\ turn[t].images = {} /\ turn[t].texts = {}
  BY DEF C!Bind, BindInv, FilesOf, Given, GivesNothing
<1>3. ASSUME NEW at \in {"bound", "conflict"}, turn' = [turn EXCEPT ![t].at = at]
      PROVE  /\ turn'[t].at = at /\ turn'[t].files = turn[t].files
             /\ turn'[t].images = {} /\ turn'[t].texts = {}
             /\ SameFiles(t) \/ NoneSent(t) \/ FilesOf(t)' => BindInv'
  <2> PICK new : new = [turn[t] EXCEPT !.at = at]
    OBVIOUS
  <2>1. /\ new \in TurnRow /\ new.at = at /\ new.conv = turn[t].conv
        /\ new.files = turn[t].files /\ new.images = {} /\ new.texts = {}
        /\ turn' = [turn EXCEPT ![t] = new]
    BY <1>1, <1>2, <1>3 DEF TurnRow, C!Stages
  <2> QED
    BY <1>2, <1>3, <2>1, OneTurnMoves
<1>4. CASE turn' = [turn EXCEPT ![t].at = "conflict"]
  BY <1>3, <1>4 DEF NoneSent, C!Sent
<1>5. CASE /\ turn' = [turn EXCEPT ![t].at = "bound"]
           /\ C!Claimed(turn[t].files) = turn[t].files
           /\ file' = [f \in C!Files |-> IF f \in C!Claimed(turn[t].files)
                                           THEN [file[f] EXCEPT !.message = t] ELSE file[f]]
  <2>1. ASSUME NEW f \in turn[t].files PROVE file'[f] # None /\ file'[f].message = t
    <3> PICK row : row = [file[f] EXCEPT !.message = t]
      OBVIOUS
    <3>1. f \in C!Files /\ file[f] \in C!Rows
      BY <1>1, <1>5 DEF TurnRow, C!Claimed, C!Exists
    <3>2. t \in Int
      BY BoundsAssumption DEF C!Turns
    <3>3. row \in C!Rows /\ row.message = t
      BY <3>1, <3>2 DEF C!Rows
    <3>4. file'[f] = row
      BY <1>5, <3>1
    <3> QED
      BY <3>3, <3>4, NoneAssumption
  <2>2. /\ turn'[t].at = "bound" /\ turn'[t].files = turn[t].files
        /\ turn'[t].images = {} /\ turn'[t].texts = {}
    BY <1>3, <1>5
  <2>3. Holds(t)'
    BY <2>1, <2>2 DEF Holds
  <2>4. Cardinality(turn'[t].images) <= MaxTurnImages
    BY <2>2, FS_EmptySet, BoundsAssumption
  <2>5. FilesOf(t)'
    BY <2>2, <2>3, <2>4 DEF FilesOf, Shown, GivesNothing
  <2> QED
    BY <1>3, <1>5, <2>5
<1> QED
  BY <1>4, <1>5 DEF C!Bind

--------------------------------------------------------------------------------
(* What the history brings is of messages of the same conversation.        *)
LEMMA HistoryIsOfTheConversation ==
  ASSUME TurnInv, NEW t \in C!Turns, NEW c \in Conversations, c = turn[t].conv,
         NEW f \in C!HistoryFiles(t)
  PROVE  f \in C!Files /\ C!InConversation(f, c) /\ turn[file[f].message].at # "none"
         /\ file[f].message \in C!Turns
<1>1. /\ TurnsTyped
      /\ \A i \in DOMAIN thread[c] : Told(thread[c][i], c) /\ thread[c][i] \in Question
  <2>1. thread[c] \in Seq(Question)
    BY DEF TurnInv, TurnsTyped
  <2> QED
    BY <2>1 DEF TurnInv
<1>2. PICK r \in C!History(t) : r.turn = file[f].message
  BY DEF C!HistoryFiles
<1>3. PICK i \in DOMAIN thread[c] : r = thread[c][i]
  BY <1>2 DEF C!History, C!Recent
<1>4. r.turn \in C!Turns /\ turn[r.turn].at # "none" /\ turn[r.turn].conv = c
  BY <1>1, <1>3 DEF Told, Question
<1>5. r.turn # C!Unbound
  BY <1>4, BoundsAssumption DEF C!Turns, C!Unbound
<1>6. f \in C!Files /\ file[f] # None
  BY DEF C!HistoryFiles, C!Exists
<1> QED
  BY <1>2, <1>4, <1>5, <1>6 DEF C!InConversation, C!Exists

LEMMA GatherGivesItsOwn ==
  ASSUME FileInv, TurnInv, BindInv, FilesFollow, NEW t \in C!Turns, NEW s \in Spends,
         NEW found \in BOOLEAN, C!Gather(t, s, found)
  PROVE  BindInv'
<1> PICK v : v = turn[t].vision
  OBVIOUS
<1> DEFINE history == C!HistoryFiles(t)
           images == {f \in turn[t].files : C!Exists(f) /\ file[f].kind = "image"}
           earlier == {f \in history : file[f].kind = "image" /\ ~C!Words(f)}
           plan == C!PlanTurnImages(images, earlier, v # "none")
           texts == {f \in history : C!Words(f)}
<1>1. /\ turn \in [C!Turns -> TurnRow] /\ turn[t] \in TurnRow /\ FilesOf(t) /\ InStage(t)
      /\ turn[t].at = "started" /\ UNCHANGED <<open, thread, file>>
  BY TurnFacts DEF TurnInv, TurnsTyped, BindInv, C!Gather, C!attVars
<1> PICK c : c = turn[t].conv
  OBVIOUS
<1>2. c \in Conversations /\ turn[t].files \subseteq C!Files
  BY <1>1 DEF InStage, TurnRow
<1>3. ASSUME NEW f \in history
      PROVE  /\ f \in C!Files /\ C!InConversation(f, c) /\ file[f].message \in C!Turns
             /\ turn[file[f].message].at # "none"
  BY <1>2, HistoryIsOfTheConversation
<1>4. /\ images \in SUBSET C!Files /\ earlier \in SUBSET C!Files /\ texts \in SUBSET C!Files
  BY <1>2, <1>3
<1>5. CASE turn' = [turn EXCEPT ![t].at = "failing"]
  BY <1>5, AdvancesKeepFiles
<1>6. CASE /\ turn' = [turn EXCEPT ![t].at = "gathered", ![t].spent = s,
                         ![t].images = plan \cap object, ![t].texts = texts]
           /\ plan \cap images \subseteq object
  <2> PICK I, H, P : I = images /\ H = earlier /\ P = plan
    OBVIOUS
  <2>1. /\ P \subseteq I \cup H /\ IsFiniteSet(P) /\ Cardinality(P) <= MaxTurnImages
        /\ v = "none" => P = {}
        /\ v # "none" => P \subseteq I \/ I \subseteq P
    <3>1. I \in SUBSET C!Files /\ H \in SUBSET C!Files
      BY <1>4
    <3>2. P = IF v # "none" THEN C!Newest(I, MaxTurnImages)
                              \cup C!Newest(H, MaxTurnImages - C!Cardinality(I))
                            ELSE {}
      BY DEF C!PlanTurnImages
    <3>3. CASE v = "none"
      <4>1. P = {}
        BY <3>2, <3>3
      <4>2. IsFiniteSet(P) /\ Cardinality(P) = 0
        BY <4>1, FS_EmptySet
      <4>3. 0 <= MaxTurnImages
        BY BoundsAssumption
      <4> QED
        BY <3>3, <4>1, <4>2, <4>3
    <3>4. CASE v # "none"
      <4> PICK left : left = MaxTurnImages - C!Cardinality(I)
        OBVIOUS
      <4>1. P = C!Newest(I, MaxTurnImages) \cup C!Newest(H, left)
        BY <3>2, <3>4
      <4>2. /\ P \subseteq I \cup H /\ IsFiniteSet(P) /\ Cardinality(P) <= MaxTurnImages
            /\ P \subseteq I \/ I \subseteq P
        <5>1. left = MaxTurnImages - C!Cardinality(I)
          OBVIOUS
        <5> QED
          BY ONLY <3>1, <4>1, <5>1, ImagesAreFew
      <4> QED
        BY <3>4, <4>2
    <3> QED
      BY <3>3, <3>4
  <2> PICK new : new = [turn[t] EXCEPT !.at = "gathered", !.spent = s,
                          !.images = P \cap object, !.texts = texts]
    OBVIOUS
  <2>2. s \in SUBSET {"rerank", "refine"}
    BY SpendsAssumption
  <2>3. P \cap object \in SUBSET C!Files
    BY <1>4, <2>1
  <2>4. /\ new \in TurnRow /\ new.at = "gathered" /\ new.conv = c
        /\ new.files = turn[t].files /\ new.vision = turn[t].vision
        /\ new.images = P \cap object /\ new.texts = texts
        /\ turn' = [turn EXCEPT ![t] = new]
    BY <1>1, <1>4, <1>6, <2>2, <2>3 DEF TurnRow, C!Stages
  <2>5. BindKept /\ turn'[t] = new /\ (FilesOf(t)' => BindInv')
    BY <1>1, <2>4, OneTurnMoves
  <2>6. Holds(t)'
    BY <1>1, <2>4, <2>5 DEF FilesOf, Holds, C!Sent
  <2>7. c \in open => \A f \in turn[t].files : file[f] # None /\ file[f].message = t
    BY <1>1 DEF FilesOf, Holds, C!Sent
  <2>8. ASSUME c \in open, NEW f \in I \cup texts \cup H PROVE C!InConversation(f, c)'
    <3>1. CASE f \in I
      <4>1. file[f] # None /\ file[f].message = t
        BY <2>7, <2>8, <3>1
      <4>2. t # C!Unbound
        BY BoundsAssumption DEF C!Turns, C!Unbound
      <4> QED
        BY <1>1, <2>4, <2>5, <4>1, <4>2 DEF C!InConversation, C!Exists
    <3>2. CASE f \in history
      <4> PICK m : m = file[f].message
        OBVIOUS
      <4>1. /\ m \in C!Turns /\ turn[m].at # "none" /\ turn[m].conv = c /\ m # C!Unbound
            /\ file[f] # None
        BY <1>3, <3>2 DEF C!InConversation, C!Exists
      <4>2. turn'[m].conv = c
        BY <2>5, <4>1 DEF BindKept, GoesOn
      <4> QED
        BY <1>1, <4>1, <4>2 DEF C!InConversation, C!Exists
    <3> QED
      BY <2>8, <3>1, <3>2
  <2>9. Cardinality(P \cap object) <= MaxTurnImages
    <3> PICK Q : Q = P \cap object
      OBVIOUS
    <3>1. Q \in SUBSET P
      OBVIOUS
    <3>2. Cardinality(Q) <= Cardinality(P) /\ IsFiniteSet(Q)
      BY <2>1, <3>1, FS_Subset
    <3>3. Cardinality(Q) \in Nat /\ Cardinality(P) \in Nat
      BY <2>1, <3>2, FS_CardinalityType
    <3> QED
      BY <2>1, <3>2, <3>3, BoundsAssumption
  <2>10. c \in open => \/ P \cap object \subseteq turn[t].files
                       \/ \A f \in turn[t].files : file[f].kind = "image" => f \in P \cap object
    <3> SUFFICES ASSUME c \in open, NEW p \in P \cap object, p \notin turn[t].files,
                        NEW f \in turn[t].files, file[f].kind = "image"
                 PROVE  f \in P \cap object
      OBVIOUS
    <3>1. f \in I
      BY <2>7 DEF C!Exists
    <3>2. I \subseteq turn[t].files
      OBVIOUS
    <3>3. I \subseteq P
      BY <2>1, <3>2
    <3> QED
      BY <1>6, <3>1, <3>3
  <2>11. new.images # {} => new.vision # "none"
    BY <2>1, <2>4
  <2>12. open' = open /\ file' = file
    BY <1>1
  <2>13. c \in open => \A f \in new.images \cup new.texts : C!InConversation(f, c)'
    BY <2>1, <2>4, <2>8
  <2>14. Shown(t)'
    <3>1. /\ Cardinality(turn'[t].images) <= MaxTurnImages
          /\ turn'[t].images # {} => turn'[t].vision # "none"
          /\ turn'[t].conv = c
      BY <2>4, <2>5, <2>9, <2>11
    <3>2. c \in open' => \A f \in turn'[t].images \cup turn'[t].texts : C!InConversation(f, c)'
      BY <2>5, <2>12, <2>13
    <3>3. c \in open' =>
            \/ turn'[t].images \subseteq turn'[t].files
            \/ \A f \in turn'[t].files : file'[f].kind = "image" => f \in turn'[t].images
      BY <2>4, <2>5, <2>10, <2>12
    <3> QED
      BY <3>1, <3>2, <3>3 DEF Shown, C!InConversation, C!Exists
  <2>15. FilesOf(t)'
    BY <2>4, <2>5, <2>6, <2>14 DEF FilesOf, Given
  <2> QED
    BY <2>5, <2>15
<1> QED
  BY <1>5, <1>6 DEF C!Gather

(* A charge, with the turn going on or over.                               *)
LEMMA ChargeKeepsFiles ==
  ASSUME FileInv, TurnInv, BindInv, FilesFollow, NEW t \in C!Turns, NEW paid \in BOOLEAN,
         C!Charge(t, paid)
  PROVE  BindInv'
<1>1. UNCHANGED open /\ turn[t].at = "saving"
  BY DEF C!Charge
<1>2. CASE UNCHANGED turn
  BY <1>1, <1>2, NoTurnMoves
<1>3. CASE turn' = C!Over(t)
  BY <1>1, <1>3, OverGivesNothing
<1> QED
  BY <1>2, <1>3 DEF C!Charge

LEMMA BindStep ==
  ASSUME FileInv, TurnInv, BindInv, C!ChtNext \/ UNCHANGED <<attVars, chtVars>>
  PROVE  BindInv'
<1>1. FilesFollow
  BY FilesStep
<1>2. CASE UNCHANGED chtVars \/ UNCHANGED C!chtVars
  BY <1>1, <1>2, NoTurnMoves DEF chtVars, C!chtVars
<1>3. ASSUME NEW t \in C!Turns, NEW c \in Conversations, NEW fs \in SUBSET C!Files,
             NEW v \in C!Visions, C!Ask(t, c, fs, v)
      PROVE  BindInv'
  BY <1>1, <1>3, AskSendsNothing
<1>4. ASSUME NEW t \in C!Turns,
             \/ C!Build(t) \/ C!Start(t, TRUE) \/ C!CheckStop(t) \/ C!Delta(t)
             \/ C!SeeStop(t) \/ C!EndStream(t)
      PROVE  BindInv'
  BY <1>1, <1>4, AdvancesKeepFiles
<1>5. ASSUME NEW t \in C!Turns, C!Bind(t) PROVE BindInv'
  BY <1>1, <1>5, BindSends
<1>6. ASSUME NEW t \in C!Turns,
             C!Refuse(t) \/ C!Start(t, FALSE) \/ C!Store(t) \/ C!CrashTurn(t)
      PROVE  BindInv'
  <2>1. turn' = C!Over(t) /\ turn[t].at # "none" /\ UNCHANGED open
    BY <1>6 DEF C!Refuse, C!Start, C!Store, C!CrashTurn
  <2> QED
    BY <1>1, <2>1, OverGivesNothing
<1>7. ASSUME NEW t \in C!Turns, NEW s \in Spends, NEW found \in BOOLEAN, C!Gather(t, s, found)
      PROVE  BindInv'
  BY <1>1, <1>7, GatherGivesItsOwn
<1>8. ASSUME NEW t \in C!Turns, NEW paid \in BOOLEAN, C!Charge(t, paid) PROVE BindInv'
  BY <1>1, <1>8, ChargeKeepsFiles
<1>9. ASSUME NEW c \in Conversations,
             \/ \E t \in C!Turns : C!PressStop(c, t) \/ C!ExpireStop(c, t)
             \/ C!DeleteConversation(c)
      PROVE  BindInv'
  <2>1. UNCHANGED turn /\ open' \subseteq open
    BY <1>9 DEF C!PressStop, C!ExpireStop, C!DeleteConversation
  <2> QED
    BY <1>1, <2>1, NoTurnMoves
<1>10. ASSUME NEW t \in C!Turns, NEW credential \in BOOLEAN, C!Start(t, credential)
       PROVE  BindInv'
  BY <1>4, <1>6, <1>10
<1> QED
  BY <1>2, <1>3, <1>4, <1>5, <1>6, <1>7, <1>8, <1>9, <1>10 DEF C!ChtNext, chtVars

LEMMA BindInvIsEnough == FileInv /\ TurnInv /\ BindInv => C!FilesGoWhereTheyWereSent
<1> SUFFICES ASSUME FileInv, TurnInv, BindInv PROVE C!FilesGoWhereTheyWereSent
  OBVIOUS
<1>1. ASSUME NEW t \in C!Turns, C!Sent(t)
      PROVE  /\ turn[t].conv \in open =>
                  \A f \in turn[t].files : C!Exists(f) /\ file[f].message = t
             /\ C!Cardinality(turn[t].images) <= MaxTurnImages
             /\ turn[t].images # {} => turn[t].vision # "none"
             /\ turn[t].conv \in open =>
                  /\ \A f \in turn[t].images \cup turn[t].texts :
                       C!InConversation(f, turn[t].conv)
                  /\ turn[t].images \subseteq turn[t].files
                     \/ \A f \in turn[t].files : file[f].kind = "image" => f \in turn[t].images
  <2>1. Holds(t) /\ Shown(t)
    BY DEF BindInv, FilesOf
  <2>2. C!Cardinality(turn[t].images) = Cardinality(turn[t].images)
    BY DEF C!Cardinality, Cardinality
  <2> QED
    BY <1>1, <2>1, <2>2 DEF Holds, Shown, C!Exists
<1> QED
  BY <1>1, AttInvIsEnough DEF C!FilesGoWhereTheyWereSent

--------------------------------------------------------------------------------
(* Scores.  A set of numbers that is not empty has a least one.            *)
LEMMA LeastNumber ==
  ASSUME NEW T \in SUBSET Nat, T # {}
  PROVE  \E x \in T : \A y \in T : x <= y
<1>1. \E LT : IsWellFoundedOn(LT, Nat) /\ \A x, y \in Nat : y < x => <<y, x>> \in LT
  <2>1. IsWellFoundedOn(OpToRel(<, Nat), Nat)
    BY NatLessThanWellFounded, Zenon
  <2>2. \A x, y \in Nat : y < x => <<y, x>> \in OpToRel(<, Nat)
    BY DEF OpToRel
  <2> QED
    BY <2>1, <2>2, Zenon
<1>2. PICK LT : IsWellFoundedOn(LT, Nat) /\ \A x, y \in Nat : y < x => <<y, x>> \in LT
  BY <1>1
<1>3. PICK x \in T : \A y \in T : ~ (<<y, x>> \in LT)
  BY <1>2, WFMin
<1>4. ASSUME NEW y \in T PROVE x <= y
  <2>1. x \in Nat /\ y \in Nat
    OBVIOUS
  <2>2. ~(y < x)
    BY <1>2, <1>3, <2>1
  <2> QED
    BY <2>1, <2>2
<1> QED
  BY <1>4

(* Of finitely many passages one has the best rank: the one with fewest    *)
(* passages above it.                                                      *)
LEMMA SomeIsBest ==
  ASSUME NEW lexical \in SUBSET Chunks, lexical # {}
  PROVE  \E c \in lexical : \A d \in lexical : Lexical[d] <= Lexical[c]
<1> DEFINE Above(c) == {d \in lexical : Lexical[d] > Lexical[c]}
           Counts == {Cardinality(Above(c)) : c \in lexical}
<1>1. IsFiniteSet(lexical) /\ \A c \in lexical : Lexical[c] \in Nat
  BY RetrievalAssumption, FS_Subset
<1>2. ASSUME NEW c \in lexical
      PROVE  IsFiniteSet(Above(c)) /\ Cardinality(Above(c)) \in Nat
  <2>1. Above(c) \in SUBSET lexical
    OBVIOUS
  <2> QED
    BY <1>1, <2>1, FS_Subset, FS_CardinalityType
<1>3. PICK n \in Counts : \A m \in Counts : n <= m
  <2>1. Counts \in SUBSET Nat /\ Counts # {}
    BY <1>2
  <2> QED
    BY <2>1, LeastNumber
<1>4. PICK c \in lexical : n = Cardinality(Above(c))
  BY <1>3
<1>5. ASSUME NEW d \in lexical, ~(Lexical[d] <= Lexical[c]) PROVE FALSE
  <2> PICK A, B : A = Above(c) /\ B = Above(d)
    OBVIOUS
  <2>1. Lexical[c] \in Nat /\ Lexical[d] \in Nat /\ Lexical[d] > Lexical[c]
    BY <1>1, <1>5
  <2>2. d \in A /\ IsFiniteSet(A) /\ Cardinality(A) \in Nat /\ Cardinality(B) \in Nat
    BY <1>2, <2>1
  <2>3. IsFiniteSet(A \ {d}) /\ Cardinality(A \ {d}) = Cardinality(A) - 1
    BY <2>2, FS_RemoveElement
  <2>4. ASSUME NEW e \in B PROVE e \in A \ {d}
    <3>1. e \in lexical /\ Lexical[e] \in Nat /\ Lexical[e] > Lexical[d]
      BY <1>1, <2>4
    <3>2. Lexical[e] > Lexical[c] /\ e # d
      BY <2>1, <3>1
    <3> QED
      BY <3>1, <3>2
  <2>5. B \in SUBSET (A \ {d})
    BY <2>4
  <2>6. Cardinality(B) <= Cardinality(A) - 1
    BY <2>3, <2>5, FS_Subset
  <2>7. Cardinality(A) <= Cardinality(B)
    BY <1>3, <1>4
  <2> QED
    BY <2>2, <2>6, <2>7
<1> QED
  BY <1>5

LEMMA BestIsBest ==
  ASSUME NEW lexical \in SUBSET Chunks
  PROVE  R!Best(lexical) \in Nat /\ \A c \in lexical : Lexical[c] <= R!Best(lexical)
<1>1. \A c \in lexical : Lexical[c] \in Nat
  BY RetrievalAssumption
<1>2. \E n \in {0} \cup {Lexical[c] : c \in lexical} : \A c \in lexical : Lexical[c] <= n
  <2>1. CASE lexical = {}
    BY <2>1
  <2>2. CASE lexical # {}
    BY <2>2, SomeIsBest
  <2> QED
    BY <2>1, <2>2
<1>3. /\ R!Best(lexical) \in {0} \cup {Lexical[c] : c \in lexical}
      /\ \A c \in lexical : Lexical[c] <= R!Best(lexical)
  BY <1>2 DEF R!Best
<1> QED
  BY <1>1, <1>3

LEMMA TermScoreIsAShare ==
  ASSUME NEW lexical \in SUBSET Chunks, NEW c \in Chunks
  PROVE  R!TermScore(c, lexical) \in 0 .. 100 /\ R!TermScore(c, {}) = 0
<1> PICK b, n : b = R!Best(lexical) /\ n = Lexical[c]
  OBVIOUS
<1>1. b \in Nat /\ n \in Nat /\ (c \in lexical => n <= b)
  BY BestIsBest, RetrievalAssumption
<1>2. b > 0 /\ n <= b => (100 * n) \div b <= 100 /\ (100 * n) \div b \in Nat
  BY <1>1
<1> QED
  BY <1>1, <1>2 DEF R!TermScore

LEMMA Fusion == R!FusionIsBounded
<1> SUFFICES ASSUME NEW dense \in SUBSET Chunks, NEW lexical \in SUBSET Chunks,
                    NEW weight \in {0, 30, 70, 100}, NEW c \in dense \cup lexical
             PROVE  /\ R!Score(c, dense, lexical, weight) <= 100
                    /\ weight = 100 => R!Score(c, dense, lexical, weight)
                                         = IF c \in dense THEN Dense[c] ELSE 0
                    /\ c \in dense /\ c \in lexical =>
                         R!Score(c, dense, lexical, weight) >= R!Score(c, dense, {}, weight)
  BY DEF R!FusionIsBounded
<1> PICK d, n, s, only :
      /\ d = (IF c \in dense THEN Dense[c] ELSE 0) /\ n = R!TermScore(c, lexical)
      /\ s = R!Score(c, dense, lexical, weight) /\ only = R!Score(c, dense, {}, weight)
  OBVIOUS
<1>1. d \in -100 .. 100 /\ n \in 0 .. 100
  BY TermScoreIsAShare, RetrievalAssumption
<1>2. s = (d * weight + n * (100 - weight)) \div 100
  <2>1. (IF c \in dense THEN Dense[c] * weight ELSE 0) = d * weight
    OBVIOUS
  <2> QED
    BY <2>1 DEF R!Score
<1>3. only = (d * weight + 0 * (100 - weight)) \div 100
  <2>1. R!TermScore(c, {}) = 0
    BY TermScoreIsAShare
  <2>2. (IF c \in dense THEN Dense[c] * weight ELSE 0) = d * weight
    OBVIOUS
  <2> QED
    BY <2>1, <2>2 DEF R!Score
<1>4. s <= 100 /\ (weight = 100 => s = d) /\ s >= only
  <2>1. CASE weight = 0
    BY <1>1, <1>2, <1>3, <2>1
  <2>2. CASE weight = 30
    BY <1>1, <1>2, <1>3, <2>2
  <2>3. CASE weight = 70
    BY <1>1, <1>2, <1>3, <2>3
  <2>4. CASE weight = 100
    BY <1>1, <1>2, <1>3, <2>4
  <2> QED
    BY <2>1, <2>2, <2>3, <2>4
<1> QED
  BY <1>4

--------------------------------------------------------------------------------
(* Orders of finitely many passages, and their first few.                  *)
LEMMA OrdersAreSequences ==
  ASSUME NEW S, IsFiniteSet(S), NEW s \in R!SetToSeqs(S)
  PROVE  s \in Seq(S) /\ \A i, j \in DOMAIN s : s[i] = s[j] => i = j
<1> PICK n : n = Cardinality(S)
  OBVIOUS
<1>1. n \in Nat /\ R!Cardinality(S) = n
  BY FS_CardinalityType DEF R!Cardinality, Cardinality
<1>2. s \in [1 .. n -> S] /\ \A i, j \in 1 .. n : i # j => s[i] # s[j]
  BY <1>1 DEF R!SetToSeqs
<1> QED
  BY <1>1, <1>2

LEMMA CutIsAStart ==
  ASSUME NEW S, NEW s \in Seq(S), NEW n \in Nat
  PROVE  /\ R!Cut(s, n) \in Seq(S) /\ Len(R!Cut(s, n)) <= n
         /\ (\A i, j \in DOMAIN s : s[i] = s[j] => i = j) =>
              \A i, j \in DOMAIN R!Cut(s, n) : R!Cut(s, n)[i] = R!Cut(s, n)[j] => i = j
<1> PICK k, r : k = (IF Len(s) < n THEN Len(s) ELSE n) /\ r = R!Cut(s, n)
  OBVIOUS
<1>1. k \in Nat /\ k <= n /\ k <= Len(s) /\ r = SubSeq(s, 1, k) /\ Len(s) \in Nat
  BY DEF R!Cut
<1>2. \A i \in 1 .. k : s[i] \in S /\ i \in DOMAIN s
  BY <1>1
<1>3. /\ r \in Seq(S) /\ Len(r) = k
      /\ \A i \in 1 .. k : r[i] = s[i]
  BY <1>1, <1>2
<1>4. DOMAIN r = 1 .. k
  BY <1>3
<1>5. (\A i, j \in DOMAIN s : s[i] = s[j] => i = j) =>
        \A i, j \in DOMAIN r : r[i] = r[j] => i = j
  BY <1>2, <1>3, <1>4
<1> QED
  BY <1>1, <1>3, <1>5

--------------------------------------------------------------------------------
(* The bases, the conversation's set, and a search of it.                  *)
EditFields == {"primary", "extra"}
Edit == [at : {"checked", "written"}, named : SUBSET EditFields, primary : Bases \cup {None},
         extra : SUBSET Bases]
Search == [at : {"bases", "ranked", "answered"}, bases : SUBSET Bases,
           mode : {s.mode : s \in Searches}, scope : {s.scope : s \in Searches},
           rerank : {s.rerank : s \in Searches}, ranked : Seq(Chunks), rows : SUBSET Chunks,
           embedded : SUBSET Embeddings]
RtvTyped ==
  /\ base \in [Bases -> Embeddings \cup {None, R!Gone}]
  /\ passages \subseteq Chunks /\ vectors \subseteq Chunks
  /\ bases \in [primary : Bases \cup {None}, extra : SUBSET Bases, exists : BOOLEAN]
  /\ editor \in [Writers -> Edit \cup {R!Idle}]
  /\ search \in Search \cup {R!Idle}
Once(s) == \A i, j \in DOMAIN s : s[i] = s[j] => i = j
Asked(c) ==
  BaseOf[c] \in search.bases /\ (search.scope = {} \/ c \in search.scope)
RtvInv ==
  /\ RtvTyped
  /\ \A c \in passages : R!Live(BaseOf[c])
  /\ search # R!Idle =>
       /\ \E m : search.embedded = {m}
       /\ search.at \in {"ranked", "answered"} =>
            \A i \in DOMAIN search.ranked : Asked(search.ranked[i])
       /\ search.at = "answered" =>
            /\ Len(search.ranked) <= TopK /\ (search.rerank \/ Once(search.ranked))
            /\ \A i \in DOMAIN search.ranked : search.ranked[i] \in search.rows

LEMMA RtvInvInit == MCInit => RtvInv
<1> SUFFICES ASSUME R!RtvInit PROVE RtvInv
  BY DEF MCInit
<1>1. /\ base = [b \in Bases |-> None] /\ passages = {} /\ vectors = {}
      /\ bases = R!NoThread /\ editor = [e \in Writers |-> R!Idle] /\ search = R!Idle
  BY DEF R!RtvInit
<1> QED
  BY <1>1 DEF RtvInv, RtvTyped, R!NoThread

(* What the search has is its own: only its steps change it.               *)
SearchKept ==
  /\ RtvTyped' /\ UNCHANGED search
  /\ \A c \in passages' : R!Live(BaseOf[c])'
LEMMA RtvKept == RtvInv /\ SearchKept => RtvInv'
  BY DEF RtvInv, SearchKept, Asked, Once, RtvTyped

LEMMA RtvBases ==
  ASSUME RtvInv,
         \/ \E b \in Bases, m \in Embeddings : R!CreateBase(b, m)
         \/ \E c \in Chunks : R!Index(c)
         \/ \E b \in Bases : R!DeleteVectors(b) \/ R!DeleteBase(b)
  PROVE  RtvInv'
<1>1. /\ RtvTyped /\ base \in [Bases -> Embeddings \cup {None, R!Gone}]
      /\ \A c \in passages : R!Live(BaseOf[c]) /\ BaseOf[c] \in Bases /\ c \in Chunks
  BY RetrievalAssumption DEF RtvInv, RtvTyped
<1>2. ASSUME NEW b \in Bases, NEW m \in Embeddings, R!CreateBase(b, m) PROVE RtvInv'
  <2>1. base' = [base EXCEPT ![b] = m] /\ UNCHANGED <<passages, vectors, bases, editor, search>>
    BY <1>2 DEF R!CreateBase
  <2>2. base' \in [Bases -> Embeddings \cup {None, R!Gone}]
        /\ \A a \in Bases : base'[a] = m \/ base'[a] = base[a]
    BY <1>1, <2>1
  <2>3. RtvTyped'
    BY <1>1, <2>1, <2>2 DEF RtvTyped
  <2>4. \A c \in passages' : R!Live(BaseOf[c])'
    BY <1>1, <2>1, <2>2 DEF R!Live
  <2> QED
    BY <2>1, <2>3, <2>4, RtvKept DEF SearchKept
<1>3. ASSUME NEW c \in Chunks, R!Index(c) PROVE RtvInv'
  <2>1. /\ passages' = passages \cup {c} /\ vectors' = vectors \cup {c} /\ R!Live(BaseOf[c])
        /\ UNCHANGED <<base, bases, editor, search>>
    BY <1>3 DEF R!Index
  <2> QED
    BY <1>1, <2>1, RtvKept DEF SearchKept, RtvTyped, R!Live
<1>4. ASSUME NEW b \in Bases, R!DeleteVectors(b) PROVE RtvInv'
  BY <1>1, <1>4, RtvKept DEF SearchKept, RtvTyped, R!Live, R!DeleteVectors
<1>5. ASSUME NEW b \in Bases, R!DeleteBase(b) PROVE RtvInv'
  <2>1. /\ base' = [base EXCEPT ![b] = R!Gone]
        /\ passages' = {c \in passages : BaseOf[c] # b}
        /\ bases' = [bases EXCEPT !.primary = IF bases.primary = b THEN None ELSE bases.primary,
                                  !.extra = bases.extra \ {b}]
        /\ UNCHANGED <<vectors, editor, search>>
    BY <1>5 DEF R!DeleteBase
  <2>2. /\ base' \in [Bases -> Embeddings \cup {None, R!Gone}]
        /\ \A a \in Bases \ {b} : base'[a] = base[a]
    BY <1>1, <2>1
  <2>3. bases' \in [primary : Bases \cup {None}, extra : SUBSET Bases, exists : BOOLEAN]
    BY <1>1, <2>1 DEF RtvTyped
  <2>4. RtvTyped'
    BY <1>1, <2>1, <2>2, <2>3 DEF RtvTyped
  <2>5. \A c \in passages' : R!Live(BaseOf[c])'
    BY <1>1, <2>1, <2>2 DEF R!Live
  <2> QED
    BY <2>1, <2>4, <2>5, RtvKept DEF SearchKept
<1> QED
  BY <1>2, <1>3, <1>4, <1>5

LEMMA RtvEdits ==
  ASSUME RtvInv, NEW e \in Writers,
         \/ \E edit \in Edits : R!StartEdit(e, edit)
         \/ R!WriteThread(e) \/ R!SetConversationBaseIds(e)
  PROVE  RtvInv'
<1>1. /\ RtvTyped /\ editor \in [Writers -> Edit \cup {R!Idle}]
      /\ bases \in [primary : Bases \cup {None}, extra : SUBSET Bases, exists : BOOLEAN]
      /\ \A c \in passages : R!Live(BaseOf[c])
  BY DEF RtvInv, RtvTyped
<1>2. UNCHANGED <<base, passages, vectors, search>>
  BY DEF R!StartEdit, R!WriteThread, R!SetConversationBaseIds
<1>3. ASSUME NEW to \in Edit \cup {R!Idle}, editor' = [editor EXCEPT ![e] = to],
             bases' \in [primary : Bases \cup {None}, extra : SUBSET Bases, exists : BOOLEAN]
      PROVE  RtvInv'
  <2>1. editor' \in [Writers -> Edit \cup {R!Idle}]
    BY <1>1, <1>3
  <2> QED
    BY <1>1, <1>2, <1>3, <2>1, RtvKept DEF SearchKept, RtvTyped, R!Live
<1>4. ASSUME NEW edit \in Edits, R!StartEdit(e, edit) PROVE RtvInv'
  <2> PICK first : first = (IF "primary" \in edit.named THEN edit.primary ELSE bases.primary)
    OBVIOUS
  <2> PICK to : to = [at |-> "checked", named |-> edit.named, primary |-> edit.primary,
                      extra |-> edit.extra \ {first}]
    OBVIOUS
  <2>1. editor' = [editor EXCEPT ![e] = to] /\ UNCHANGED bases
    BY <1>4 DEF R!StartEdit
  <2>2. /\ edit.named \subseteq EditFields /\ edit.primary \in Bases \cup {None}
        /\ edit.extra \subseteq Bases
    BY RetrievalAssumption DEF EditFields
  <2>3. to \in Edit
    BY <2>2 DEF Edit
  <2> QED
    BY <1>1, <1>3, <2>1, <2>3
<1>5. CASE R!WriteThread(e)
  <2>1. editor[e].at = "checked" /\ editor[e] \in Edit
    BY <1>1, <1>5 DEF R!WriteThread, R!Idle
  <2> PICK to : to = [editor[e] EXCEPT !.at = "written"]
    OBVIOUS
  <2>2. to \in Edit
    BY <2>1 DEF Edit
  <2>3. editor' = [editor EXCEPT ![e] = to] \/ editor' = [editor EXCEPT ![e] = R!Idle]
    BY <1>5 DEF R!WriteThread
  <2>4. bases' \in [primary : Bases \cup {None}, extra : SUBSET Bases, exists : BOOLEAN]
    <3>1. editor[e].primary \in Bases \cup {None}
      BY <2>1 DEF Edit
    <3>2. \/ UNCHANGED bases
          \/ \E p \in Bases \cup {None} : bases' = [bases EXCEPT !.exists = TRUE, !.primary = p]
      <4>1. bases.primary \in Bases \cup {None}
        BY <1>1
      <4> QED
        BY <1>5, <3>1, <4>1 DEF R!WriteThread
    <3> QED
      BY <1>1, <3>2
  <2> QED
    BY <1>3, <2>2, <2>3, <2>4
<1>6. CASE R!SetConversationBaseIds(e)
  <2>1. editor[e] \in Edit
    BY <1>1, <1>6 DEF R!SetConversationBaseIds, R!Idle
  <2>2. editor[e].extra \subseteq Bases
    BY <2>1 DEF Edit
  <2>3. bases' \in [primary : Bases \cup {None}, extra : SUBSET Bases, exists : BOOLEAN]
    BY <1>1, <1>6, <2>2 DEF R!SetConversationBaseIds
  <2>4. editor' = [editor EXCEPT ![e] = R!Idle]
    BY <1>6 DEF R!SetConversationBaseIds
  <2> QED
    BY <1>3, <2>3, <2>4
<1> QED
  BY <1>4, <1>5, <1>6

--------------------------------------------------------------------------------
(* A search moves: it is of one model, and what it ranks is asked for.     *)
LEMMA SearchMoves ==
  ASSUME RtvInv, NEW to \in Search, search' = to,
         UNCHANGED <<base, passages, vectors, bases, editor>>,
         \E m : to.embedded = {m},
         to.at \in {"ranked", "answered"} =>
           \A i \in DOMAIN to.ranked :
             /\ BaseOf[to.ranked[i]] \in to.bases
             /\ to.scope = {} \/ to.ranked[i] \in to.scope,
         to.at = "answered" =>
           /\ Len(to.ranked) <= TopK /\ (to.rerank \/ Once(to.ranked))
           /\ \A i \in DOMAIN to.ranked : to.ranked[i] \in to.rows
  PROVE  RtvInv'
<1>1. RtvTyped'
  BY DEF RtvInv, RtvTyped
<1>2. \A c \in passages' : R!Live(BaseOf[c])'
  BY DEF RtvInv, R!Live
<1> QED
  BY <1>1, <1>2 DEF RtvInv, Asked, Once

LEMMA RtvStarts ==
  ASSUME RtvInv, NEW s \in Searches, R!StartSearch(s.mode, s.scope, s.rerank)
  PROVE  RtvInv'
<1> PICK bs, models : /\ bs = R!Primaries(bases.primary) \cup bases.extra
                      /\ models = {base[b] : b \in bs}
  OBVIOUS
<1> PICK to : to = [at |-> "bases", bases |-> bs, mode |-> s.mode, scope |-> s.scope,
                    rerank |-> s.rerank, ranked |-> <<>>, rows |-> {}, embedded |-> models]
  OBVIOUS
<1>1. /\ search' = to /\ bs # {} /\ R!SearchableTogether(bs)
      /\ UNCHANGED <<base, passages, vectors, bases, editor>>
  BY DEF R!StartSearch, R!Refused
<1>2. bs \subseteq Bases
  <2>1. bases \in [primary : Bases \cup {None}, extra : SUBSET Bases, exists : BOOLEAN]
    BY DEF RtvInv, RtvTyped
  <2> QED
    BY <2>1 DEF R!Primaries
<1>3. models \subseteq Embeddings /\ \E m : models = {m}
  <2>1. \A b \in bs : base[b] \in Embeddings
    BY <1>1 DEF R!SearchableTogether, R!Live
  <2>2. PICK b \in bs : TRUE
    BY <1>1
  <2>3. models = {base[b]}
    BY <1>1, <2>2 DEF R!SearchableTogether
  <2> QED
    BY <2>1, <2>3
<1>4. <<>> \in Seq(Chunks)
  OBVIOUS
<1>5. to \in Search /\ to.at = "bases" /\ to.embedded = models
  BY <1>2, <1>3, <1>4 DEF Search
<1> QED
  BY <1>1, <1>3, <1>5, SearchMoves

LEMMA RtvRanks ==
  ASSUME RtvInv, R!Rank
  PROVE  RtvInv'
<1>1. /\ search \in Search /\ search.at = "bases" /\ \E m : search.embedded = {m}
      /\ passages \subseteq Chunks /\ vectors \subseteq Chunks
      /\ UNCHANGED <<base, passages, vectors, bases, editor>>
  BY DEF RtvInv, RtvTyped, R!Rank, R!Idle
<1> PICK weight, dense, lexical, limit :
      /\ weight = R!Weight(search.mode)
      /\ dense = (IF weight > 0
                    THEN {c \in vectors : BaseOf[c] \in search.bases
                                          /\ (search.scope = {} \/ c \in search.scope)}
                    ELSE {})
      /\ lexical = (IF weight < 100 THEN {c \in passages : R!InScope(c) /\ Lexical[c] > 0}
                    ELSE {})
      /\ limit = (IF search.rerank THEN R!CandidateLimit(TopK) ELSE TopK)
  OBVIOUS
<1>2. /\ dense \subseteq {c \in vectors : Asked(c)}
      /\ lexical \subseteq {c \in passages : Asked(c)}
      /\ limit \in {R!CandidateLimit(TopK), TopK}
  BY DEF R!InScope, Asked
<1>3. PICK order \in R!Fuse(dense, lexical, weight, Threshold, limit) :
         search' = [search EXCEPT !.at = "ranked", !.ranked = order]
  BY DEF R!Rank
<1>4. limit \in Nat
  BY <1>2, BoundsAssumption DEF R!CandidateLimit
<1>5. PICK kept, s : /\ kept \subseteq dense \cup lexical /\ s \in R!SetToSeqs(kept)
                     /\ order = R!Cut(s, limit)
  BY <1>3 DEF R!Fuse
<1>6. kept \in SUBSET Chunks /\ IsFiniteSet(kept) /\ \A c \in kept : Asked(c)
  BY <1>1, <1>2, <1>5, RetrievalAssumption, FS_Subset
<1>7. s \in Seq(kept) /\ \A i, j \in DOMAIN s : s[i] = s[j] => i = j
  BY <1>5, <1>6, OrdersAreSequences
<1>8. order \in Seq(kept)
  BY <1>4, <1>5, <1>7, CutIsAStart
<1>9. \A i \in DOMAIN order : order[i] \in kept
  BY <1>8
<1> PICK to : to = [search EXCEPT !.at = "ranked", !.ranked = order]
  OBVIOUS
<1>10. order \in Seq(Chunks)
  BY <1>6, <1>8
<1>11. /\ to \in Search /\ to.at = "ranked" /\ to.ranked = order /\ to.bases = search.bases
       /\ to.scope = search.scope /\ to.embedded = search.embedded
  BY <1>1, <1>10 DEF Search
<1>12. \A i \in DOMAIN to.ranked :
         /\ BaseOf[to.ranked[i]] \in to.bases
         /\ to.scope = {} \/ to.ranked[i] \in to.scope
  BY <1>6, <1>9, <1>11 DEF Asked
<1> QED
  BY <1>1, <1>3, <1>11, <1>12, SearchMoves

LEMMA RtvAnswers ==
  ASSUME RtvInv, R!Answer
  PROVE  RtvInv'
<1>1. /\ search \in Search /\ search.at = "ranked" /\ \E m : search.embedded = {m}
      /\ passages \subseteq Chunks /\ TopK \in Nat
      /\ \A i \in DOMAIN search.ranked : Asked(search.ranked[i])
      /\ UNCHANGED <<base, passages, vectors, bases, editor>>
  BY BoundsAssumption DEF RtvInv, RtvTyped, R!Answer, R!Idle
<1>2. PICK found, s :
        /\ found = {c \in R!ToSet(search.ranked) : c \in passages}
        /\ \/ s \in R!SetToSeqs(found)
           \/ search.rerank /\ \E n \in 1 .. TopK : s \in [1 .. n -> found]
        /\ search' = [search EXCEPT !.at = "answered", !.ranked = R!Cut(s, TopK),
                                    !.rows = passages]
  <2>1. PICK s \in {o \in R!SetToSeqs({c \in R!ToSet(search.ranked) : R!Readable(c)}) :
                      R!InOrder(o)}
                   \cup (IF search.rerank
                           THEN UNION {[1 .. n -> {c \in R!ToSet(search.ranked) : R!Readable(c)}] :
                                         n \in 1 .. TopK}
                           ELSE {}) :
          search' = [search EXCEPT !.at = "answered", !.ranked = R!Cut(s, TopK),
                                   !.rows = passages]
    BY DEF R!Answer
  <2> PICK found : found = {c \in R!ToSet(search.ranked) : c \in passages}
    OBVIOUS
  <2>2. found = {c \in R!ToSet(search.ranked) : R!Readable(c)}
    BY DEF R!Readable
  <2>3. s \in R!SetToSeqs(found) \/ (search.rerank /\ \E n \in 1 .. TopK : s \in [1 .. n -> found])
    BY <2>2
  <2> QED
    BY <2>1, <2>3
<1>3. found \in SUBSET Chunks /\ IsFiniteSet(found) /\ \A c \in found : Asked(c) /\ c \in passages
  <2>1. \A c \in found : Asked(c) /\ c \in passages
    BY <1>1, <1>2 DEF R!ToSet
  <2>2. found \in SUBSET Chunks
    BY <1>1, <2>1
  <2> QED
    BY <2>1, <2>2, RetrievalAssumption, FS_Subset
<1>4. s \in Seq(found) /\ (search.rerank \/ \A i, j \in DOMAIN s : s[i] = s[j] => i = j)
  <2>1. CASE s \in R!SetToSeqs(found)
    BY <1>3, <2>1, OrdersAreSequences
  <2>2. CASE search.rerank /\ \E n \in 1 .. TopK : s \in [1 .. n -> found]
    BY <1>1, <2>2
  <2> QED
    BY <1>2, <2>1, <2>2
<1> PICK order : order = R!Cut(s, TopK)
  OBVIOUS
<1>5. order \in Seq(found) /\ Len(order) <= TopK /\ (search.rerank \/ Once(order))
  BY <1>1, <1>4, CutIsAStart DEF Once
<1>6. order \in Seq(Chunks) /\ \A i \in DOMAIN order : order[i] \in found
  BY <1>3, <1>5
<1> PICK to : to = [search EXCEPT !.at = "answered", !.ranked = order, !.rows = passages]
  OBVIOUS
<1>7. /\ to \in Search /\ to.at = "answered" /\ to.ranked = order /\ to.bases = search.bases
      /\ to.scope = search.scope /\ to.embedded = search.embedded /\ to.rows = passages
      /\ to.rerank = search.rerank
  BY <1>1, <1>6 DEF Search
<1>8. \A i \in DOMAIN to.ranked :
        /\ BaseOf[to.ranked[i]] \in to.bases
        /\ to.scope = {} \/ to.ranked[i] \in to.scope
        /\ to.ranked[i] \in to.rows
  BY <1>3, <1>6, <1>7 DEF Asked
<1> QED
  BY <1>1, <1>2, <1>5, <1>7, <1>8, SearchMoves

LEMMA RtvStep ==
  ASSUME RtvInv, R!RtvNext \/ UNCHANGED rtvVars
  PROVE  RtvInv'
<1>1. CASE UNCHANGED rtvVars
  BY <1>1, RtvKept DEF rtvVars, SearchKept, RtvInv, RtvTyped, R!Live
<1>2. CASE R!EndSearch
  <2>1. search' = R!Idle /\ UNCHANGED <<base, passages, vectors, bases, editor>>
    BY <1>2 DEF R!EndSearch
  <2>2. RtvTyped'
    BY <2>1 DEF RtvInv, RtvTyped
  <2> QED
    BY <2>1, <2>2 DEF RtvInv, R!Live
<1>3. ASSUME \/ \E b \in Bases, m \in Embeddings : R!CreateBase(b, m)
             \/ \E c \in Chunks : R!Index(c)
             \/ \E b \in Bases : R!DeleteVectors(b) \/ R!DeleteBase(b)
      PROVE  RtvInv'
  BY <1>3, RtvBases
<1>4. ASSUME NEW e \in Writers,
             \/ \E edit \in Edits : R!StartEdit(e, edit)
             \/ R!WriteThread(e) \/ R!SetConversationBaseIds(e)
      PROVE  RtvInv'
  BY <1>4, RtvEdits
<1>5. ASSUME NEW s \in Searches, R!StartSearch(s.mode, s.scope, s.rerank) PROVE RtvInv'
  BY <1>5, RtvStarts
<1> QED
  BY <1>1, <1>2, <1>3, <1>4, <1>5, RtvRanks, RtvAnswers DEF R!RtvNext

LEMMA RtvInvIsEnough == RtvInv => R!RetrievalIsSound
<1> SUFFICES ASSUME RtvInv PROVE R!RetrievalIsSound
  OBVIOUS
<1>1. RtvTyped /\ \A c \in passages : R!Live(BaseOf[c])
  BY DEF RtvInv
<1>2. R!RtvTypeOK
  BY <1>1 DEF R!RtvTypeOK, RtvTyped
<1>3. search.at # "idle" <=> search # R!Idle
  BY <1>1 DEF RtvTyped, R!Idle, Search
<1>4. R!OneModelOnly
  <2> SUFFICES ASSUME search.at # "idle" PROVE R!Cardinality(search.embedded) = 1
    BY DEF R!OneModelOnly
  <2>1. \E m : search.embedded = {m}
    BY <1>3 DEF RtvInv
  <2>2. Cardinality(search.embedded) = 1
    BY <2>1, FS_Singleton
  <2> QED
    BY <2>2 DEF R!Cardinality, Cardinality
<1>5. ASSUME search.at = "answered"
      PROVE  /\ Len(search.ranked) <= TopK
             /\ search.rerank \/ R!IsInjective(search.ranked)
             /\ \A c \in R!ToSet(search.ranked) :
                  /\ c \in search.rows
                  /\ BaseOf[c] \in search.bases
                  /\ search.scope = {} \/ c \in search.scope
  BY <1>3, <1>5 DEF RtvInv, Once, Asked, R!IsInjective, R!ToSet
<1> QED
  BY <1>2, <1>4, <1>5 DEF R!RetrievalIsSound

--------------------------------------------------------------------------------
(* However saves of widgets and questions of visitors overlap: a day's      *)
(* spending passes its ceiling by no more than the turns in flight, a       *)
(* visitor has no more questions let through than the hourly limit, and a   *)
(* widget keeps the key its page was given, which no other widget has       *)
(* (widget.service.ts, widget.routes.ts).                                  *)
THEOREM WidgetsStayBounded == MCSpec => []WidgetsAreBounded
<1> DEFINE Inv == WdgKeys /\ WdgLimits
<1>1. MCInit => Inv
  BY WdgKeysInit, WdgLimitsInit
<1>2. Inv /\ [MCNext]_mcVars => Inv'
  BY PartsMove, WdgKeysStep, WdgLimitsStep
<1>3. Inv => WidgetsAreBounded
  BY WdgInvIsEnough DEF WidgetsAreBounded
<1>4. MCSpec => MCInit /\ [][MCNext]_mcVars
  BY PTL DEF MCSpec
<1> HIDE DEF Inv
<1>5. QED
  BY <1>1, <1>2, <1>3, <1>4, PTL

(* However writers, readers and the removal of an account overlap: a memory *)
(* is recalled for the person who told it and nobody else, a point is of a  *)
(* row that was written, and when every writer is done a scope holds no     *)
(* more than its cap, unless a writer died or an account's memories became  *)
(* shared (memory.service.ts, memory.repository.ts).                        *)
THEOREM MemoriesStay == MCSpec => []MemoriesStayInScope
<1> DEFINE Inv == MemInv
<1>1. MCInit => Inv
  BY MemInvInit
<1>2. Inv /\ [MCNext]_mcVars => Inv'
  BY PartsMove, MemStep
<1>3. Inv => MemoriesStayInScope
  BY MemInvIsEnough DEF MemoriesStayInScope
<1>4. MCSpec => MCInit /\ [][MCNext]_mcVars
  BY PTL DEF MCSpec
<1> HIDE DEF Inv
<1>5. QED
  BY <1>1, <1>2, <1>3, <1>4, PTL

(* However turns are stopped, cut off, fail late or lose their              *)
(* conversation: an answer is stored once, after all its making spent was   *)
(* charged, reads stopped only where a person asked this turn to stop, and  *)
(* is charged as a chat only when its first word was out                    *)
(* (chat.service.ts, chat.repository.ts).                                   *)
THEOREM TurnsAccountedFor == MCSpec => []TurnsAreAccountedFor
<1> DEFINE Inv == FileInv /\ TurnInv
<1>1. MCInit => Inv
  BY FilesInit, TurnsInit
<1>2. Inv /\ [MCNext]_mcVars => Inv'
  BY PartsMove, FilesStep, TurnsStep DEF FilesFollow
<1>3. Inv => TurnsAreAccountedFor
  BY TurnInvIsEnough DEF TurnsAreAccountedFor
<1>4. MCSpec => MCInit /\ [][MCNext]_mcVars
  BY PTL DEF MCSpec
<1> HIDE DEF Inv
<1>5. QED
  BY <1>1, <1>2, <1>3, <1>4, PTL

(* A file is sent with one message, the model is given files of its own     *)
(* conversation and no more images than a turn may have, and no row is      *)
(* left whose object is gone (attachment.service.ts, chat/attachments.ts).  *)
THEOREM FilesGoWhereSent == MCSpec => []FilesGoWhereTheyWereSent
<1> DEFINE Inv == FileInv /\ TurnInv /\ BindInv
<1>1. MCInit => Inv
  BY FilesInit, TurnsInit, BindInit
<1>2. Inv /\ [MCNext]_mcVars => Inv'
  BY PartsMove, FilesStep, TurnsStep, BindStep DEF FilesFollow
<1>3. Inv => FilesGoWhereTheyWereSent
  BY AttInvIsEnough, BindInvIsEnough DEF FilesGoWhereTheyWereSent
<1>4. MCSpec => MCInit /\ [][MCNext]_mcVars
  BY PTL DEF MCSpec
<1> HIDE DEF Inv
<1>5. QED
  BY <1>1, <1>2, <1>3, <1>4, PTL

(* An answer rests on passages that are there, of the bases that were asked *)
(* and of one embedding model, ranked on a scale of their own               *)
(* (retrieval.service.ts, fusion.ts).                                       *)
THEOREM RetrievalStaysSound == MCSpec => []RetrievalIsSound
<1> DEFINE Inv == RtvInv
<1>1. MCInit => Inv
  BY RtvInvInit
<1>2. Inv /\ [MCNext]_mcVars => Inv'
  BY PartsMove, RtvStep
<1>3. Inv => RetrievalIsSound
  BY Fusion, RtvInvIsEnough DEF RetrievalIsSound
<1>4. MCSpec => MCInit /\ [][MCNext]_mcVars
  BY PTL DEF MCSpec
<1> HIDE DEF Inv
<1>5. QED
  BY <1>1, <1>2, <1>3, <1>4, PTL

================================================================================
