-------------------------------- MODULE ChatTurns ------------------------------
(***************************************************************************)
(* One turn of a conversation: the question and the files it carries, the  *)
(* refusals, the context gathered for the model, the answer as it streams, *)
(* the stop a person may ask for, and what is billed and stored in the end. *)
(* Turns are numbered in the order their questions are asked.              *)
(***************************************************************************)
EXTENDS Attachments

CONSTANTS Conversations,
          Models,         \* what the models people choose can do, of Visions
          Spends,         \* the sets of steps that may cost something before the answer
          MaxTurns,       \* bound: how many questions are ever asked
          MaxPresses,     \* bound: how many keys are ever set
          HistoryTurns,   \* HISTORY_TURNS
          MaxTurnImages   \* MAX_TURN_IMAGES

VARIABLES open,           \* the conversations that exist
          thread,         \* a conversation's messages, oldest first
          turn,           \* the requests that answer them
          billed,         \* references <<turn, step>> in the ledger
          stops,          \* keys <<conversation, turn>> in Redis
          pressed         \* the same, never deleted: what people asked for

chtVars == <<open, thread, turn, billed, stops, pressed>>

Turns == 1..MaxTurns
Steps == <<"rerank", "refine", "chat">>
StepNames == {Steps[i] : i \in DOMAIN Steps}

(* vision: the model cannot see, it can but the adapter does not carry     *)
(* images, or both can.                                                    *)
Visions == {"none", "model", "both"}
NoTurn == [at |-> "none", conv |-> None, files |-> {}, vision |-> "none", images |-> {},
           texts |-> {}, spent |-> {}, answer |-> FALSE, stopped |-> FALSE]

NoTurns ==
  /\ open = Conversations /\ thread = [c \in Conversations |-> <<>>]
  /\ turn = [t \in Turns |-> NoTurn]
  /\ billed = {} /\ stops = {} /\ pressed = {}

ChtInit == AttInit /\ NoTurns
(* The same where people have uploaded their files before they ask.        *)
ChtUploaded == AttUploaded /\ NoTurns

(* A turn that is over keeps nothing of what it gathered.                  *)
Over(t) == [turn EXCEPT ![t].at = "ended", ![t].images = {}, ![t].texts = {}]
Row(role, t, status) == [role |-> role, turn |-> t, status |-> status]
(* insertMessage: the conversation is a foreign key.                       *)
CanInsert(t) == turn[t].conv \in open
Inserted(t, role, status) ==
  [thread EXCEPT ![turn[t].conv] = Append(@, Row(role, t, status))]

(* Rows of files carried by the questions of a conversation.               *)
InConversation(f, c) ==
  Exists(f) /\ file[f].message # Unbound /\ turn[file[f].message].conv = c

--------------------------------------------------------------------------------
(* prepareTurn: the question is stored before anything can refuse it.      *)
Ask(t, c, fs, vision) ==
  /\ vision \in Models /\ turn[t].at = "none" /\ (t > 1 => turn[t - 1].at # "none") /\ c \in open
  /\ turn' = [turn EXCEPT ![t] = [NoTurn EXCEPT !.at = "asked", !.conv = c, !.files = fs,
                                    !.vision = vision]]
  /\ thread' = [thread EXCEPT ![c] = Append(@, Row("user", t, "complete"))]
  /\ UNCHANGED <<attVars, open, billed, stops, pressed>>

(* resolveAttachments, one file.                                           *)
Attachable(f) ==
  /\ Exists(f) /\ file[f].kind \in {"image", "audio"}
  /\ file[f].kind = "audio" => file[f].extracted = "words"
  /\ file[f].message = Unbound

(* buildTurn: credits, model and adapter are asked of other parts and may  *)
(* refuse at any time; the files refuse where one of them cannot go.       *)
Build(t) ==
  /\ turn[t].at = "asked"
  /\ \A f \in turn[t].files : Attachable(f)
  /\ (\E f \in turn[t].files : file[f].kind = "image") => turn[t].vision = "both"
  /\ turn' = [turn EXCEPT ![t].at = "built"]
  /\ UNCHANGED <<attVars, open, thread, billed, stops, pressed>>

(* recordRefusedTurn: the refusal is stored beside the question.           *)
Refuse(t) ==
  /\ turn[t].at \in {"asked", "conflict"}
  /\ turn' = Over(t)
  /\ IF CanInsert(t) THEN thread' = Inserted(t, "assistant", "failed") ELSE UNCHANGED thread
  /\ UNCHANGED <<attVars, open, billed, stops, pressed>>

(* Mutant: the update claims a file whoever has it. *)
Claimed_Anyones(fs) == {f \in fs : Exists(f)}
(* bindAttachments, the rows its statement claims.                         *)
Claimed(fs) == {f \in fs : Exists(f) /\ file[f].message = Unbound}

(* The files are claimed in one statement; where some were taken, those it *)
(* did get stay with a question that is then refused.                      *)
Bind(t) ==
  LET fs == turn[t].files
      got == Claimed(fs)
  IN  /\ turn[t].at = "built"
      /\ IF fs # {} /\ ~CanInsert(t)
           THEN turn' = [turn EXCEPT ![t].at = "conflict"] /\ UNCHANGED file
           ELSE /\ turn' = [turn EXCEPT ![t].at = IF got = fs THEN "bound" ELSE "conflict"]
                /\ file' = [f \in Files |-> IF f \in got THEN [file[f] EXCEPT !.message = t]
                                                         ELSE file[f]]
      /\ UNCHANGED <<uploaded, object, scribe, removing, charged, open, thread, billed,
                     stops, pressed>>

(* streamTurn, the start frame and the credential.  Where there is none    *)
(* the turn ends without a row.                                            *)
Start(t, credential) ==
  /\ turn[t].at = "bound"
  /\ turn' = IF credential THEN [turn EXCEPT ![t].at = "started"] ELSE Over(t)
  /\ UNCHANGED <<attVars, open, thread, billed, stops, pressed>>

--------------------------------------------------------------------------------
(* listRecentMessages, without the question itself and without what ended  *)
(* badly.                                                                  *)
Recent(s) == {s[i] : i \in {i \in DOMAIN s : i > Len(s) - (2 * HistoryTurns + 1)}}
History(t) ==
  {r \in Recent(thread[turn[t].conv]) :
     ~(r.role = "user" /\ r.turn = t) /\ r.status \in {"complete", "stopped"}}

(* listAttachmentsForMessages and the filter on it: what earlier questions *)
(* carry.                                                                  *)
HistoryFiles(t) ==
  {f \in Files : /\ Exists(f) /\ file[f].status = "ready" /\ file[f].kind # "file"
                 /\ \E r \in History(t) : r.role = "user" /\ r.turn = file[f].message}

(* planTurnImages: the images sent as bytes.  Those of this question are   *)
(* the last to give way; a model that cannot see gets none.                *)
Newest(fs, n) == {f \in fs : Cardinality({g \in fs : g > f}) < n}
PlanTurnImages(current, history, sees) ==
  IF sees THEN Newest(current, MaxTurnImages)
                 \cup Newest(history, MaxTurnImages - Cardinality(current))
          ELSE {}

Words(f) == Exists(f) /\ file[f].extracted = "words"
(* gatherContext: what the model is given, and what the steps before it    *)
(* have spent.  An image of this question that cannot be read fails the    *)
(* turn, an earlier one is left out.  The text of a file is put into the   *)
(* earlier message that carries it.  A failed search forgets what the      *)
(* rewrite spent.                                                          *)
Gather(t, spent, found) ==
  LET history == HistoryFiles(t)
      images == {f \in turn[t].files : Exists(f) /\ file[f].kind = "image"}
      plan == PlanTurnImages(images,
                {f \in history : file[f].kind = "image" /\ ~Words(f)},
                turn[t].vision # "none")
  IN  /\ turn[t].at = "started"
      /\ "refine" \in spent => History(t) # {}
      /\ IF found /\ plan \cap images \subseteq object
           THEN turn' = [turn EXCEPT ![t].at = "gathered", ![t].spent = spent,
                           ![t].images = plan \cap object,
                           ![t].texts = {f \in history : Words(f)}]
           ELSE turn' = [turn EXCEPT ![t].at = "failing"]
      /\ UNCHANGED <<attVars, open, thread, billed, stops, pressed>>

IsStopRequested(t) == <<turn[t].conv, t>> \in stops

(* The check before the first token, and the one between tokens; Redis may *)
(* not answer, which reads as no.                                          *)
CheckStop(t) ==
  /\ turn[t].at = "gathered"
  /\ \/ turn' = [turn EXCEPT ![t].at = "streaming"]
     \/ IsStopRequested(t) /\ turn' = [turn EXCEPT ![t].at = "saving", ![t].stopped = TRUE]
  /\ UNCHANGED <<attVars, open, thread, billed, stops, pressed>>

Delta(t) ==
  /\ turn[t].at = "streaming" /\ ~turn[t].answer
  /\ turn' = [turn EXCEPT ![t].answer = TRUE]
  /\ UNCHANGED <<attVars, open, thread, billed, stops, pressed>>

SeeStop(t) ==
  /\ turn[t].at = "streaming" /\ IsStopRequested(t)
  /\ turn' = [turn EXCEPT ![t].at = "saving", ![t].stopped = TRUE]
  /\ UNCHANGED <<attVars, open, thread, billed, stops, pressed>>

(* The provider is done, fails, or is cut off by the client's leaving.     *)
EndStream(t) ==
  /\ turn[t].at = "streaming"
  /\ turn' = [turn EXCEPT ![t].at = "saving"]
  /\ UNCHANGED <<attVars, open, thread, billed, stops, pressed>>

--------------------------------------------------------------------------------
(* Mutant: an answer cut short is not charged. *)
Due_Finished(t) ==
  turn[t].spent \cup IF turn[t].answer /\ ~turn[t].stopped THEN {"chat"} ELSE {}
(* What persist charges before it stores the row.                          *)
Due(t) == turn[t].spent \cup IF turn[t].answer THEN {"chat"} ELSE {}

Outstanding(t) == {i \in DOMAIN Steps : Steps[i] \in Due(t) /\ <<t, Steps[i]>> \notin billed}

(* persist, one charge after another.  A charge that is refused raises:    *)
(* nothing is stored and the stop's key is left to expire.                 *)
Charge(t, paid) ==
  /\ turn[t].at = "saving"
  /\ \E i \in Outstanding(t) :
       /\ \A j \in Outstanding(t) : i <= j
       /\ IF paid THEN billed' = billed \cup {<<t, Steps[i]>>} /\ UNCHANGED turn
                  ELSE turn' = Over(t) /\ UNCHANGED billed
  /\ UNCHANGED <<attVars, open, thread, stops, pressed>>

Status(t) == IF turn[t].stopped THEN "stopped"
             ELSE IF turn[t].answer THEN "complete" ELSE "failed"

(* persist, the row, and clearStop, which a failed search does not reach.  *)
Store(t) ==
  /\ turn[t].at \in {"saving", "failing"} /\ Outstanding(t) = {}
  /\ turn' = Over(t)
  /\ IF CanInsert(t)
       THEN /\ thread' = Inserted(t, "assistant", Status(t))
            /\ stops' = IF turn[t].at = "failing" THEN stops
                        ELSE stops \ {<<turn[t].conv, t>>}
       ELSE UNCHANGED <<thread, stops>>
  /\ UNCHANGED <<attVars, open, billed, pressed>>

--------------------------------------------------------------------------------
(* stopTurn: the conversation is what authorises it, and the message's id  *)
(* is known from the start frame on.                                       *)
PressStop(c, t) ==
  /\ c \in open /\ turn[t].at \notin {"none", "asked", "built", "conflict", "bound"}
  /\ Cardinality(pressed \cup {<<c, t>>}) <= MaxPresses
  /\ stops' = stops \cup {<<c, t>>} /\ pressed' = pressed \cup {<<c, t>>}
  /\ UNCHANGED <<attVars, open, thread, turn, billed>>

(* The key's time to live.                                                 *)
ExpireStop(c, t) ==
  /\ <<c, t>> \in stops /\ stops' = stops \ {<<c, t>>}
  /\ UNCHANGED <<attVars, open, thread, turn, billed, pressed>>

(* deleteConversation: messages and the rows of their files go with it.    *)
DeleteConversation(c) ==
  /\ c \in open
  /\ open' = open \ {c} /\ thread' = [thread EXCEPT ![c] = <<>>]
  /\ file' = [f \in Files |-> IF InConversation(f, c) THEN None ELSE file[f]]
  /\ UNCHANGED <<uploaded, object, scribe, removing, charged, turn, billed, stops, pressed>>

(* The process dies, or the client leaves before the stream: the answer is *)
(* written "whatever ended it" only from the stream on.                    *)
CrashTurn(t) ==
  /\ turn[t].at \notin {"none", "ended"}
  /\ turn' = Over(t)
  /\ UNCHANGED <<attVars, open, thread, billed, stops, pressed>>

ChtNext ==
  \/ \E t \in Turns, c \in Conversations, fs \in SUBSET Files, v \in Visions : Ask(t, c, fs, v)
  \/ \E t \in Turns : Build(t) \/ Refuse(t) \/ Bind(t)
  \/ \E t \in Turns, credential \in BOOLEAN : Start(t, credential)
  \/ \E t \in Turns, spent \in Spends, found \in BOOLEAN :
       Gather(t, spent, found)
  \/ \E t \in Turns : CheckStop(t) \/ Delta(t) \/ SeeStop(t) \/ EndStream(t)
  \/ \E t \in Turns, paid \in BOOLEAN : Charge(t, paid)
  \/ \E t \in Turns : Store(t)
  \/ \E c \in Conversations, t \in Turns : PressStop(c, t) \/ ExpireStop(c, t)
  \/ \E c \in Conversations : DeleteConversation(c)
  \/ \E t \in Turns : CrashTurn(t)
  \/ AttNext /\ UNCHANGED chtVars

ChtSpec == ChtInit /\ [][ChtNext]_<<attVars, chtVars>>

--------------------------------------------------------------------------------
Stages == {"none", "asked", "built", "conflict", "bound", "started", "gathered",
           "streaming", "saving", "failing", "ended"}
ChtTypeOK ==
  /\ AttTypeOK
  /\ open \subseteq Conversations /\ billed \subseteq Turns \X StepNames
  /\ stops \subseteq pressed /\ pressed \subseteq Conversations \X Turns
  /\ \A t \in Turns : turn[t].at \in Stages /\ turn[t].vision \in Visions

Answers(t) == {i \in DOMAIN thread[turn[t].conv] :
                 LET r == thread[turn[t].conv][i] IN r.role = "assistant" /\ r.turn = t}

(* An answer is stored once, and only when everything its making spent was *)
(* charged: a turn that was stopped, cut off or failed late is not a way   *)
(* to read for free (persist's own comments; what streamTurn says of       *)
(* failed turns is FailedTurnIsFree).  An answer reads "stopped" only where *)
(* a person asked this very turn to stop, and an answer that does not read *)
(* "failed" and was not stopped before its first word was charged as a     *)
(* chat.                                                                   *)
TurnsAreAccountedFor ==
  /\ ChtTypeOK
  /\ \A t \in Turns : turn[t].at # "none" =>
      /\ Cardinality(Answers(t)) <= 1
      /\ \A i \in Answers(t) :
           LET r == thread[turn[t].conv][i]
           IN  /\ turn[t].answer => <<t, "chat">> \in billed
               /\ \A step \in turn[t].spent : <<t, step>> \in billed
               /\ r.status = "stopped" => <<turn[t].conv, t>> \in pressed
               /\ r.status = "complete" => <<t, "chat">> \in billed
      /\ <<t, "chat">> \in billed => turn[t].answer

Sent(t) == turn[t].at \in {"bound", "started", "gathered", "streaming", "saving"}

(* A file goes where it was sent and nowhere else.  Past the binding a     *)
(* question holds each of its files, rows and objects, for as long as its  *)
(* conversation exists, whatever another send or a removal of the same     *)
(* file did meanwhile.  The model is given at most MAX_TURN_IMAGES images, *)
(* only of this conversation, none where it cannot see, and an older one   *)
(* only when every image of the question went too.                         *)
FilesGoWhereTheyWereSent ==
  /\ NoBrokenFiles
  /\ \A t \in Turns : Sent(t) =>
       /\ turn[t].conv \in open =>
            \A f \in turn[t].files : Exists(f) /\ file[f].message = t
       /\ Cardinality(turn[t].images) <= MaxTurnImages
       /\ turn[t].images # {} => turn[t].vision # "none"
       /\ turn[t].conv \in open =>
            /\ \A f \in turn[t].images \cup turn[t].texts : InConversation(f, turn[t].conv)
            /\ turn[t].images \subseteq turn[t].files
               \/ \A f \in turn[t].files : file[f].kind = "image" => f \in turn[t].images

(* "A turn that fails before `done` costs the customer nothing"            *)
(* (chat.service.ts, streamTurn): no answer that reads "failed" was        *)
(* charged for.                                                            *)
FailedTurnIsFree ==
  \A t \in Turns : turn[t].at # "none" =>
    \A i \in Answers(t) :
      thread[turn[t].conv][i].status = "failed" => \A step \in StepNames : <<t, step>> \notin billed

(* "A recording reaches the model as its transcript": the transcript of    *)
(* each recording a question carries is in what the model is given.        *)
RecordingsAreHeard ==
  \A t \in Turns : turn[t].at = "streaming" /\ turn[t].conv \in open =>
    \A f \in turn[t].files : file[f].kind = "audio" => f \in turn[t].texts
================================================================================
