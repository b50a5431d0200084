-------------------------------- MODULE Webhooks -------------------------------
(***************************************************************************)
(* One endpoint of a customer, the events fanned out to it and the jobs    *)
(* that post them, side by side (webhook.service.ts, webhook.jobs.ts).  A  *)
(* job reads the endpoint, posts, and writes the count of failures from    *)
(* what it had read.                                                       *)
(***************************************************************************)
EXTENDS Integers, FiniteSets

CONSTANTS Deliveries,   \* events emitted to the endpoint
          Attempts,     \* attempts of a job: 5 in DEFAULT_JOB_OPTIONS
          MaxStalled,   \* BullMQ: how often a job may lose its worker
          FailureLimit, \* FAILURES_BEFORE_DISABLE
          MaxEdits,     \* bound: edits by the workspace
          MaxCrashes,   \* bound: processes lost
          None

VARIABLES endpoint,   \* the webhook_endpoint row, None once deleted
          editor,     \* what an update in progress has read: enabled, or None
          delivery,   \* progress of each event
          tries,      \* attempts of its job that have begun
          stalled,    \* workers its job has lost
          reading,    \* what the attempt in progress read and was answered
          accepted,   \* deliveries the receiver answered with a 2xx
          skipped,    \* deliveries that met an endpoint switched off
          streak,     \* history: failures recorded since the last success
          failures,   \* history: failures recorded since the last edit
          overlapped, \* history: attempts or edits of the endpoint overlapped
          edits, crashes

whkVars == <<endpoint, editor, delivery, tries, stalled, reading, accepted,
             skipped, streak, failures, overlapped, edits, crashes>>

WebhookEndpointRow == [enabled : BOOLEAN, failureCount : Nat, disabled : BOOLEAN]
Progress == {"none", "row", "waiting", "active", "completed", "failed", "lost"}
Reading == [row : WebhookEndpointRow, answer : {"none", "ok", "error"}]

WhkTypeOK ==
  /\ endpoint \in WebhookEndpointRow \cup {None} /\ editor \in BOOLEAN \cup {None}
  /\ delivery \in [Deliveries -> Progress]
  /\ tries \in [Deliveries -> 0 .. Attempts]
  /\ stalled \in [Deliveries -> 0 .. MaxStalled + 1]
  /\ reading \in [Deliveries -> Reading \cup {None}]
  /\ accepted \subseteq Deliveries /\ skipped \subseteq Deliveries
  /\ streak \in Nat /\ failures \in Nat /\ overlapped \in BOOLEAN
  /\ edits \in 0 .. MaxEdits /\ crashes \in 0 .. MaxCrashes

WhkInit ==
  /\ endpoint = [enabled |-> TRUE, failureCount |-> 0, disabled |-> FALSE]
  /\ editor = None /\ delivery = [d \in Deliveries |-> "none"]
  /\ tries = [d \in Deliveries |-> 0] /\ stalled = [d \in Deliveries |-> 0]
  /\ reading = [d \in Deliveries |-> None]
  /\ accepted = {} /\ skipped = {} /\ streak = 0 /\ failures = 0
  /\ overlapped = FALSE /\ edits = 0 /\ crashes = 0

Active == {d \in Deliveries : delivery[d] = "active"}

--------------------------------------------------------------------------------
(* update: whether the endpoint was off is read before the row is written. *)
BeginUpdate ==
  /\ endpoint # None /\ editor = None /\ edits < MaxEdits /\ edits' = edits + 1
  /\ editor' = endpoint.enabled
  /\ UNCHANGED <<endpoint, delivery, tries, stalled, reading, accepted, skipped,
                 streak, failures, overlapped, crashes>>

(* Switching an endpoint on by hand clears its count.                      *)
Edited(row, enabled) ==
  IF enabled /\ ~editor
    THEN [enabled |-> TRUE, failureCount |-> 0, disabled |-> FALSE]
    ELSE [row EXCEPT !.enabled = enabled]

Update(enabled) ==
  /\ editor # None /\ editor' = None
  /\ endpoint' = IF endpoint = None THEN None ELSE Edited(endpoint, enabled)
  /\ overlapped' = (overlapped \/ Active # {}
                    \/ (endpoint # None /\ editor # endpoint.enabled))
  /\ IF enabled /\ ~editor THEN streak' = 0 /\ failures' = 0
     ELSE UNCHANGED <<streak, failures>>
  /\ UNCHANGED <<delivery, tries, stalled, reading, accepted, skipped, edits,
                 crashes>>

(* remove: the deliveries' rows go with the endpoint, their jobs do not.   *)
RemoveEndpoint ==
  /\ endpoint # None /\ edits < MaxEdits /\ edits' = edits + 1 /\ endpoint' = None
  /\ UNCHANGED <<editor, delivery, tries, stalled, reading, accepted, skipped,
                 streak, failures, overlapped, crashes>>

--------------------------------------------------------------------------------
(* emit, for an endpoint that is enabled and subscribed: the row ...       *)
Emit(d) ==
  /\ delivery[d] = "none" /\ endpoint # None /\ endpoint.enabled
  /\ delivery' = [delivery EXCEPT ![d] = "row"]
  /\ UNCHANGED <<endpoint, editor, tries, stalled, reading, accepted, skipped,
                 streak, failures, overlapped, edits, crashes>>

(* ... and then its job, under the delivery's id.                          *)
EnqueueDelivery(d) ==
  /\ delivery[d] = "row" /\ delivery' = [delivery EXCEPT ![d] = "waiting"]
  /\ UNCHANGED <<endpoint, editor, tries, stalled, reading, accepted, skipped,
                 streak, failures, overlapped, edits, crashes>>

(* Redis refuses, or the process dies: emit swallows it.                   *)
EmitFails(d) ==
  /\ delivery[d] = "row" /\ crashes < MaxCrashes /\ crashes' = crashes + 1
  /\ delivery' = [delivery EXCEPT ![d] = "lost"]
  /\ UNCHANGED <<endpoint, editor, tries, stalled, reading, accepted, skipped,
                 streak, failures, overlapped, edits>>

--------------------------------------------------------------------------------
(* The job throws: the queue tries again while attempts are left.          *)
Thrown(made) == IF made < Attempts THEN "waiting" ELSE "failed"

(* deliver, up to the post: a missing endpoint throws, one that is off     *)
(* ends the job, and any other is posted to.                               *)
BeginAttempt(d) ==
  /\ delivery[d] = "waiting" /\ tries' = [tries EXCEPT ![d] = @ + 1]
  /\ IF endpoint = None
       THEN /\ delivery' = [delivery EXCEPT ![d] = Thrown(tries[d] + 1)]
            /\ UNCHANGED <<reading, skipped>>
     ELSE IF ~endpoint.enabled
       THEN /\ delivery' = [delivery EXCEPT ![d] = "completed"]
            /\ skipped' = skipped \cup {d} /\ UNCHANGED reading
     ELSE /\ delivery' = [delivery EXCEPT ![d] = "active"]
          /\ reading' = [reading EXCEPT ![d] = [row |-> endpoint, answer |-> "none"]]
          /\ UNCHANGED skipped
  /\ overlapped' = (overlapped \/ Active # {})
  /\ UNCHANGED <<endpoint, editor, stalled, accepted, streak, failures, edits, crashes>>

(* The receiver's answer: a 2xx, anything else, or none in time.           *)
Post(d, answer) ==
  /\ delivery[d] = "active" /\ reading[d].answer = "none"
  /\ reading' = [reading EXCEPT ![d].answer = answer]
  /\ accepted' = IF answer = "ok" THEN accepted \cup {d} ELSE accepted
  /\ UNCHANGED <<endpoint, editor, delivery, tries, stalled, skipped, streak,
                 failures, overlapped, edits, crashes>>

(* A 2xx: the attempt's row and a count of zero.                           *)
RecordSuccess(d) ==
  /\ delivery[d] = "active" /\ reading[d].answer = "ok"
  /\ endpoint' = IF endpoint = None THEN None
                 ELSE [endpoint EXCEPT !.failureCount = 0]
  /\ streak' = 0
  /\ delivery' = [delivery EXCEPT ![d] = IF endpoint = None THEN Thrown(tries[d])
                                         ELSE "completed"]
  /\ reading' = [reading EXCEPT ![d] = None]
  /\ UNCHANGED <<editor, tries, stalled, accepted, skipped, failures,
                 overlapped, edits, crashes>>

(* recordFailure: the count read before the post, plus one.                *)
Counted(row, n) ==
  [row EXCEPT !.failureCount = n, !.enabled = @ /\ n < FailureLimit,
              !.disabled = @ \/ n >= FailureLimit]

RecordFailure(d) ==
  /\ delivery[d] = "active" /\ reading[d].answer = "error"
  /\ endpoint' = IF endpoint = None THEN None
                 ELSE Counted(endpoint, reading[d].row.failureCount + 1)
  /\ streak' = streak + 1 /\ failures' = failures + 1
  /\ delivery' = [delivery EXCEPT ![d] = Thrown(tries[d])]
  /\ reading' = [reading EXCEPT ![d] = None]
  /\ UNCHANGED <<editor, tries, stalled, accepted, skipped, overlapped, edits,
                 crashes>>

(* The worker dies: the queue finds the job stalled and gives it to        *)
(* another worker, MaxStalled times and with the attempt that did not end  *)
(* not counted.  Once more, and the job has failed.                        *)
AttemptDies(d) ==
  /\ delivery[d] = "active" /\ crashes < MaxCrashes /\ crashes' = crashes + 1
  /\ stalled' = [stalled EXCEPT ![d] = @ + 1]
  /\ IF stalled[d] < MaxStalled
       THEN /\ delivery' = [delivery EXCEPT ![d] = "waiting"]
            /\ tries' = [tries EXCEPT ![d] = @ - 1]
       ELSE delivery' = [delivery EXCEPT ![d] = "failed"] /\ UNCHANGED tries
  /\ reading' = [reading EXCEPT ![d] = None]
  /\ UNCHANGED <<endpoint, editor, accepted, skipped, streak, failures, overlapped,
                 edits>>

Work(d) ==
  \/ BeginAttempt(d) \/ (\E answer \in {"ok", "error"} : Post(d, answer))
  \/ RecordSuccess(d) \/ RecordFailure(d)

WhkNext ==
  \/ BeginUpdate \/ RemoveEndpoint
  \/ \E enabled \in BOOLEAN : Update(enabled)
  \/ \E d \in Deliveries :
       Emit(d) \/ EnqueueDelivery(d) \/ EmitFails(d) \/ Work(d) \/ AttemptDies(d)

--------------------------------------------------------------------------------
(* A job that completed was accepted or met an endpoint switched off, and  *)
(* one that failed used all its attempts or lost its worker once too       *)
(* often.  An endpoint switched off for failing has had at least the limit *)
(* of failures since it was switched on by hand; in a row, when no two     *)
(* attempts and no edit overlapped.                                        *)
SwitchedOffForCause ==
  /\ WhkTypeOK
  /\ \A d \in Deliveries :
       /\ delivery[d] = "completed" => d \in accepted \cup skipped
       /\ delivery[d] = "failed" => tries[d] = Attempts \/ stalled[d] > MaxStalled
  /\ endpoint # None /\ endpoint.disabled /\ ~overlapped =>
       /\ streak >= FailureLimit /\ failures >= FailureLimit

(* An event whose job was queued is accepted, skipped or given up.         *)
QueuedIsSettled ==
  \A d \in Deliveries :
    (delivery[d] = "waiting") ~> (delivery[d] \in {"completed", "failed"})
================================================================================
