----------------------------- MODULE Webhooks -----------------------------
(***************************************************************************)
(* One webhook and the deliveries of events to it                          *)
(* (internal/webhooks/service.go).  A publisher delivers in its own        *)
(* goroutine, and so does each request of the owner: all of them overlap,  *)
(* and each saves the copy of the record it has loaded, or fails to (its   *)
(* context may have ended), which a delivery does not even notice.         *)
(* Time is counted in minutes, and passes up to the moment before or the   *)
(* moment at which the webhook may be tried again.                         *)
(***************************************************************************)
EXTENDS Naturals

CONSTANTS
  Publishers,   \* goroutines that deliver an event
  Editors,      \* requests of the owner
  MaxMinute,    \* bound of the clock
  MaxTries      \* bound of the events delivered

ASSUME WebhookAssumption == MaxMinute \in Nat /\ MaxTries \in Nat

VARIABLES
  hook,       \* the webhook's record
  delivery,   \* the publishers: label, and the copy of the record
  edit,       \* the owner's requests: label, operation, copy
  owner,      \* history: what the owner has last saved, or the removal
  minute,     \* the clock
  tries,      \* how many events have been delivered
  streak,     \* history: failures recorded since the last recorded success or update
  failedAt,   \* history: when the last failure was recorded
  crossed     \* history: the kinds of calls that have overlapped, pair by pair

webhookVars == <<hook, delivery, edit, minute, tries, owner, streak, failedAt, crossed>>

\* No time: NextAttemptAt is nil.
Never == MaxMinute + 1000

NoHook == [exists |-> FALSE, url |-> "first", fails |-> 0, next |-> Never]

NewHook == [NoHook EXCEPT !.exists = TRUE]

NoDelivery == [pc |-> "idle", copy |-> NoHook]

NoEdit == [pc |-> "idle", op |-> "none", copy |-> NoHook]

Minute == 1
Hour == 60

\* Mutant: the delay is not doubled.
BackoffConstant(failures) == IF failures <= 0 THEN 0 ELSE Minute

\* backoffFor: doubled for every failure after the first, an hour at most.
BackoffFor(failures) ==
  IF failures <= 0 THEN 0
  ELSE LET delay[n \in 1 .. failures] ==
             IF n = 1 THEN Minute
             ELSE IF 2 * delay[n - 1] >= Hour THEN Hour ELSE 2 * delay[n - 1]
       IN delay[failures]

Goto(p, label) == delivery' = [delivery EXCEPT ![p].pc = label]

-----------------------------------------------------------------------------
\* DeliverEvent lists the webhooks and finds this one to match.
DeliverEvent(p) ==
  /\ delivery[p].pc = "idle"
  /\ hook.exists
  /\ tries < MaxTries
  /\ tries' = tries + 1
  /\ delivery' = [delivery EXCEPT ![p] = [pc |-> "listed", copy |-> hook]]
  /\ UNCHANGED <<hook, edit, minute, owner, streak, failedAt>>

\* shouldAttempt, once the webhooks listed before this one have answered.
ShouldAttempt(p) ==
  LET r == delivery[p].copy IN
  /\ delivery[p].pc = "listed"
  /\ IF r.next = Never \/ minute >= r.next THEN Goto(p, "send")
     ELSE delivery' = [delivery EXCEPT ![p] = NoDelivery]
  /\ UNCHANGED <<hook, edit, minute, tries, owner, streak, failedAt>>

\* deliver: the answer is below 400, or an error or anything else; no request can
\* be made of a malformed address, and nothing is recorded of it.
Send(p) ==
  /\ delivery[p].pc = "send"
  /\ IF delivery[p].copy.url = "malformed"
     THEN delivery' = [delivery EXCEPT ![p] = NoDelivery]
     ELSE \E outcome \in {"success", "failure"} : Goto(p, outcome)
  /\ UNCHANGED <<hook, edit, minute, tries, owner, streak, failedAt>>

\* recordSuccess and recordFailure ignore what Save returns: the context of the
\* publisher may have ended, and the record then stays as it is.
Unrecorded(p) ==
  /\ delivery[p].pc \in {"success", "failure"}
  /\ delivery' = [delivery EXCEPT ![p] = NoDelivery]
  /\ UNCHANGED <<hook, edit, minute, tries, owner, streak, failedAt>>

RecordSuccess(p) ==
  /\ delivery[p].pc = "success"
  /\ hook' = [delivery[p].copy EXCEPT !.fails = 0, !.next = Never]
  /\ delivery' = [delivery EXCEPT ![p] = NoDelivery]
  /\ streak' = 0
  /\ UNCHANGED <<edit, minute, tries, owner, failedAt>>

\* Mutant: the record is left without the time of its next attempt.
RecordCountOnly(p) ==
  /\ delivery[p].pc = "failure"
  /\ hook' = [delivery[p].copy EXCEPT !.fails = @ + 1]
  /\ delivery' = [delivery EXCEPT ![p] = NoDelivery]
  /\ streak' = streak + 1
  /\ failedAt' = minute
  /\ UNCHANGED <<edit, minute, tries, owner>>

RecordFailure(p) ==
  LET r == delivery[p].copy IN
  /\ delivery[p].pc = "failure"
  /\ hook' = [r EXCEPT !.fails = @ + 1, !.next = minute + BackoffFor(r.fails + 1)]
  /\ delivery' = [delivery EXCEPT ![p] = NoDelivery]
  /\ streak' = streak + 1
  /\ failedAt' = minute
  /\ UNCHANGED <<edit, minute, tries, owner>>

-----------------------------------------------------------------------------
\* The address after an update: a request without one keeps the old.
Address(url) == IF url = "keep" THEN hook.url ELSE url

\* Mutant: what the old address answered still counts.
UpdateKeepsFailures(e, url) ==
  /\ edit[e].pc = "idle"
  /\ hook.exists
  /\ edit' = [edit EXCEPT ![e] = [pc |-> "save", op |-> "update",
                                  copy |-> [hook EXCEPT !.url = Address(url)]]]
  /\ UNCHANGED <<hook, delivery, minute, tries, owner, streak, failedAt>>

\* Update loads the record, changes it and forgets the failures ...
UpdateWebhook(e, url) ==
  /\ edit[e].pc = "idle"
  /\ hook.exists
  /\ edit' = [edit EXCEPT ![e] = [pc |-> "save", op |-> "update",
                                  copy |-> [hook EXCEPT !.url = Address(url), !.fails = 0,
                                                        !.next = Never]]]
  /\ UNCHANGED <<hook, delivery, minute, tries, owner, streak, failedAt>>

\* ... and saves it, whether or not the record is still there.
SaveWebhook(e) ==
  /\ edit[e].pc = "save"
  /\ hook' = edit[e].copy
  /\ owner' = edit[e].copy
  /\ edit' = [edit EXCEPT ![e] = NoEdit]
  /\ streak' = 0
  /\ UNCHANGED <<delivery, minute, tries, failedAt>>

\* Delete loads the record to see whose it is ...
DeleteWebhook(e) ==
  /\ edit[e].pc = "idle"
  /\ hook.exists
  /\ edit' = [edit EXCEPT ![e] = [pc |-> "delete", op |-> "delete", copy |-> NoHook]]
  /\ UNCHANGED <<hook, delivery, minute, tries, owner, streak, failedAt>>

\* ... and removes it.
RemoveWebhook(e) ==
  /\ edit[e].pc = "delete"
  /\ hook.exists
  /\ hook' = NoHook
  /\ owner' = NoHook
  /\ edit' = [edit EXCEPT ![e] = NoEdit]
  /\ streak' = 0
  /\ UNCHANGED <<delivery, minute, tries, failedAt>>

\* The request ends with an error: the repository refuses, or has nothing to remove.
EditFails(e) ==
  /\ edit[e].pc # "idle"
  /\ edit' = [edit EXCEPT ![e] = NoEdit]
  /\ UNCHANGED <<hook, delivery, minute, tries, owner, streak, failedAt>>

Moments == IF hook.next = Never THEN {minute + 1} ELSE {hook.next - 1, hook.next}

PassTime ==
  /\ \E m \in Moments : m > minute /\ m <= MaxMinute /\ minute' = m
  /\ UNCHANGED <<hook, delivery, edit, tries, owner, streak, failedAt>>

-----------------------------------------------------------------------------
\* The kinds of two calls that overlap in this state; one kind, if both are of it.
Crossing ==
  LET delivering == {p \in Publishers : delivery[p].pc # "idle"}
      editing == {e \in Editors : edit[e].pc # "idle"}
  IN {{"deliver"} : p \in {p \in delivering : delivering # {p}}}
     \union {{"deliver", edit[e].op} : e \in {e \in editing : delivering # {}}}
     \union UNION {{{edit[e].op, edit[f].op} : f \in editing \ {e}} : e \in editing}

WebhookInit ==
  /\ hook = NewHook /\ owner = NewHook
  /\ delivery = [p \in Publishers |-> NoDelivery]
  /\ edit = [e \in Editors |-> NoEdit]
  /\ minute = 0 /\ tries = 0 /\ streak = 0 /\ failedAt = 0
  /\ crossed = {}

WebhookNext ==
  /\ \/ \E p \in Publishers : \/ DeliverEvent(p) \/ ShouldAttempt(p) \/ Send(p)
                              \/ RecordSuccess(p) \/ RecordFailure(p) \/ Unrecorded(p)
     \/ \E e \in Editors :
          \/ \E url \in {"keep", "second", "malformed"} : UpdateWebhook(e, url)
          \/ SaveWebhook(e) \/ DeleteWebhook(e) \/ RemoveWebhook(e) \/ EditFails(e)
     \/ PassTime
  /\ crossed' = crossed \union Crossing'

WebhookSpec == WebhookInit /\ [][WebhookNext]_webhookVars

-----------------------------------------------------------------------------
\* What "retry backoff" promises: 1, 2, 4 ... minutes, at most an hour.
Patience(n) == IF n = 0 THEN 0 ELSE IF n > 6 THEN Hour ELSE <<1, 2, 4, 8, 16, 32>>[n]

\* Types of the record and the calls.  A record waits for a next attempt exactly
\* when its last delivery failed, whatever calls have overlapped.
WebhookTypeOK ==
  /\ hook \in [exists : BOOLEAN, url : {"first", "second", "malformed"},
               fails : 0 .. MaxTries, next : (0 .. MaxMinute + Hour) \union {Never}]
  /\ \A p \in Publishers :
       delivery[p].pc \in {"idle", "listed", "send", "success", "failure"}
  /\ hook.fails = 0 <=> hook.next = Never

\* Each delivery has been alone with the record, but for deletions.
DeliveriesApart == {"deliver"} \notin crossed /\ {"deliver", "update"} \notin crossed

\* At most deletions have met, and only each other.
CallsApart == crossed \subseteq {{"delete"}}

\* DeliverEvent, recordFailure: types; and after n failures in a row that were recorded a
\* webhook is left alone for the n-th delay, unless deliveries to it have overlapped with
\* each other (each then counts from the copy it has loaded) or with an update.  A failure
\* that is not recorded, because the publisher's context had ended, asks for no delay.
BackoffKept ==
  /\ WebhookTypeOK
  /\ DeliveriesApart =>
       \A p \in Publishers :
         delivery[p].pc = "send" /\ streak > 0 => minute >= failedAt + Patience(streak)

\* Update, Delete: what the owner has saved stays, a removed webhook stays removed, and
\* after an update the next event is delivered at once, unless calls have overlapped: a
\* delivery, or an update, saves the record it has loaded over what was saved or removed
\* meanwhile.
OwnerWins ==
  CallsApart =>
    /\ hook.exists = owner.exists /\ hook.url = owner.url
    /\ hook.next = Never <=> streak = 0
=============================================================================
