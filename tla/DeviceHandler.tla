--------------------------- MODULE DeviceHandler ---------------------------
(***************************************************************************)
(* What the handler of device messages does with them                      *)
(* (internal/protocol/device/handler.go) and the session loops that call   *)
(* it (internal/protocol/tcp/session_loop.go).  One handler serves all     *)
(* sessions.  A description may start a firmware update, but only after    *)
(* its acknowledgement has been written: the device waits in               *)
(* pendingUpdates, under the id of the message, for the goroutine that     *)
(* every answered message starts.                                          *)
(***************************************************************************)
EXTENDS Naturals, FiniteSets

CONSTANTS
  Sessions,     \* session loops, each of a device of its own
  MessageIDs,   \* the ids devices give their messages
  MaxMessages   \* bound of the messages of a session

ASSUME MessagesAssumption == MaxMessages \in Nat

VARIABLES
  loop,            \* session loops: label, and the message being handled
  received,        \* how many messages a session has read
  pendingUpdates,  \* message id -> the description whose device waits, or Nobody
  after,           \* AfterResponse goroutines that have still to run: messages
  checking,        \* devices taken from pendingUpdates, to be checked
  answered,        \* history: messages whose answer has been written
  checked          \* history: descriptions whose device has been checked

handlerVars == <<loop, received, pendingUpdates, after, checking, answered, checked>>

\* A message: its session, its place there, its kind and its id.
Message(s, k, kind, id) == [session |-> s, number |-> k, kind |-> kind, id |-> id]

Nobody == [session |-> "none", number |-> 0, kind |-> "none", id |-> 0]

Idle == [pc |-> "read", message |-> Nobody]

\* What Handle makes of a packet: a description, an event, a ping or another packet
\* that is just acknowledged, or one that needs no answer.
MessageKinds == {"description", "event", "plain", "unanswered"}

GoTo(s, label) == loop' = [loop EXCEPT ![s].pc = label]

-----------------------------------------------------------------------------
\* The loop reads a packet that its client does not take for an answer.
ReadMessage(s, kind, id) ==
  /\ loop[s].pc = "read"
  /\ received[s] < MaxMessages
  /\ received' = [received EXCEPT ![s] = @ + 1]
  /\ loop' = [loop EXCEPT ![s] = [pc |-> "handle",
                                  message |-> Message(s, received'[s], kind, id)]]
  /\ UNCHANGED <<pendingUpdates, after, checking, answered, checked>>

\* Handle, of what stores nothing; a packet that needs no answer ends here.
HandleOther(s) ==
  /\ loop[s].pc = "handle"
  /\ loop[s].message.kind \in {"plain", "unanswered"}
  /\ IF loop[s].message.kind = "unanswered" THEN loop' = [loop EXCEPT ![s] = Idle]
     ELSE GoTo(s, "answer")
  /\ UNCHANGED <<received, pendingUpdates, after, checking, answered, checked>>

\* Handle: UpdateDescription, or Publish; an error of either ends the session.
HandleStored(s) ==
  /\ loop[s].pc = "handle"
  /\ \/ loop[s].message.kind = "description" /\ GoTo(s, "queue")
     \/ loop[s].message.kind = "event" /\ GoTo(s, "answer")
     \/ loop[s].message.kind \in {"description", "event"} /\ GoTo(s, "ended")
  /\ UNCHANGED <<received, pendingUpdates, after, checking, answered, checked>>

\* Mutant: the update is started at once.
QueueAtOnce(s) ==
  /\ loop[s].pc = "queue"
  /\ checking' = checking \union {loop[s].message}
  /\ GoTo(s, "answer")
  /\ UNCHANGED <<received, pendingUpdates, after, answered, checked>>

\* Mutant: the id of another message is used.
QueueUnderFirst(s) ==
  LET m == loop[s].message IN
  /\ loop[s].pc = "queue"
  /\ pendingUpdates' = [pendingUpdates EXCEPT ![CHOOSE i \in MessageIDs : TRUE] = m]
  /\ GoTo(s, "answer")
  /\ UNCHANGED <<received, after, checking, answered, checked>>

\* queueFirmwareUpdate remembers the device as it was saved.
QueueFirmwareUpdate(s) ==
  LET m == loop[s].message IN
  /\ loop[s].pc = "queue"
  /\ pendingUpdates' = [pendingUpdates EXCEPT ![m.id] = m]
  /\ GoTo(s, "answer")
  /\ UNCHANGED <<received, after, checking, answered, checked>>

\* Mutant: nothing is run after a description's answer.
WriteOnly(s) ==
  LET m == loop[s].message IN
  /\ loop[s].pc = "answer"
  /\ answered' = answered \union {m}
  /\ after' = IF m.kind = "description" THEN after ELSE after \union {m}
  /\ loop' = [loop EXCEPT ![s] = Idle]
  /\ UNCHANGED <<received, pendingUpdates, checking, checked>>

\* The answer is written, and AfterResponse started in a goroutine ...
WriteAnswer(s) ==
  LET m == loop[s].message IN
  /\ loop[s].pc = "answer"
  /\ answered' = answered \union {m}
  /\ after' = after \union {m}
  /\ loop' = [loop EXCEPT ![s] = Idle]
  /\ UNCHANGED <<received, pendingUpdates, checking, checked>>

\* ... or the write fails and the session ends; its entry stays behind.
WriteFails(s) ==
  /\ loop[s].pc = "answer"
  /\ GoTo(s, "ended")
  /\ UNCHANGED <<received, pendingUpdates, after, checking, answered, checked>>

\* AfterResponse: the device that waits under the message's id is taken, if one does.
TakePendingUpdate(m) ==
  /\ m \in after
  /\ after' = after \ {m}
  /\ checking' = checking \union ({pendingUpdates[m.id]} \ {Nobody})
  /\ pendingUpdates' = [pendingUpdates EXCEPT ![m.id] = Nobody]
  /\ UNCHANGED <<loop, received, answered, checked>>

\* CheckAndStartProductFirmwareUpdate: StarterStep of FirmwareCatalog.
CheckFirmware(m) ==
  /\ m \in checking
  /\ checking' = checking \ {m}
  /\ checked' = checked \union {m}
  /\ UNCHANGED <<loop, received, pendingUpdates, after, answered>>

HandlerInit ==
  /\ loop = [s \in Sessions |-> Idle]
  /\ received = [s \in Sessions |-> 0]
  /\ pendingUpdates = [i \in MessageIDs |-> Nobody]
  /\ after = {} /\ checking = {} /\ answered = {} /\ checked = {}

LoopStep(s) == \/ HandleOther(s) \/ HandleStored(s) \/ QueueFirmwareUpdate(s)
               \/ WriteAnswer(s) \/ WriteFails(s)

GoroutineStep == (\E m \in after : TakePendingUpdate(m)) \/ (\E m \in checking : CheckFirmware(m))

HandlerNext ==
  \/ \E s \in Sessions :
       \/ \E kind \in MessageKinds, id \in MessageIDs : ReadMessage(s, kind, id)
       \/ LoopStep(s)
  \/ GoroutineStep

\* Loops and goroutines run; devices need not send anything.
HandlerFairness ==
  /\ \A s \in Sessions : WF_handlerVars(LoopStep(s))
  /\ WF_handlerVars(GoroutineStep)

HandlerSpec == HandlerInit /\ [][HandlerNext]_handlerVars /\ HandlerFairness

-----------------------------------------------------------------------------
Messages == {loop[s].message : s \in Sessions} \union after \union checking
              \union answered \union checked
              \union {pendingUpdates[i] : i \in MessageIDs}

\* The messages under whose id some other message has been sent, by any device.
SharedIDs == {m.id : m \in {x \in Messages : \E y \in Messages :
                              x # y /\ x # Nobody /\ x.id = y.id}}

\* Types; an entry of pendingUpdates is a description, under its id.
HandlerTypeOK ==
  /\ \A s \in Sessions : /\ received[s] \in 0 .. MaxMessages
                         /\ loop[s].pc \in {"read", "handle", "queue", "answer", "ended"}
  /\ \A i \in MessageIDs : pendingUpdates[i] # Nobody =>
       pendingUpdates[i].id = i /\ pendingUpdates[i].kind = "description"

\* AfterResponse: types; and an update that a description leads to starts only when the device has
\* its acknowledgement, unless another message has the description's id.
CheckAfterAnswer ==
  /\ HandlerTypeOK
  /\ \A m \in checking \union checked :
       m.kind = "description" /\ (m.id \notin SharedIDs => m \in answered)

\* Every acknowledged description has its device checked for an update, unless another
\* message has its id.
DescriptionsChecked ==
  \A s \in Sessions, k \in 1 .. MaxMessages, i \in MessageIDs :
    LET m == Message(s, k, "description", i) IN
    m \in answered ~> m \in checked \/ i \in SharedIDs
=============================================================================
