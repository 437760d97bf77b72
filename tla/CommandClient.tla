---------------------------- MODULE CommandClient ----------------------------
(***************************************************************************)
(* Commands to one device: the table of pending requests that every        *)
(* connection's Client keeps (internal/protocol/tcp/client.go), the        *)
(* registry slot that says which client commands go to (registry.go) and   *)
(* the session loop that hands the device's answers to the waiting         *)
(* requests (session_loop.go).                                             *)
(*                                                                         *)
(* Requests are HTTP requests and flash operations, each a goroutine.  The *)
(* device may have several connections at once: a new one replaces the old *)
(* one in the registry, and the end of either empties the slot.            *)
(*                                                                         *)
(* SendRequest derives the token from the message id, and both tables are  *)
(* written together, so one table indexed by the id stands for the two.    *)
(***************************************************************************)
EXTENDS Naturals, FiniteSets

CONSTANTS
  Clients,      \* the device's connections, each with its Client
  Requests,     \* the commands
  MaxID,        \* the largest message id, 0xffff in the code
  Starts,       \* values of nextID that earlier, finished requests left behind
  SeparateIds   \* the message ids of the device's separate responses

ASSUME MaxIDAssumption == MaxID \in Nat \ {0}
ASSUME IdsAssumption ==
  /\ Starts \subseteq 1 .. MaxID
  /\ SeparateIds \subseteq 0 .. MaxID
ASSUME DistinctAssumption ==
  /\ "none" \notin Clients
  /\ Requests \intersect {"none", "answer", "offline", "timeout", "error"} = {}

VARIABLES
  conn,      \* each connection: not yet open, live, or on its way down
  current,   \* the registry's client for the device
  nextID,    \* Client.nextID
  pending,   \* Client.pending and Client.pendingByToken
  chan,      \* each request's response channel, with its buffer of one
  req,       \* the requests: program counter, client, id, context, result
  sent,      \* the requests whose frame was written to a connection
  loop,      \* the session loops: reading, or about to deliver a packet
  aborts,    \* what AbortDeviceFlash was called for
  panicked   \* a send on a closed channel has ended the process

vars == <<conn, current, nextID, pending, chan, req, sent, loop, aborts, panicked>>

Ids == 0 .. MaxID

Labels == {"idle", "id", "wrap", "register", "send", "write", "wait", "remove", "done"}

\* What SendRequest returns: the request the answer was meant for, or an error.
Results == Requests \union {"none", "offline", "timeout", "error"}

\* A session loop's packet in hand: the channel it was matched with, and the
\* request the device answers with it.
Reading == [to |-> "none", answers |-> "none"]

At(r, label) == req[r].pc = label

Goto(r, label) == req' = [req EXCEPT ![r].pc = label]

Return(r, label, result) ==
  req' = [req EXCEPT ![r] = [@ EXCEPT !.pc = label, !.result = result]]

-----------------------------------------------------------------------------
(***************************************************************************)
(* Requests                                                                *)
(***************************************************************************)
\* Mutant: a device that is offline is not noticed.
GetClientUnchecked(r) ==
  /\ At(r, "idle")
  /\ req' = [req EXCEPT ![r] = [@ EXCEPT !.pc = "id", !.client = current]]
  /\ UNCHANGED <<conn, current, nextID, pending, chan, sent, loop, aborts, panicked>>

\* The command looks the client up in the registry, once.
GetClient(r) ==
  /\ At(r, "idle")
  /\ \/ current = "none" /\ Return(r, "done", "offline")
     \/ /\ current # "none"
        /\ req' = [req EXCEPT ![r] = [@ EXCEPT !.pc = "id", !.client = current]]
  /\ UNCHANGED <<conn, current, nextID, pending, chan, sent, loop, aborts, panicked>>

\* Mutant: the counter is read, not incremented.
NextMessageIDLoad(r) ==
  LET k == req[r].client IN
  /\ At(r, "id")
  /\ req' = [req EXCEPT ![r] = [@ EXCEPT !.pc = "register", !.id = nextID[k]]]
  /\ UNCHANGED <<conn, current, nextID, pending, chan, sent, loop, aborts, panicked>>

\* nextMessageID: one atomic addition; past MaxID the counter is reset by a
\* second atomic operation.
NextMessageID(r) ==
  LET k == req[r].client
      next == nextID[k] + 1
  IN
  /\ At(r, "id")
  /\ nextID' = [nextID EXCEPT ![k] = next]
  /\ \/ next > MaxID /\ Goto(r, "wrap")
     \/ /\ next <= MaxID
        /\ req' = [req EXCEPT ![r] = [@ EXCEPT !.pc = "register", !.id = next]]
  /\ UNCHANGED <<conn, current, pending, chan, sent, loop, aborts, panicked>>

WrapMessageID(r) ==
  /\ At(r, "wrap")
  /\ nextID' = [nextID EXCEPT ![req[r].client] = 1]
  /\ req' = [req EXCEPT ![r] = [@ EXCEPT !.pc = "register", !.id = 1]]
  /\ UNCHANGED <<conn, current, pending, chan, sent, loop, aborts, panicked>>

RegisterPending(r) ==
  /\ At(r, "register")
  /\ pending' = [pending EXCEPT ![req[r].client][req[r].id] = r]
  /\ Goto(r, "send")
  /\ UNCHANGED <<conn, current, nextID, chan, sent, loop, aborts, panicked>>

\* SendMessage looks at the context once, before it writes.
SendMessage(r) ==
  /\ At(r, "send")
  /\ \/ req[r].ctx = "live" /\ Goto(r, "write")
     \/ req[r].ctx = "ended" /\ Return(r, "remove", "error")
  /\ UNCHANGED <<conn, current, nextID, pending, chan, sent, loop, aborts, panicked>>

\* writeFrame waits for the client's writeMutex and then for the connection, which has
\* no write deadline: for as long as the device does not read, whatever the context.
\* It fails on a connection that is closed or broken; one that is going down may still
\* take the frame.
WriteFrame(r) ==
  /\ At(r, "write")
  /\ \/ /\ conn[req[r].client] # "closed"
        /\ sent' = sent \union {r}
        /\ Goto(r, "wait")
     \/ Return(r, "remove", "error") /\ UNCHANGED sent
  /\ UNCHANGED <<conn, current, nextID, pending, chan, loop, aborts, panicked>>

\* Mutant: only the channel is waited for.
AwaitChannel(r) ==
  /\ At(r, "wait")
  /\ \/ chan[r].buf # "none" /\ Return(r, "remove", chan[r].buf)
     \/ chan[r].buf = "none" /\ chan[r].closed /\ Return(r, "remove", "offline")
  /\ UNCHANGED <<conn, current, nextID, pending, chan, sent, loop, aborts, panicked>>

\* Mutant: a request that times out closes its channel.
AwaitAndClose(r) ==
  /\ At(r, "wait")
  /\ \/ /\ req[r].ctx = "ended"
        /\ Return(r, "remove", "timeout")
        /\ chan' = [chan EXCEPT ![r].closed = TRUE]
     \/ /\ chan[r].buf # "none"
        /\ Return(r, "remove", chan[r].buf)
        /\ UNCHANGED chan
  /\ UNCHANGED <<conn, current, nextID, pending, sent, loop, aborts, panicked>>

\* The select of SendRequest: any branch that is ready may be taken.
AwaitResponse(r) ==
  /\ At(r, "wait")
  /\ \/ req[r].ctx = "ended" /\ Return(r, "remove", "timeout")
     \/ chan[r].buf # "none" /\ Return(r, "remove", chan[r].buf)
     \/ chan[r].buf = "none" /\ chan[r].closed /\ Return(r, "remove", "offline")
  /\ UNCHANGED <<conn, current, nextID, pending, chan, sent, loop, aborts, panicked>>

\* Mutant: only an answered request is removed.
RemoveAnswered(r) ==
  LET k == req[r].client IN
  /\ At(r, "remove")
  /\ pending' = IF req[r].result = "timeout" THEN pending
                ELSE [pending EXCEPT ![k][req[r].id] = "none"]
  /\ Goto(r, "done")
  /\ UNCHANGED <<conn, current, nextID, chan, sent, loop, aborts, panicked>>

\* The deferred removePending deletes what the table has under the id.
RemovePending(r) ==
  /\ At(r, "remove")
  /\ pending' = [pending EXCEPT ![req[r].client][req[r].id] = "none"]
  /\ Goto(r, "done")
  /\ UNCHANGED <<conn, current, nextID, chan, sent, loop, aborts, panicked>>

\* API_TIMEOUT passes, the HTTP client goes away, or the server stops.
EndContext(r) ==
  /\ req[r].ctx = "live"
  /\ req' = [req EXCEPT ![r].ctx = "ended"]
  /\ UNCHANGED <<conn, current, nextID, pending, chan, sent, loop, aborts, panicked>>

-----------------------------------------------------------------------------
(***************************************************************************)
(* Connections and their session loops                                     *)
(***************************************************************************)
\* RegisterClient: the new connection's client takes the slot.
RegisterClient(k) ==
  /\ conn[k] = "none"
  /\ conn' = [conn EXCEPT ![k] = "live"]
  /\ current' = k
  /\ UNCHANGED <<nextID, pending, chan, req, sent, loop, aborts, panicked>>

\* HandlePacketWithContext: the device's answer to r, late and repeated ones too.
\* An acknowledgement carries r's message id, a separate response one of the
\* device's own and r's token.  The table is read under its mutex; what it holds
\* is used after the mutex is released.  An answer that matches nothing goes to
\* handleOTAControl, which takes an error code for an abort.
HandlePacket(k, r, mid, error) ==
  LET match == IF pending[k][mid] # "none" THEN pending[k][mid]
                                           ELSE pending[k][req[r].id]
  IN
  /\ conn[k] = "live"
  /\ loop[k] = Reading
  /\ r \in sent
  /\ req[r].client = k
  /\ mid \in {req[r].id} \union SeparateIds
  /\ \/ /\ match # "none"
        /\ loop' = [loop EXCEPT ![k] = [to |-> match, answers |-> r]]
        /\ UNCHANGED aborts
     \/ /\ match = "none"
        /\ aborts' = IF error THEN aborts \union {r} ELSE aborts
        /\ UNCHANGED loop
  /\ UNCHANGED <<conn, current, nextID, pending, chan, req, sent, panicked>>

\* The send on the response channel: a full buffer drops the packet, a closed
\* channel panics.
Deliver(k) ==
  LET r == loop[k].to IN
  /\ loop[k] # Reading
  /\ loop' = [loop EXCEPT ![k] = Reading]
  /\ panicked' = chan[r].closed
  /\ chan' = IF chan[r].closed \/ chan[r].buf # "none" THEN chan
             ELSE [chan EXCEPT ![r].buf = loop[k].answers]
  /\ UNCHANGED <<conn, current, nextID, pending, req, sent, aborts>>

\* An error code that answers no request of the server: the device gives up.
DeviceAborts(k) ==
  /\ conn[k] = "live"
  /\ loop[k] = Reading
  /\ aborts' = aborts \union {"device"}
  /\ UNCHANGED <<conn, current, nextID, pending, chan, req, sent, loop, panicked>>

\* The session loop fails to read, decrypt, parse or answer.
EndSession(k) ==
  /\ conn[k] = "live"
  /\ loop[k] = Reading
  /\ conn' = [conn EXCEPT ![k] = "unregister"]
  /\ UNCHANGED <<current, nextID, pending, chan, req, sent, loop, aborts, panicked>>

\* Mutant: the table is emptied and the channels are left open.
UnregisterSilently(k) ==
  /\ conn[k] = "unregister"
  /\ conn' = [conn EXCEPT ![k] = "close"]
  /\ pending' = IF current = "none" THEN pending
                ELSE [pending EXCEPT ![current] = [i \in Ids |-> "none"]]
  /\ current' = "none"
  /\ UNCHANGED <<nextID, chan, req, sent, loop, aborts, panicked>>

\* Unregister with CloseWithError, for the client the slot holds, which may be a
\* newer connection's.
Unregister(k) ==
  /\ conn[k] = "unregister"
  /\ conn' = [conn EXCEPT ![k] = "close"]
  /\ \/ /\ current = "none"
        /\ UNCHANGED <<pending, chan>>
     \/ /\ current # "none"
        /\ pending' = [pending EXCEPT ![current] = [i \in Ids |-> "none"]]
        /\ chan' = [r \in Requests |->
                      [chan[r] EXCEPT !.closed =
                         @ \/ \E i \in Ids : pending[current][i] = r]]
  /\ current' = "none"
  /\ UNCHANGED <<nextID, req, sent, loop, aborts, panicked>>

CloseConnection(k) ==
  /\ conn[k] = "close"
  /\ conn' = [conn EXCEPT ![k] = "closed"]
  /\ UNCHANGED <<current, nextID, pending, chan, req, sent, loop, aborts, panicked>>

-----------------------------------------------------------------------------
Init ==
  /\ conn = [k \in Clients |-> "none"]
  /\ current = "none"
  /\ nextID \in [Clients -> Starts]
  /\ pending = [k \in Clients |-> [i \in Ids |-> "none"]]
  /\ chan = [r \in Requests |-> [buf |-> "none", closed |-> FALSE]]
  /\ req = [r \in Requests |-> [pc |-> "idle", client |-> "none", id |-> 0,
                                ctx |-> "live", result |-> "none"]]
  /\ sent = {}
  /\ loop = [k \in Clients |-> Reading]
  /\ aborts = {}
  /\ panicked = FALSE

\* The steps of a request's goroutine once it has started, up to the write and after it.
OwnStep(r) ==
  \/ NextMessageID(r)
  \/ WrapMessageID(r)
  \/ RegisterPending(r)
  \/ SendMessage(r)
  \/ AwaitResponse(r)
  \/ RemovePending(r)

RequestStep(r) == OwnStep(r) \/ WriteFrame(r)

\* The write is in the device's hands until the connection is closed.
Stuck(r) == At(r, "write") /\ conn[req[r].client] # "closed"

\* The steps of a connection's goroutine that wait for nothing.
ConnectionStep(k) ==
  \/ Deliver(k)
  \/ Unregister(k)
  \/ CloseConnection(k)

Device(k) ==
  \/ RegisterClient(k)
  \/ \E r \in Requests, mid \in Ids, error \in BOOLEAN : HandlePacket(k, r, mid, error)
  \/ DeviceAborts(k)
  \/ EndSession(k)

Next ==
  /\ ~panicked
  /\ \/ \E r \in Requests : GetClient(r) \/ RequestStep(r) \/ EndContext(r)
     \/ \E k \in Clients : ConnectionStep(k) \/ Device(k)

Spec == Init /\ [][Next]_vars

\* What a request does by itself: all but the write, and the write's failure on a closed
\* connection.
RequestFairness(r) == WF_vars(~panicked /\ (OwnStep(r) \/ (~Stuck(r) /\ WriteFrame(r))))

\* Goroutines keep running; contexts need not end, and the device need neither read nor
\* answer.
FairSpec ==
  /\ Spec
  /\ \A r \in Requests : RequestFairness(r)
  /\ \A k \in Clients : WF_vars(~panicked /\ ConnectionStep(k))

\* The live calls of the device service: liveCallContext gives every request a
\* deadline.
DeadlineSpec ==
  FairSpec /\ \A r \in Requests : WF_vars(~panicked /\ EndContext(r))

-----------------------------------------------------------------------------
\* Types of the requests, the tables and the channels; a request past GetClient
\* has a client, and the registry holds a connection that has registered.
TypeOK ==
  /\ conn \in [Clients -> {"none", "live", "unregister", "close", "closed"}]
  /\ current \in Clients \union {"none"}
  /\ current # "none" => conn[current] # "none"
  /\ nextID \in [Clients -> 1 .. (MaxID + Cardinality(Requests))]
  /\ pending \in [Clients -> [Ids -> Requests \union {"none"}]]
  /\ chan \in [Requests -> [buf : Requests \union {"none"}, closed : BOOLEAN]]
  /\ req \in [Requests -> [pc : Labels, client : Clients \union {"none"}, id : Ids,
                           ctx : {"live", "ended"}, result : Results]]
  /\ \A r \in Requests :
       req[r].pc \notin {"idle", "done"} => req[r].client \in Clients
  /\ sent \subseteq Requests
  /\ loop \in [Clients -> [to : Requests \union {"none"},
                           answers : Requests \union {"none"}]]
  /\ aborts \subseteq Requests \union {"device"}
  /\ panicked \in BOOLEAN

\* A request returns only the device's answer to that very request, however late,
\* repeated or overtaken by others the answers are.
AnswerIsOwn ==
  \A r \in Requests : req[r].result \in Requests => req[r].result = r

\* Types; and the table holds only requests in flight, each under its own id, with a
\* channel that is open: it does not grow with timeouts, and CloseWithError closes no
\* channel twice.
PendingInFlight ==
  /\ TypeOK
  /\ \A k \in Clients, i \in Ids :
       LET r == pending[k][i] IN
       r # "none" =>
         /\ req[r].client = k
         /\ req[r].id = i
         /\ req[r].pc \in {"send", "write", "wait", "remove"}
         /\ ~chan[r].closed

\* A waiting request can always be reached: its answer finds it in the table, or
\* an answer or the closing of its channel is already there.
WaiterReachable ==
  \A r \in Requests :
    At(r, "wait") =>
      \/ pending[req[r].client][req[r].id] = r
      \/ chan[r].closed
      \/ chan[r].buf # "none"

\* The session loop never sends on a channel that CloseWithError has closed.
NoSendOnClosed == ~panicked

\* AbortDeviceFlash is called for what the device gives up, not for the late
\* answer to an ordinary request.
AbortsComeFromDevice == aborts \subseteq {"device"}

\* A live call returns, by its deadline at the latest, or hangs in the write to a device
\* that does not read, until its connection is closed.
RequestsReturn ==
  \A r \in Requests : At(r, "id") ~> At(r, "done") \/ panicked \/ []Stuck(r)

\* A request whose connection is gone is told that the device is offline, also
\* when it has no deadline.
OfflineIsReported ==
  \A r \in Requests :
    (At(r, "wait") /\ conn[req[r].client] = "closed") ~> (At(r, "done") \/ panicked)
=============================================================================
