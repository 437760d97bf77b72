---------------------------- MODULE DeviceServer ----------------------------
(***************************************************************************)
(* The device TCP server: accept loop, one goroutine per connection, the   *)
(* registry of command clients, the Connected flag of the device records   *)
(* and Shutdown (internal/protocol/tcp/server.go, registry.go,             *)
(* session_loop.go; MarkConnected, UpdateDescription, MarkDisconnected of  *)
(* internal/devices/service.go).                                           *)
(*                                                                         *)
(* A device may connect again before the server has noticed that its old   *)
(* connection is dead, so two goroutines can work for one device id.       *)
(***************************************************************************)
EXTENDS Naturals, FiniteSets

CONSTANTS
  Devices,   \* device ids
  Conns,     \* the TCP connections devices open, each used once
  Writers,   \* HTTP requests that claim, rename or release a device
  Faults     \* what may go wrong: "accept", "crash"

ASSUME DistinctAssumption == Conns \intersect {"none"} = {}

VARIABLES
  listener,   \* "open" or "closed"
  acceptor,   \* the accept loop; "done" once it has closed Server.done
  handler,    \* where each connection's goroutine is
  sock,       \* each connection's socket
  dev,        \* the device id the handshake yielded
  seen,       \* the device record a goroutine has read
  tracked,    \* Server.connections
  shutdown,   \* where Shutdown is; its first step sets Server.stopping
  toClose,    \* the connections Shutdown still has to close
  ctx,        \* the server's context
  clients,    \* Registry.clients: the connection whose client commands go to
  presence,   \* the stored device records: absent, or their Connected flag
  writer      \* the HTTP requests and the records they have read

net      == <<listener, sock>>
server   == <<acceptor, tracked, shutdown, toClose, ctx>>
session  == <<handler, dev, seen>>
vars     == <<net, server, session, clients, presence, writer>>

Presence == {"absent", "online", "offline"}

\* The labels of a connection's goroutine, in program order.  "describe" and
\* "describeSave" are the UpdateDescription a served packet asks for.
Running ==
  {"handshake", "register", "mark", "markSave", "serve", "describe",
   "describeSave", "unregister", "unmark", "unmarkSave", "close", "untrack"}

Labels == {"none", "backlog", "track", "gone"} \union Running

\* The goroutine has put its client into the registry and has not yet run its
\* cleanup.
Registered == {"mark", "markSave", "serve", "describe", "describeSave", "unregister"}

\* The goroutine knows its device: the handshake has succeeded.
Identified == Registered \union {"register", "unmark", "unmarkSave"}

Stopping == shutdown # "idle"

Done == acceptor = "done"

At(c, label) == handler[c] = label

Goto(c, label) == handler' = [handler EXCEPT ![c] = label]

CloseSock(c) == sock' = [sock EXCEPT ![c] = "closed"]

-----------------------------------------------------------------------------
(***************************************************************************)
(* Connections arrive                                                      *)
(***************************************************************************)
Dial(c) ==
  /\ At(c, "none")
  /\ listener = "open"
  /\ Goto(c, "backlog")
  /\ sock' = [sock EXCEPT ![c] = "open"]
  /\ UNCHANGED <<listener, server, dev, seen, clients, presence, writer>>

\* The device closes the connection, or the network does.
PeerClose(c) ==
  /\ sock[c] = "open"
  /\ CloseSock(c)
  /\ UNCHANGED <<listener, server, session, clients, presence, writer>>

Accept(c) ==
  /\ acceptor = "accept"
  /\ listener = "open"
  /\ At(c, "backlog")
  /\ acceptor' = "track"
  /\ Goto(c, "track")
  /\ UNCHANGED <<net, tracked, shutdown, toClose, ctx, dev, seen,
                 clients, presence, writer>>

\* Accept fails because the listener is closed, or for another reason: the error
\* is handed to Errors, whose buffer of one holds the loop's only error.
AcceptFails ==
  /\ acceptor = "accept"
  /\ listener = "closed" \/ "accept" \in Faults
  /\ acceptor' = "drain"
  /\ UNCHANGED <<net, tracked, shutdown, toClose, ctx, session,
                 clients, presence, writer>>

\* Mutant: a connection is tracked although the server is stopping.
TrackAlways(c) ==
  /\ acceptor = "track"
  /\ At(c, "track")
  /\ acceptor' = "accept"
  /\ tracked' = tracked \union {c}
  /\ Goto(c, "handshake")
  /\ UNCHANGED <<net, shutdown, toClose, ctx, dev, seen, clients,
                 presence, writer>>

\* trackConnection, and the goroutine started for a tracked connection.
TrackConnection(c) ==
  /\ acceptor = "track"
  /\ At(c, "track")
  /\ acceptor' = "accept"
  /\ \/ /\ Stopping
        /\ CloseSock(c)
        /\ Goto(c, "gone")
        /\ UNCHANGED tracked
     \/ /\ ~Stopping
        /\ tracked' = tracked \union {c}
        /\ Goto(c, "handshake")
        /\ UNCHANGED sock
  /\ UNCHANGED <<listener, shutdown, toClose, ctx, dev, seen, clients,
                 presence, writer>>

-----------------------------------------------------------------------------
(***************************************************************************)
(* handleConnection                                                        *)
(***************************************************************************)
\* Mutant: a failed handshake does not end the connection.
HandshakeUnchecked(c) ==
  /\ At(c, "handshake")
  /\ \/ \E d \in Devices : dev' = [dev EXCEPT ![c] = d]
     \/ UNCHANGED dev
  /\ Goto(c, "register")
  /\ UNCHANGED <<net, server, seen, clients, presence, writer>>

\* The handshake reads the device id, or fails: bad frame, closed socket, its
\* deadline of 30 seconds, an ended context.
Handshake(c) ==
  /\ At(c, "handshake")
  /\ \/ /\ \E d \in Devices : dev' = [dev EXCEPT ![c] = d]
        /\ Goto(c, "register")
     \/ Goto(c, "close") /\ UNCHANGED dev
  /\ UNCHANGED <<net, server, seen, clients, presence, writer>>

RegisterClient(c) ==
  /\ At(c, "register")
  /\ clients' = [clients EXCEPT ![dev[c]] = c]
  /\ Goto(c, "mark")
  /\ UNCHANGED <<net, server, dev, seen, presence, writer>>

\* MarkConnected: load the device record.  An ended context makes it fail, which
\* is logged and otherwise ignored.
MarkConnected(c) ==
  /\ At(c, "mark")
  /\ \/ /\ ctx = "live"
        /\ seen' = [seen EXCEPT ![c] = presence[dev[c]]]
        /\ Goto(c, "markSave")
     \/ ctx = "ended" /\ Goto(c, "serve") /\ UNCHANGED seen
  /\ UNCHANGED <<net, server, dev, clients, presence, writer>>

\* The record a goroutine writes as connected: Create when it read none, which
\* fails if there is one by now, else Save.
CanSave(c) == ctx = "live" /\ (seen[c] = "absent" => presence[dev[c]] = "absent")

SaveConnected(c) ==
  /\ At(c, "markSave")
  /\ \/ CanSave(c) /\ presence' = [presence EXCEPT ![dev[c]] = "online"]
     \/ ~CanSave(c) /\ UNCHANGED presence
  /\ seen' = [seen EXCEPT ![c] = "absent"]
  /\ Goto(c, "serve")
  /\ UNCHANGED <<net, server, dev, clients, writer>>

\* ServeSession gets a description packet: UpdateDescription.
Describe(c) ==
  /\ At(c, "serve")
  /\ sock[c] = "open"
  /\ ctx = "live"
  /\ Goto(c, "describe")
  /\ UNCHANGED <<net, server, dev, seen, clients, presence, writer>>

LoadDescription(c) ==
  /\ At(c, "describe")
  /\ \/ /\ ctx = "live"
        /\ seen' = [seen EXCEPT ![c] = presence[dev[c]]]
        /\ Goto(c, "describeSave")
     \/ ctx = "ended" /\ Goto(c, "unregister") /\ UNCHANGED seen
  /\ UNCHANGED <<net, server, dev, clients, presence, writer>>

\* A description that cannot be saved ends the session.
SaveDescription(c) ==
  /\ At(c, "describeSave")
  /\ \/ /\ CanSave(c)
        /\ presence' = [presence EXCEPT ![dev[c]] = "online"]
        /\ Goto(c, "serve")
     \/ ~CanSave(c) /\ Goto(c, "unregister") /\ UNCHANGED presence
  /\ seen' = [seen EXCEPT ![c] = "absent"]
  /\ UNCHANGED <<net, server, dev, clients, writer>>

\* The session loop reads from a closed socket.
EndSession(c) ==
  /\ At(c, "serve")
  /\ sock[c] = "closed"
  /\ Goto(c, "unregister")
  /\ UNCHANGED <<net, server, dev, seen, clients, presence, writer>>

\* The session loop meets a frame it cannot decrypt, parse or answer, or finds
\* its context ended after a packet.
FailSession(c) ==
  /\ At(c, "serve")
  /\ sock[c] = "open"
  /\ Goto(c, "unregister")
  /\ UNCHANGED <<net, server, dev, seen, clients, presence, writer>>

\* Mutant: the cleanup forgets the registry.
UnregisterForgotten(c) ==
  /\ At(c, "unregister")
  /\ Goto(c, "unmark")
  /\ UNCHANGED <<net, server, dev, seen, clients, presence, writer>>

\* Unregister removes whatever client the device id has, be it another
\* connection's.
Unregister(c) ==
  /\ At(c, "unregister")
  /\ clients' = [clients EXCEPT ![dev[c]] = "none"]
  /\ Goto(c, "unmark")
  /\ UNCHANGED <<net, server, dev, seen, presence, writer>>

\* MarkDisconnected runs with a context that does not end.
MarkDisconnected(c) ==
  /\ At(c, "unmark")
  /\ Goto(c, IF presence[dev[c]] = "absent" THEN "close" ELSE "unmarkSave")
  /\ UNCHANGED <<net, server, dev, seen, clients, presence, writer>>

\* Mutant: the record is saved as it was read.
SaveUnchanged(c) ==
  /\ At(c, "unmarkSave")
  /\ Goto(c, "close")
  /\ UNCHANGED <<net, server, dev, seen, clients, presence, writer>>

SaveDisconnected(c) ==
  /\ At(c, "unmarkSave")
  /\ presence' = [presence EXCEPT ![dev[c]] = "offline"]
  /\ Goto(c, "close")
  /\ UNCHANGED <<net, server, dev, seen, clients, writer>>

CloseConnection(c) ==
  /\ At(c, "close")
  /\ CloseSock(c)
  /\ Goto(c, "untrack")
  /\ UNCHANGED <<listener, server, dev, seen, clients, presence, writer>>

UntrackConnection(c) ==
  /\ At(c, "untrack")
  /\ tracked' = tracked \ {c}
  /\ Goto(c, "gone")
  /\ UNCHANGED <<net, acceptor, shutdown, toClose, ctx, dev, seen,
                 clients, presence, writer>>

-----------------------------------------------------------------------------
(***************************************************************************)
(* Stopping                                                                *)
(***************************************************************************)
\* The signal that ends the server's context.
Interrupt ==
  /\ ctx = "live"
  /\ ctx' = "ended"
  /\ UNCHANGED <<net, acceptor, tracked, shutdown, toClose, session,
                 clients, presence, writer>>

BeginShutdown ==
  /\ shutdown = "idle"
  /\ shutdown' = "listener"
  /\ toClose' = tracked
  /\ UNCHANGED <<net, acceptor, tracked, ctx, session, clients, presence, writer>>

CloseListener ==
  /\ shutdown = "listener"
  /\ shutdown' = "closing"
  /\ listener' = "closed"
  /\ UNCHANGED <<sock, acceptor, tracked, toClose, ctx, session,
                 clients, presence, writer>>

CloseConnections(c) ==
  /\ shutdown = "closing"
  /\ c \in toClose
  /\ CloseSock(c)
  /\ toClose' = toClose \ {c}
  /\ UNCHANGED <<listener, acceptor, tracked, shutdown, ctx, session,
                 clients, presence, writer>>

AwaitDone ==
  /\ shutdown = "closing"
  /\ toClose = {}
  /\ shutdown' = "wait"
  /\ UNCHANGED <<net, acceptor, tracked, toClose, ctx, session, clients,
                 presence, writer>>

\* Shutdown returns when done is closed, or when its own deadline passes.
ReturnFromShutdown ==
  /\ shutdown = "wait"
  /\ shutdown' \in {s \in {"stopped", "deadline"} : s = "stopped" => Done}
  /\ UNCHANGED <<net, acceptor, tracked, toClose, ctx, session, clients,
                 presence, writer>>

\* Mutant: done is closed without waiting for the goroutines.
DrainEarly ==
  /\ acceptor = "drain"
  /\ acceptor' = "done"
  /\ UNCHANGED <<net, tracked, shutdown, toClose, ctx, session, clients,
                 presence, writer>>

\* The accept loop's deferred function: connectionWG.Wait, then close(done).
Drain ==
  /\ acceptor = "drain"
  /\ \A c \in Conns : handler[c] \notin Running
  /\ acceptor' = "done"
  /\ UNCHANGED <<net, tracked, shutdown, toClose, ctx, session, clients,
                 presence, writer>>

-----------------------------------------------------------------------------
(***************************************************************************)
(* Other writers of the device record, and crashes                         *)
(***************************************************************************)
\* Claim, Update (rename) and Unclaim load a record and save it with the
\* Connected flag they loaded; Claim creates a record that is not connected.
LoadDevice(w) ==
  /\ writer[w].pc = "load"
  /\ \E d \in Devices :
       writer' = [writer EXCEPT ![w] = [pc |-> "save", dev |-> d, seen |-> presence[d]]]
  /\ UNCHANGED <<net, server, session, clients, presence>>

SaveDevice(w) ==
  LET d == writer[w].dev IN
  /\ writer[w].pc = "save"
  /\ \/ /\ writer[w].seen = "absent"
        /\ presence' = [presence EXCEPT ![d] = IF @ = "absent" THEN "offline" ELSE @]
     \/ /\ writer[w].seen # "absent"
        /\ presence' = [presence EXCEPT ![d] = writer[w].seen]
  /\ writer' = [writer EXCEPT ![w].pc = "done"]
  /\ UNCHANGED <<net, server, session, clients>>

\* The process dies and starts again: the records are all that is left.
Crash ==
  /\ "crash" \in Faults
  /\ listener' = "open"
  /\ acceptor' = "accept"
  /\ handler' = [c \in Conns |-> IF At(c, "none") THEN "none" ELSE "gone"]
  /\ sock' = [c \in Conns |-> "closed"]
  /\ seen' = [c \in Conns |-> "absent"]
  /\ tracked' = {}
  /\ toClose' = {}
  /\ shutdown' = "idle"
  /\ ctx' = "live"
  /\ clients' = [d \in Devices |-> "none"]
  /\ writer' = [w \in Writers |-> [writer[w] EXCEPT !.pc = "done"]]
  /\ UNCHANGED <<dev, presence>>

-----------------------------------------------------------------------------
Init ==
  /\ listener = "open"
  /\ acceptor = "accept"
  /\ handler = [c \in Conns |-> "none"]
  /\ sock = [c \in Conns |-> "closed"]
  /\ dev = [c \in Conns |-> "none"]
  /\ seen = [c \in Conns |-> "absent"]
  /\ tracked = {}
  /\ shutdown = "idle"
  /\ toClose = {}
  /\ ctx = "live"
  /\ clients = [d \in Devices |-> "none"]
  /\ presence \in [Devices -> {"absent", "offline"}]
  /\ writer = [w \in Writers |-> [pc |-> "load", dev |-> "none", seen |-> "absent"]]

\* What a connection's goroutine does without waiting for the device.
HandlerStep(c) ==
  \/ Handshake(c)
  \/ RegisterClient(c)
  \/ MarkConnected(c)
  \/ SaveConnected(c)
  \/ LoadDescription(c)
  \/ SaveDescription(c)
  \/ EndSession(c)
  \/ Unregister(c)
  \/ MarkDisconnected(c)
  \/ SaveDisconnected(c)
  \/ CloseConnection(c)
  \/ UntrackConnection(c)

AcceptorStep ==
  \/ AcceptFails
  \/ \E c \in Conns : TrackConnection(c)
  \/ Drain

ShutdownStep ==
  \/ CloseListener
  \/ \E c \in Conns : CloseConnections(c)
  \/ AwaitDone

Environment ==
  \/ \E c \in Conns :
       Dial(c) \/ PeerClose(c) \/ Accept(c) \/ Describe(c) \/ FailSession(c)
  \/ \E w \in Writers : LoadDevice(w) \/ SaveDevice(w)
  \/ Interrupt
  \/ BeginShutdown
  \/ ReturnFromShutdown
  \/ Crash

Next ==
  \/ \E c \in Conns : HandlerStep(c)
  \/ AcceptorStep
  \/ ShutdownStep
  \/ Environment

Spec == Init /\ [][Next]_vars

\* Goroutines keep running: the handshake has a deadline, repository calls and
\* cleanup end, and a read from a closed socket returns.  Nothing is assumed of
\* devices, which may stay connected and silent forever.
FairSpec ==
  /\ Spec
  /\ \A c \in Conns : WF_vars(HandlerStep(c))
  /\ WF_vars(AcceptorStep)
  /\ WF_vars(ShutdownStep)

-----------------------------------------------------------------------------
\* Types of the server's, the registry's and the connections' state; a goroutine
\* past its handshake works for a device.
TypeOK ==
  /\ listener \in {"open", "closed"}
  /\ acceptor \in {"accept", "track", "drain", "done"}
  /\ handler \in [Conns -> Labels]
  /\ sock \in [Conns -> {"open", "closed"}]
  /\ dev \in [Conns -> Devices \union {"none"}]
  /\ \A c \in Conns : handler[c] \in Identified => dev[c] \in Devices
  /\ seen \in [Conns -> Presence]
  /\ tracked \subseteq Conns
  /\ shutdown \in {"idle", "listener", "closing", "wait", "stopped", "deadline"}
  /\ toClose \subseteq Conns
  /\ ctx \in {"live", "ended"}
  /\ clients \in [Devices -> Conns \union {"none"}]
  /\ presence \in [Devices -> Presence]
  /\ writer \in [Writers -> [pc : {"load", "save", "done"},
                             dev : Devices \union {"none"}, seen : Presence]]

\* Commands never go to a client whose connection has been cleaned up, nor to
\* another device's client, even while connections of one device overlap
\* (RegisterClient replaces, Unregister deletes by device id).
NoGhostClient ==
  \A d \in Devices : clients[d] # "none" =>
    dev[clients[d]] = d /\ handler[clients[d]] \in Registered

\* Shutdown misses no connection: once it waits, every tracked connection is
\* closed, also one accepted while Shutdown was running.
ShutdownReachesAll ==
  shutdown \in {"wait", "stopped", "deadline"}
    => \A c \in tracked : sock[c] = "closed"

\* When done is closed no connection's goroutine runs any more, none will start,
\* and the registry is empty.
DoneMeansQuiet ==
  Done => /\ \A c \in Conns : handler[c] \notin Running \union {"track"}
          /\ \A d \in Devices : clients[d] = "none"

\* The inductive form of the three properties above: the accept loop holds at
\* most one connection that has no goroutine yet, only running goroutines are
\* tracked, and while Shutdown closes connections every tracked one is closed or
\* still listed.
ServerInv ==
  /\ TypeOK
  /\ NoGhostClient
  /\ \A c \in Conns : At(c, "track") =>
       acceptor = "track" /\ \A e \in Conns : At(e, "track") => e = c
  /\ Done => \A c \in Conns : handler[c] \notin Running
  /\ \A c \in tracked : handler[c] \in Running
  /\ shutdown \in {"listener", "closing"}
       => \A c \in tracked : sock[c] = "closed" \/ c \in toClose
  /\ ShutdownReachesAll

\* A device record says connected only while some connection of that device
\* still has its MarkDisconnected ahead: overlapping connections never leave a
\* record connected for good.  It holds until another writer saves its stale copy
\* or the process dies (after which no writer is at work).
PresenceBacked ==
  (\A w \in Writers : writer[w].pc # "done") =>
  \A d \in Devices : presence[d] = "online" =>
    \E c \in Conns :
      /\ dev[c] = d
      /\ handler[c] \in {"serve", "describe", "describeSave", "unregister",
                         "unmark", "unmarkSave"}

\* A device with a live session can be reached by commands: the registry has a
\* client for it.
LiveSessionReachable ==
  \A c \in Conns : At(c, "serve") /\ sock[c] = "open" => clients[dev[c]] # "none"

\* A Shutdown that has begun ends with all goroutines gone and done closed,
\* whatever devices do, unless the process dies first.
ShutdownCompletes == shutdown = "listener" ~> Done \/ ~Stopping
=============================================================================
