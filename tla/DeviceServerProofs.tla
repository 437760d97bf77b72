------------------------- MODULE DeviceServerProofs -------------------------
(***************************************************************************)
(* ServerInv is an inductive invariant of the device server for any set of *)
(* devices, connections, writers and faults, and with it hold the safety   *)
(* properties it was strengthened from.  The steps of the goroutines, of   *)
(* the accept loop, of Shutdown and of the environment are taken group by  *)
(* group, one step of the proof per action.                                *)
(***************************************************************************)
EXTENDS DeviceServer, TLAPS

\* The goroutine of a connection keeps ServerInv: it is the only one that moves
\* that connection, and it writes the registry only under its own device id.
LEMMA HandlerStepInv ==
  ASSUME ServerInv, NEW c \in Conns, HandlerStep(c)
  PROVE  ServerInv'
PROOF
  <1> USE DEF ServerInv, TypeOK, NoGhostClient, ShutdownReachesAll, Done, Stopping,
              At, Goto, CloseSock, net, server, session,
              Labels, Running, Registered, Identified, Presence
  <1>1. CASE Handshake(c)
    BY <1>1 DEF Handshake
  <1>2. CASE RegisterClient(c)
    BY <1>2 DEF RegisterClient
  <1>3. CASE MarkConnected(c)
    BY <1>3 DEF MarkConnected
  <1>4. CASE SaveConnected(c)
    BY <1>4 DEF SaveConnected, CanSave
  <1>5. CASE LoadDescription(c)
    BY <1>5 DEF LoadDescription
  <1>6. CASE SaveDescription(c)
    BY <1>6 DEF SaveDescription, CanSave
  <1>7. CASE EndSession(c)
    BY <1>7 DEF EndSession
  <1>8. CASE Unregister(c)
    BY <1>8 DEF Unregister
  <1>9. CASE MarkDisconnected(c)
    BY <1>9 DEF MarkDisconnected
  <1>10. CASE SaveDisconnected(c)
    BY <1>10 DEF SaveDisconnected
  <1>11. CASE CloseConnection(c)
    BY <1>11 DEF CloseConnection
  <1>12. CASE UntrackConnection(c)
    BY <1>12 DEF UntrackConnection
  <1> QED
    BY <1>1, <1>2, <1>3, <1>4, <1>5, <1>6, <1>7, <1>8, <1>9, <1>10, <1>11, <1>12 DEF HandlerStep

\* The accept loop keeps ServerInv.  The case that matters is trackConnection,
\* which tests stopping under the mutex that Shutdown takes to set it.
LEMMA AcceptorStepInv ==
  ASSUME ServerInv, AcceptorStep
  PROVE  ServerInv'
PROOF
  <1> USE DEF ServerInv, TypeOK, NoGhostClient, ShutdownReachesAll, Done, Stopping,
              At, Goto, CloseSock, net, server, session,
              Labels, Running, Registered, Identified, Presence
  <1>1. CASE AcceptFails
    BY <1>1 DEF AcceptFails
  <1>2. ASSUME NEW c \in Conns, TrackConnection(c)
        PROVE  ServerInv'
    <2>1. CASE Stopping
      BY <1>2, <2>1 DEF TrackConnection
    <2>2. CASE ~Stopping
      <3>1. /\ tracked' = tracked \union {c}
            /\ handler' = [handler EXCEPT ![c] = "handshake"]
            /\ acceptor' = "accept" /\ acceptor = "track" /\ handler[c] = "track"
            /\ UNCHANGED <<listener, sock, shutdown, toClose, ctx, dev, seen, clients,
                           presence, writer>>
        BY <1>2, <2>2 DEF TrackConnection
      <3>2. TypeOK' /\ ShutdownReachesAll'
        BY <2>2, <3>1
      <3>3. NoGhostClient'
        BY <3>1
      <3> QED
        BY <2>2, <3>1, <3>2, <3>3
    <2> QED
      BY <2>1, <2>2
  <1>3. CASE Drain
    BY <1>3 DEF Drain
  <1> QED
    BY <1>1, <1>2, <1>3 DEF AcceptorStep

\* Shutdown keeps ServerInv: a connection leaves toClose when it is closed.
LEMMA ShutdownStepInv ==
  ASSUME ServerInv, ShutdownStep
  PROVE  ServerInv'
PROOF
  <1> USE DEF ServerInv, TypeOK, NoGhostClient, ShutdownReachesAll, Done, Stopping,
              At, Goto, CloseSock, net, server, session,
              Labels, Running, Registered, Identified, Presence
  <1>1. CASE CloseListener
    BY <1>1 DEF CloseListener
  <1>2. ASSUME NEW c \in Conns, CloseConnections(c)
        PROVE  ServerInv'
    BY <1>2 DEF CloseConnections
  <1>3. CASE AwaitDone
    BY <1>3 DEF AwaitDone
  <1> QED
    BY <1>1, <1>2, <1>3 DEF ShutdownStep

\* Devices, HTTP requests, signals and crashes keep ServerInv.
LEMMA EnvironmentInv ==
  ASSUME ServerInv, Environment
  PROVE  ServerInv'
PROOF
  <1> USE DEF ServerInv, TypeOK, NoGhostClient, ShutdownReachesAll, Done, Stopping,
              At, Goto, CloseSock, net, server, session,
              Labels, Running, Registered, Identified, Presence
  <1>1. ASSUME NEW c \in Conns, Dial(c)
        PROVE  ServerInv'
    BY <1>1 DEF Dial
  <1>2. ASSUME NEW c \in Conns, PeerClose(c)
        PROVE  ServerInv'
    BY <1>2 DEF PeerClose
  <1>3. ASSUME NEW c \in Conns, Accept(c)
        PROVE  ServerInv'
    BY <1>3 DEF Accept
  <1>4. ASSUME NEW c \in Conns, Describe(c)
        PROVE  ServerInv'
    BY <1>4 DEF Describe
  <1>5. ASSUME NEW c \in Conns, FailSession(c)
        PROVE  ServerInv'
    BY <1>5 DEF FailSession
  <1>6. ASSUME NEW w \in Writers, LoadDevice(w)
        PROVE  ServerInv'
    BY <1>6 DEF LoadDevice
  <1>7. ASSUME NEW w \in Writers, SaveDevice(w)
        PROVE  ServerInv'
    <2>1. writer[w].seen \in Presence
      OBVIOUS
    <2>2. presence' \in [Devices -> Presence]
      BY <1>7, <2>1 DEF SaveDevice
    <2>3. writer' \in [Writers -> [pc : {"load", "save", "done"},
                                   dev : Devices \union {"none"}, seen : Presence]]
      BY <1>7 DEF SaveDevice
    <2>4. UNCHANGED <<net, server, session, clients>>
      BY <1>7 DEF SaveDevice
    <2> QED
      BY <2>2, <2>3, <2>4
  <1>8. CASE Interrupt
    BY <1>8 DEF Interrupt
  <1>9. CASE BeginShutdown
    BY <1>9 DEF BeginShutdown
  <1>10. CASE ReturnFromShutdown
    BY <1>10 DEF ReturnFromShutdown
  <1>11. CASE Crash
    <2>1. /\ handler' \in [Conns -> {"none", "gone"}]
          /\ sock' \in [Conns -> {"open", "closed"}]
          /\ seen' \in [Conns -> Presence]
          /\ clients' \in [Devices -> Conns \union {"none"}]
      BY <1>11 DEF Crash
    <2>2. writer' \in [Writers -> [pc : {"load", "save", "done"},
                                   dev : Devices \union {"none"}, seen : Presence]]
      <3> DEFINE R == [pc : {"load", "save", "done"},
                       dev : Devices \union {"none"}, seen : Presence]
      <3>1. \A r \in R : [r EXCEPT !.pc = "done"] \in R
        OBVIOUS
      <3>2. writer \in [Writers -> R]
        OBVIOUS
      <3>3. writer' = [w \in Writers |-> [writer[w] EXCEPT !.pc = "done"]]
        BY <1>11 DEF Crash
      <3> HIDE DEF R
      <3>4. writer' \in [Writers -> R]
        BY <3>1, <3>2, <3>3
      <3> QED
        BY <3>4 DEF R
    <2>3. TypeOK'
      BY <1>11, <2>1, <2>2 DEF Crash
    <2>4. /\ acceptor' = "accept" /\ shutdown' = "idle" /\ tracked' = {}
          /\ clients' = [d \in Devices |-> "none"]
      BY <1>11 DEF Crash
    <2> QED
      BY <2>1, <2>3, <2>4
  <1> QED
    BY <1>1, <1>2, <1>3, <1>4, <1>5, <1>6, <1>7, <1>8, <1>9, <1>10, <1>11 DEF Environment

\* The server starts with nothing connected, tracked or registered.
LEMMA InitInv == Init => ServerInv
BY DEF Init, ServerInv, TypeOK, NoGhostClient, ShutdownReachesAll, Done, At,
       Labels, Running, Registered, Identified, Presence

\* Every step of the server keeps ServerInv, and so does a stutter.
LEMMA NextInv ==
  ASSUME ServerInv, [Next]_vars
  PROVE  ServerInv'
PROOF
  <1>1. CASE Next
    BY <1>1, HandlerStepInv, AcceptorStepInv, ShutdownStepInv, EnvironmentInv DEF Next
  <1>2. CASE UNCHANGED vars
    BY <1>2 DEF ServerInv, TypeOK, NoGhostClient, ShutdownReachesAll, Done, At,
                vars, net, server, session
  <1> QED
    BY <1>1, <1>2

-----------------------------------------------------------------------------
\* ServerInv holds in every reachable state of handleConnection's goroutines, the
\* accept loop and Shutdown.
THEOREM ServerInvariant == Spec => []ServerInv
BY InitInv, NextInv, PTL DEF Spec

\* The variables of the server keep their types, and a goroutine past its handshake
\* always has the device it works for.
THEOREM ServerTypes == Spec => []TypeOK
PROOF
  <1>1. ServerInv => TypeOK
    BY DEF ServerInv
  <1> QED
    BY <1>1, ServerInvariant, PTL

\* The registry never keeps a client whose connection has been cleaned up, nor
\* hands a device's commands to another device (RegisterDeviceClient's cleanup).
THEOREM NoGhosts == Spec => []NoGhostClient
PROOF
  <1>1. ServerInv => NoGhostClient
    BY DEF ServerInv
  <1> QED
    BY <1>1, ServerInvariant, PTL

\* Shutdown closes every tracked connection before it waits for done, whatever
\* accept does meanwhile (trackConnection).
THEOREM ShutdownMissesNone == Spec => []ShutdownReachesAll
PROOF
  <1>1. ServerInv => ShutdownReachesAll
    BY DEF ServerInv
  <1> QED
    BY <1>1, ServerInvariant, PTL

\* Once done is closed no goroutine of a connection runs or will be started, and
\* the registry is empty (connectionWG.Wait before close(done)).
THEOREM DoneIsQuiet == Spec => []DoneMeansQuiet
PROOF
  <1>1. ServerInv => DoneMeansQuiet
    BY DistinctAssumption
    DEF ServerInv, DoneMeansQuiet, TypeOK, NoGhostClient, Done, At, Running, Registered
  <1> QED
    BY <1>1, ServerInvariant, PTL

-----------------------------------------------------------------------------
\* The places of a goroutine that has read or written its device's record as
\* connected and has not yet saved it as disconnected.
Serving == {"serve", "describe", "describeSave", "unregister", "unmark", "unmarkSave"}

\* A step of another goroutine leaves a serving connection serving its device.
LEMMA OthersKeepServing ==
  ASSUME ServerInv, NEW c \in Conns, HandlerStep(c), NEW e \in Conns, e # c
  PROVE  handler'[e] = handler[e] /\ dev'[e] = dev[e]
BY DEF ServerInv, TypeOK, HandlerStep, Goto, session, Handshake, RegisterClient,
       MarkConnected, SaveConnected, LoadDescription, SaveDescription, EndSession,
       Unregister, MarkDisconnected, SaveDisconnected, CloseConnection,
       UntrackConnection

\* The goroutine of a connection keeps every record backed: it marks its own device
\* connected on its way to the session, and leaves Serving only after it has saved
\* the record as disconnected, or found none.
LEMMA HandlerStepBacked ==
  ASSUME ServerInv, PresenceBacked, NEW c \in Conns, HandlerStep(c)
  PROVE  PresenceBacked'
PROOF
  <1> SUFFICES ASSUME \A w \in Writers : writer'[w].pc # "done",
                      NEW d \in Devices, presence'[d] = "online"
               PROVE  \E e \in Conns : dev'[e] = d /\ handler'[e] \in Serving
    BY DEF PresenceBacked, Serving
  <1>1. writer' = writer
    BY DEF HandlerStep, server, session, net, Handshake, RegisterClient, MarkConnected,
           SaveConnected, LoadDescription, SaveDescription, EndSession, Unregister,
           MarkDisconnected, SaveDisconnected, CloseConnection, UntrackConnection
  <1>2. presence[d] = "online" =>
          \E e \in Conns : dev[e] = d /\ handler[e] \in Serving
    BY <1>1 DEF PresenceBacked, Serving
  <1>3. ASSUME \E e \in Conns : e # c /\ dev[e] = d /\ handler[e] \in Serving
        PROVE  \E e \in Conns : dev'[e] = d /\ handler'[e] \in Serving
    BY <1>3, OthersKeepServing
  <1>4. ASSUME dev'[c] = d, handler'[c] \in Serving
        PROVE  \E e \in Conns : dev'[e] = d /\ handler'[e] \in Serving
    BY <1>4
  <1>5. \/ presence[d] = "online" /\ ~(dev[c] = d /\ handler[c] \in Serving)
        \/ dev'[c] = d /\ handler'[c] \in Serving
    <2> USE DEF ServerInv, TypeOK, At, Goto, net, server, session, Serving, Presence,
                Labels, Running, Registered, Identified
    <2>1. CASE Handshake(c)
      BY <2>1 DEF Handshake
    <2>2. CASE RegisterClient(c)
      BY <2>2 DEF RegisterClient
    <2>3. CASE MarkConnected(c)
      BY <2>3 DEF MarkConnected
    <2>4. CASE SaveConnected(c)
      BY <2>4 DEF SaveConnected
    <2>5. CASE LoadDescription(c)
      BY <2>5 DEF LoadDescription
    <2>6. CASE SaveDescription(c)
      BY <2>6 DEF SaveDescription
    <2>7. CASE EndSession(c)
      BY <2>7 DEF EndSession
    <2>8. CASE Unregister(c)
      BY <2>8 DEF Unregister
    <2>9. CASE MarkDisconnected(c)
      BY <2>9 DEF MarkDisconnected
    <2>10. CASE SaveDisconnected(c)
      BY <2>10 DEF SaveDisconnected
    <2>11. CASE CloseConnection(c)
      BY <2>11 DEF CloseConnection
    <2>12. CASE UntrackConnection(c)
      BY <2>12 DEF UntrackConnection
    <2> QED
      BY <2>1, <2>2, <2>3, <2>4, <2>5, <2>6, <2>7, <2>8, <2>9, <2>10, <2>11, <2>12
      DEF HandlerStep
  <1> QED
    BY <1>2, <1>3, <1>4, <1>5

\* Everybody else: no record changes, and no serving connection moves, but for the
\* two steps after which nothing is claimed: a writer's save, and a crash.
LEMMA OtherStepsBacked ==
  ASSUME ServerInv, PresenceBacked, AcceptorStep \/ ShutdownStep \/ Environment,
         Writers # {} \/ "crash" \notin Faults
  PROVE  PresenceBacked'
PROOF
  <1> DEFINE Kept == /\ presence' = presence
                     /\ \A e \in Conns : handler[e] \in Serving =>
                          handler'[e] \in Serving /\ dev'[e] = dev[e]
                     /\ \A w \in Writers : writer'[w].pc # "done" => writer[w].pc # "done"
  <1>1. ASSUME Kept
        PROVE  PresenceBacked'
    BY <1>1 DEF PresenceBacked, Serving
  <1> USE DEF ServerInv, TypeOK, Serving, At, Goto, net, server, session
  <1>2. CASE AcceptorStep
    <2>1. CASE AcceptFails
      BY <1>1, <2>1 DEF AcceptFails
    <2>2. ASSUME NEW c \in Conns, TrackConnection(c)
          PROVE  PresenceBacked'
      BY <1>1, <2>2 DEF TrackConnection
    <2>3. CASE Drain
      BY <1>1, <2>3 DEF Drain
    <2> QED
      BY <1>2, <2>1, <2>2, <2>3 DEF AcceptorStep
  <1>3. CASE ShutdownStep
    BY <1>1, <1>3 DEF ShutdownStep, CloseListener, CloseConnections, AwaitDone
  <1>4. CASE Environment
    <2>1. ASSUME NEW c \in Conns,
                 Dial(c) \/ PeerClose(c) \/ Accept(c) \/ Describe(c) \/ FailSession(c)
          PROVE  PresenceBacked'
      BY <1>1, <2>1 DEF Dial, PeerClose, Accept, Describe, FailSession
    <2>2. ASSUME NEW w \in Writers, LoadDevice(w)
          PROVE  PresenceBacked'
      BY <1>1, <2>2 DEF LoadDevice
    <2>3. ASSUME NEW w \in Writers, SaveDevice(w)
          PROVE  PresenceBacked'
      BY <2>3 DEF SaveDevice, PresenceBacked
    <2>4. CASE Interrupt \/ BeginShutdown \/ ReturnFromShutdown
      BY <1>1, <2>4 DEF Interrupt, BeginShutdown, ReturnFromShutdown
    <2>5. CASE Crash
      <3>1. PICK w \in Writers : TRUE
        BY <2>5 DEF Crash
      <3>2. writer'[w].pc = "done"
        BY <2>5, <3>1 DEF Crash
      <3> QED
        BY <3>2 DEF PresenceBacked
    <2> QED
      BY <1>4, <2>1, <2>2, <2>3, <2>4, <2>5 DEF Environment
  <1> QED
    BY <1>2, <1>3, <1>4

\* Overlapping connections of one device, in any number and order, never leave its
\* record connected for good (MarkConnected, UpdateDescription, MarkDisconnected), as
\* long as no other request saves a device record and the process does not die.  A
\* crash is told from PresenceBacked by the writers it ends, so there must be one.
THEOREM PresenceIsBacked ==
  ASSUME Writers # {} \/ "crash" \notin Faults
  PROVE  Spec => []PresenceBacked
PROOF
  <1>1. Init => PresenceBacked
    BY DEF Init, PresenceBacked
  <1>2. ServerInv /\ PresenceBacked /\ [Next]_vars => PresenceBacked'
    <2> SUFFICES ASSUME ServerInv, PresenceBacked, [Next]_vars
                 PROVE  PresenceBacked'
      OBVIOUS
    <2>1. CASE Next
      BY <2>1, HandlerStepBacked, OtherStepsBacked DEF Next
    <2>2. CASE UNCHANGED vars
      BY <2>2 DEF PresenceBacked, vars, session
    <2> QED
      BY <2>1, <2>2
  <1> QED
    BY <1>1, <1>2, ServerInvariant, PTL DEF Spec
=============================================================================
