------------------------------ MODULE Startup ------------------------------
(***************************************************************************)
(* The life of the server process (cmd/spark-server/main.go and            *)
(* internal/app/app.go) over the key files it leaves on disk               *)
(* (internal/protocol/keys/manager.go): start, wait, shutdown, and crashes *)
(* at any step, after which it is started again.  Devices keep the public  *)
(* key they were given, so that the key pair has to outlive every crash.   *)
(***************************************************************************)
EXTENDS Naturals

CONSTANTS
  MaxLives  \* bound of the starts of the process

ASSUME LivesAssumption == MaxLives \in Nat

VARIABLES
  privateFile,  \* the private key file: [state, pair]
  publicFile,   \* the public key file
  life,         \* the process: where it is, and how often it was started
  made,         \* key pairs generated so far; also the pair at hand
  http, tcp,    \* the listeners: "closed", "open", or "failed" with its error reported
  streaming,    \* a request of the API, such as an event stream, is under way
  signalled,    \* the process has been sent SIGINT or SIGTERM
  served        \* history: the key pairs that devices could have been given

startupVars ==
  <<privateFile, publicFile, life, made, http, tcp, streaming, signalled, served>>

NoFile == [state |-> "none", pair |-> 0]
Partial(pair) == [state |-> "partial", pair |-> pair]
Whole(pair) == [state |-> "whole", pair |-> pair]

At(label) == life.pc = label
Go(label) == life' = [life EXCEPT !.pc = label]

Files == <<privateFile, publicFile, made>>
Listeners == <<http, tcp, streaming>>

-----------------------------------------------------------------------------
\* main: the settings are read, or there are none; EnsureDirectories.
Launch ==
  /\ At("down")
  /\ life.count < MaxLives
  /\ life' = [pc |-> "keys", count |-> life.count + 1]
  /\ UNCHANGED <<Files, Listeners, signalled, served>>

\* Any error of Start ends the process with status 1.
PrepareFails ==
  /\ life.pc \in {"keys", "private", "public", "admin"}
  /\ Go("exit")
  /\ UNCHANGED <<Files, Listeners, signalled, served>>

\* Mutant: the public key's file is not asked for.
EnsurePrivateKey ==
  /\ At("keys")
  /\ IF privateFile # NoFile THEN Go("admin") /\ UNCHANGED Files
     ELSE /\ made' = made + 1
          /\ privateFile' = Partial(made')
          /\ UNCHANGED publicFile
          /\ Go("private")
  /\ UNCHANGED <<Listeners, signalled, served>>

\* EnsureServerKeyPair: a private key file that exists is kept, but then the public one
\* must exist as well; without one a pair is generated and its file created.
EnsureServerKeyPair ==
  /\ At("keys")
  /\ IF privateFile # NoFile
     THEN Go(IF publicFile # NoFile THEN "admin" ELSE "exit") /\ UNCHANGED Files
     ELSE /\ made' = made + 1
          /\ privateFile' = Partial(made')
          /\ UNCHANGED publicFile
          /\ Go("private")
  /\ UNCHANGED <<Listeners, signalled, served>>

\* writePEM creates a file and then writes it: the private key first ...
WritePrivateKey ==
  /\ At("private")
  /\ privateFile' = Whole(made)
  /\ Go("public")
  /\ UNCHANGED <<publicFile, made, Listeners, signalled, served>>

\* ... and then the public key.
CreatePublicKey ==
  /\ At("public")
  /\ publicFile = NoFile
  /\ publicFile' = Partial(made)
  /\ UNCHANGED <<privateFile, made, life, Listeners, signalled, served>>

WritePublicKey ==
  /\ At("public")
  /\ publicFile # NoFile
  /\ publicFile' = Whole(made)
  /\ Go("admin")
  /\ UNCHANGED <<privateFile, made, Listeners, signalled, served>>

\* EnsureDefaultAdmin, whose repository refuses the context once a signal has ended it.
EnsureAdmin ==
  /\ At("admin")
  /\ Go(IF signalled THEN "exit" ELSE "http")
  /\ UNCHANGED <<Files, Listeners, signalled, served>>

\* httpapi's Start: net.Listen, and the TLS configuration; the listener is closed again
\* if that fails.
StartHTTP ==
  /\ At("http")
  /\ \/ http' = "open" /\ Go("tcp")
     \/ UNCHANGED http /\ Go("exit")
  /\ UNCHANGED <<Files, tcp, streaming, signalled, served>>

\* Mutant: the API stays up without its device server.
StartTCPOnly ==
  /\ At("tcp")
  /\ \/ tcp' = "open" /\ Go("wait") /\ served' = served \union {publicFile}
     \/ UNCHANGED <<tcp, served>> /\ Go("failed")
  /\ UNCHANGED <<Files, http, streaming, signalled>>

\* tcp's Start; if it fails the API is shut down again: its listener closes at once.
StartTCP ==
  /\ At("tcp")
  /\ \/ tcp' = "open" /\ Go("wait") /\ served' = served \union {publicFile}
        /\ UNCHANGED http
     \/ http' = "closed" /\ Go("failed") /\ UNCHANGED <<tcp, served>>
  /\ UNCHANGED <<Files, streaming, signalled>>

\* Mutant: the shutdown of the API does not look at the context.
ExitIdle ==
  /\ At("failed")
  /\ ~streaming
  /\ Go("exit")
  /\ UNCHANGED <<Files, Listeners, signalled, served>>

\* That shutdown waits for the requests under way until the context of the whole run ends,
\* with a signal and not before; then Start has returned its error, and os.Exit.
ExitFailed ==
  /\ At("failed")
  /\ ~streaming \/ signalled
  /\ Go("exit")
  /\ UNCHANGED <<Files, Listeners, signalled, served>>

-----------------------------------------------------------------------------
\* A client of the API opens an event stream, or goes; nothing makes it go.
Stream ==
  /\ \/ http = "open" /\ ~streaming
     \/ streaming
  /\ streaming' = ~streaming
  /\ UNCHANGED <<Files, life, http, tcp, signalled, served>>

\* A listener fails and reports it, in a channel with room for it.
ListenerFails ==
  /\ life.pc \in {"tcp", "wait"}
  /\ \/ http = "open" /\ http' = "failed" /\ UNCHANGED tcp
     \/ tcp = "open" /\ tcp' = "failed" /\ UNCHANGED http
  /\ UNCHANGED <<Files, life, streaming, signalled, served>>

Signal ==
  /\ ~At("down") /\ ~At("exit")
  /\ ~signalled
  /\ signalled' = TRUE
  /\ UNCHANGED <<Files, Listeners, life, served>>

\* Mutant: a failing listener is not noticed.
WaitSignal ==
  /\ At("wait")
  /\ signalled
  /\ Go("stopTCP")
  /\ UNCHANGED <<Files, Listeners, signalled, served>>

\* Wait: a listener's error, or the signal.
Wait ==
  /\ At("wait")
  /\ signalled \/ http = "failed" \/ tcp = "failed"
  /\ Go("stopTCP")
  /\ UNCHANGED <<Files, Listeners, signalled, served>>

\* Shutdown: first the devices' side, in DeviceServer, until it is done or ten seconds
\* have passed; either way the API is next.
ShutdownTCP ==
  /\ At("stopTCP")
  /\ tcp' = "closed"
  /\ Go("stopHTTP")
  /\ UNCHANGED <<Files, http, streaming, signalled, served>>

\* The requests under way get what is left of the ten seconds.
ShutdownHTTP ==
  /\ At("stopHTTP")
  /\ http' = "closed"
  /\ Go("exit")
  /\ UNCHANGED <<Files, tcp, streaming, signalled, served>>

\* The process is gone, and with it its listeners.
Exit ==
  /\ At("exit")
  /\ http' = "closed" /\ tcp' = "closed" /\ streaming' = FALSE /\ signalled' = FALSE
  /\ Go("down")
  /\ UNCHANGED <<Files, served>>

Crash ==
  /\ ~At("down")
  /\ http' = "closed" /\ tcp' = "closed" /\ streaming' = FALSE /\ signalled' = FALSE
  /\ Go("down")
  /\ UNCHANGED <<Files, served>>

StartupInit ==
  /\ privateFile = NoFile /\ publicFile = NoFile
  /\ life = [pc |-> "down", count |-> 0]
  /\ made = 0
  /\ http = "closed" /\ tcp = "closed"
  /\ streaming = FALSE /\ signalled = FALSE
  /\ served = {}

ProcessStep ==
  \/ EnsureServerKeyPair \/ WritePrivateKey \/ CreatePublicKey \/ WritePublicKey
  \/ EnsureAdmin
  \/ StartHTTP \/ StartTCP \/ ExitFailed
  \/ Wait \/ ShutdownTCP \/ ShutdownHTTP \/ Exit

StartupNext ==
  Launch \/ PrepareFails \/ ProcessStep \/ Stream \/ ListenerFails \/ Signal \/ Crash

\* The process runs; nothing has to fail, and nobody has to start it, to stop it or to leave
\* a stream.
StartupFairness == WF_startupVars(ProcessStep)

StartupSpec == StartupInit /\ [][StartupNext]_startupVars /\ StartupFairness

-----------------------------------------------------------------------------
\* Types; a failed Start has left no listener open, and a process that is down none.
StartupTypeOK ==
  /\ privateFile.state \in {"none", "partial", "whole"}
  /\ made \in 0 .. MaxLives
  /\ life.pc \in {"failed", "down"} => http # "open" /\ tcp # "open"
  /\ tcp # "closed" => http # "closed"

\* EnsureServerKeyPair: types; and whatever the starts and crashes before, a server that is up has
\* a whole private key to shake hands with, of the same pair as its public key file and
\* as every pair it has ever served with: no crash makes it change its identity.
KeyPairKept ==
  /\ StartupTypeOK
  /\ tcp # "closed" => privateFile.state = "whole" /\ publicFile.pair = privateFile.pair
  /\ \A f \in served : f.pair = privateFile.pair

\* A start ends with both listeners up or with the process gone, except that a device server
\* that cannot listen leaves the process waiting, without a deadline, for the requests that the
\* API has accepted; it goes with the last of them or with a signal.  A signal, or a listener
\* that fails, ends a process that is up.
StartAndStopReturn ==
  /\ At("keys") ~> At("wait") \/ At("down") \/ (At("failed") /\ streaming /\ ~signalled)
  /\ At("failed") /\ (~streaming \/ signalled) ~> At("down")
  /\ At("wait") /\ (signalled \/ http = "failed" \/ tcp = "failed") ~> At("down")
=============================================================================
