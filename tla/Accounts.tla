----------------------------- MODULE Accounts -----------------------------
(***************************************************************************)
(* Accounts and bearer tokens (internal/auth/service.go) with the HTTP     *)
(* handlers that use them (internal/httpapi/server.go).  Every repository  *)
(* access is a step; repositories are atomic and durable, as RecordStore   *)
(* promises.  The server may stop at any moment, and every start makes     *)
(* sure of the default administrator, with the password its settings then  *)
(* hold.                                                                   *)
(***************************************************************************)
EXTENDS Naturals

CONSTANTS
  Names,      \* user names, which are also the users' ids
  Admin,      \* the name in the settings
  Passwords,
  Tokens,     \* the values newToken draws, none of them twice
  Clients,    \* goroutines that serve a request
  MaxStarts   \* bound of the starts of the server

ASSUME AccountAssumption ==
  /\ "none" \notin Passwords
  /\ {"none", "unused", "deleted"} \cap Names = {}
  /\ Admin \in Names

VARIABLES
  user,       \* users: name -> password it was created with, or "none"
  token,      \* tokens: value -> user, "unused" or "deleted"
  lapsed,     \* the tokens whose ExpiresAt is past
  request,    \* what each goroutine does
  start,      \* the start-up: label and configured password
  starts,     \* how often the server has been started
  answered,   \* history: name and password of every creation that succeeded
  revoked     \* history: tokens whose deletion has been answered

accountVars == <<user, token, lapsed, request, start, starts, answered, revoked>>

Idle == [pc |-> "idle", op |-> "none", name |-> "none", password |-> "none",
         token |-> "none", dead |-> {}]

Serving == start.pc = "up"

Proceed(c, label) == request' = [request EXCEPT ![c].pc = label]
Respond(c) == request' = [request EXCEPT ![c] = Idle]

-----------------------------------------------------------------------------
\* tokenHandler and createUserHandler.
ReceiveCredentials(c, op, n, p) ==
  /\ Serving
  /\ request[c] = Idle
  /\ request' = [request EXCEPT ![c] = [Idle EXCEPT !.pc = "lookup", !.op = op,
                                                    !.name = n, !.password = p]]
  /\ UNCHANGED <<user, token, lapsed, start, starts, answered, revoked>>

\* Mutant: a user who is not found is taken for one whose password is empty.
GetAnyUsername(c) ==
  LET r == request[c]
      goesOn == user[r.name] \in {"none"} \union (IF r.op = "login" THEN {r.password} ELSE {})
  IN
  /\ r.pc = "lookup"
  /\ IF goesOn THEN Proceed(c, "store") ELSE Respond(c)
  /\ UNCHANGED <<user, token, lapsed, start, starts, answered, revoked>>

\* CreateUser and Login: GetByUsername, and VerifyPassword.
GetByUsername(c) ==
  LET r == request[c]
      goesOn == \/ r.op = "create" /\ user[r.name] = "none"
                \/ r.op = "login" /\ user[r.name] = r.password
  IN
  /\ r.pc = "lookup"
  /\ IF goesOn THEN Proceed(c, "store") ELSE Respond(c)
  /\ UNCHANGED <<user, token, lapsed, start, starts, answered, revoked>>

\* Mutant: the user is saved, over one that was created meanwhile.
SaveNewUser(c) ==
  LET r == request[c] IN
  /\ r.pc = "store" /\ r.op = "create"
  /\ user' = [user EXCEPT ![r.name] = r.password]
  /\ answered' = answered \union {<<r.name, r.password>>}
  /\ Respond(c)
  /\ UNCHANGED <<token, lapsed, start, starts, revoked>>

\* CreateUser: users.Create refuses a name that has been taken meanwhile.
CreateUser(c) ==
  LET r == request[c] IN
  /\ r.pc = "store" /\ r.op = "create"
  /\ \/ /\ user[r.name] = "none"
        /\ user' = [user EXCEPT ![r.name] = r.password]
        /\ answered' = answered \union {<<r.name, r.password>>}
     \/ /\ user[r.name] # "none"
        /\ UNCHANGED <<user, answered>>
  /\ Respond(c)
  /\ UNCHANGED <<token, lapsed, start, starts, revoked>>

\* Login: the token is created for the user who was read.
Login(c) ==
  LET r == request[c] IN
  /\ r.pc = "store" /\ r.op = "login"
  /\ \E t \in Tokens :
       /\ token[t] = "unused"
       /\ token' = [token EXCEPT ![t] = r.name]
  /\ Respond(c)
  /\ UNCHANGED <<user, lapsed, start, starts, answered, revoked>>

-----------------------------------------------------------------------------
\* requireAuth: a request with a token begins.  History: which tokens are dead by then.
ReceiveToken(c, t) ==
  /\ Serving
  /\ request[c] = Idle
  /\ request' = [request EXCEPT ![c] = [Idle EXCEPT !.pc = "token", !.op = "use",
                                          !.token = t, !.dead = revoked \union lapsed]]
  /\ UNCHANGED <<user, token, lapsed, start, starts, answered, revoked>>

\* Mutant: the expiry is not looked at.
GetAnyToken(c) ==
  LET t == request[c].token IN
  /\ request[c].pc = "token"
  /\ IF token[t] \in Names
     THEN request' = [request EXCEPT ![c].pc = "owner", ![c].name = token[t]]
     ELSE Respond(c)
  /\ UNCHANGED <<user, token, lapsed, start, starts, answered, revoked>>

\* AuthenticateToken: the token must exist and not be expired ...
GetToken(c) ==
  LET t == request[c].token IN
  /\ request[c].pc = "token"
  /\ IF token[t] \in Names /\ t \notin lapsed
     THEN request' = [request EXCEPT ![c].pc = "owner", ![c].name = token[t]]
     ELSE Respond(c)
  /\ UNCHANGED <<user, token, lapsed, start, starts, answered, revoked>>

\* ... and so must its user.
GetOwner(c) ==
  /\ request[c].pc = "owner"
  /\ IF user[request[c].name] # "none" THEN Proceed(c, "accepted") ELSE Respond(c)
  /\ UNCHANGED <<user, token, lapsed, start, starts, answered, revoked>>

\* deleteTokenHandler: any token that is named, and one that is missing is no error.
DeleteToken(c, t) ==
  /\ request[c].pc = "accepted"
  /\ token' = [token EXCEPT ![t] = IF @ = "unused" THEN @ ELSE "deleted"]
  /\ revoked' = IF token[t] = "unused" THEN revoked ELSE revoked \union {t}
  /\ Respond(c)
  /\ UNCHANGED <<user, lapsed, start, starts, answered>>

\* listTokensHandler, and every handler that changes nothing here.
ServeRequest(c) ==
  /\ request[c].pc = "accepted"
  /\ Respond(c)
  /\ UNCHANGED <<user, token, lapsed, start, starts, answered, revoked>>

\* The clock passes the ExpiresAt of a token.
Lapse(t) ==
  /\ token[t] \in Names
  /\ t \notin lapsed
  /\ lapsed' = lapsed \union {t}
  /\ UNCHANGED <<user, token, request, start, starts, answered, revoked>>

-----------------------------------------------------------------------------
\* Start: EnsureDefaultAdmin looks for the configured name ...
StartServer(p) ==
  /\ start.pc = "down"
  /\ starts < MaxStarts
  /\ starts' = starts + 1
  /\ start' = [pc |-> IF user[Admin] = "none" THEN "admin" ELSE "up", password |-> p]
  /\ UNCHANGED <<user, token, lapsed, request, answered, revoked>>

\* ... and creates the user if there is none; only then does the API listen.
EnsureDefaultAdmin ==
  /\ start.pc = "admin"
  /\ user' = [user EXCEPT ![Admin] = start.password]
  /\ answered' = answered \union {<<Admin, start.password>>}
  /\ start' = [start EXCEPT !.pc = "up"]
  /\ UNCHANGED <<token, lapsed, request, starts, revoked>>

\* The server ends, in a crash or not; requests are lost where they are.
StopServer ==
  /\ start.pc # "down"
  /\ start' = [start EXCEPT !.pc = "down"]
  /\ request' = [c \in Clients |-> Idle]
  /\ UNCHANGED <<user, token, lapsed, starts, answered, revoked>>

AccountInit ==
  /\ user = [n \in Names |-> "none"]
  /\ token = [t \in Tokens |-> "unused"]
  /\ lapsed = {} /\ revoked = {} /\ answered = {}
  /\ request = [c \in Clients |-> Idle]
  /\ start \in [pc : {"down"}, password : Passwords]
  /\ starts = 0

AccountNext ==
  \/ \E c \in Clients :
       \/ \E op \in {"create", "login"}, n \in Names, p \in Passwords :
            ReceiveCredentials(c, op, n, p)
       \/ GetByUsername(c) \/ CreateUser(c) \/ Login(c)
       \/ \E t \in Tokens : ReceiveToken(c, t) \/ DeleteToken(c, t)
       \/ GetToken(c) \/ GetOwner(c) \/ ServeRequest(c)
  \/ \E t \in Tokens : Lapse(t)
  \/ \E p \in Passwords : StartServer(p)
  \/ EnsureDefaultAdmin \/ StopServer

AccountSpec == AccountInit /\ [][AccountNext]_accountVars

-----------------------------------------------------------------------------
\* Types.  A token belongs to a user who exists, and is in use before it lapses.
AccountTypeOK ==
  /\ user \in [Names -> Passwords \union {"none"}]
  /\ token \in [Tokens -> Names \union {"unused", "deleted"}]
  /\ \A t \in Tokens : token[t] \in Names => user[token[t]] # "none"
  /\ \A t \in lapsed : token[t] # "unused"
  /\ start.pc \in {"down", "admin", "up"}

\* CreateUser, EnsureDefaultAdmin: the password of a creation that succeeded is the
\* one that logs in, for good: no concurrent creation of the name and no later start
\* with other settings replaces it, and at most one creation of a name succeeds.
PasswordKept == \A x \in answered : user[x[1]] = x[2]

\* AuthenticateToken, DeleteToken: types; and a request is served only with a token that,
\* when the request began, had neither been deleted nor expired, and on behalf of the user
\* whose password was given for it.
TokenHonoured ==
  /\ AccountTypeOK
  /\ \A c \in Clients : request[c].pc = "accepted" =>
       /\ request[c].token \notin request[c].dead
       /\ token[request[c].token] \in {request[c].name, "deleted"}
=============================================================================
