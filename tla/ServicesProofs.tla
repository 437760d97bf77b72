-------------------------- MODULE ServicesProofs --------------------------
(***************************************************************************)
(* What the services promise for any users, tokens, deliveries and packets:*)
(* passwords are kept and dead tokens refused.                             *)
(***************************************************************************)
EXTENDS Accounts, Webhooks, WireCodecs, Integers, WellFoundedInduction,
        FiniteSetTheorems, SequenceTheorems, TLAPS

-----------------------------------------------------------------------------
(* Accounts *)

Users == user \in [Names -> Passwords \union {"none"}]

\* A creation that was answered has its password stored; the start-up creates only
\* an administrator who is missing, while nobody is served.
UsersInv ==
  /\ Users
  /\ answered \subseteq Names \X Passwords
  /\ PasswordKept
  /\ start \in [pc : {"down", "admin", "up"}, password : Passwords]
  /\ start.pc # "up" => \A c \in Clients : request[c] = Idle
  /\ start.pc = "admin" => user[Admin] = "none"

Shapes ==
  [pc : {"idle", "lookup", "store", "token", "owner", "accepted"},
   op : {"none", "create", "login", "use"}, name : Names \union {"none"},
   password : Passwords \union {"none"}, token : Tokens \union {"none"},
   dead : SUBSET Tokens]

RequestTypes == request \in [Clients -> Shapes]

\* A token belongs to a user for good, or is deleted; a request that has looked one up
\* found it alive, and found whose it is.
TokensInv ==
  /\ token \in [Tokens -> Names \union {"unused", "deleted"}]
  /\ revoked \subseteq Tokens /\ lapsed \subseteq Tokens
  /\ \A t \in Tokens : token[t] \in Names => user[token[t]] # "none"
  /\ \A t \in lapsed : token[t] # "unused"
  /\ \A t \in revoked : token[t] = "deleted"
  /\ \A c \in Clients :
       LET r == request[c] IN
       /\ r.pc \in {"lookup", "store"} => /\ r.op \in {"create", "login"} /\ r.name \in Names
                                          /\ r.password \in Passwords
       /\ r.pc = "store" /\ r.op = "login" => user[r.name] # "none"
       /\ r.pc \in {"token", "owner", "accepted"} => /\ r.token \in Tokens
                                                      /\ r.dead \subseteq revoked \union lapsed
       /\ r.pc \in {"owner", "accepted"} => /\ r.token \notin r.dead
                                            /\ token[r.token] \in {r.name, "deleted"}

AccountInv == UsersInv /\ RequestTypes /\ TokensInv

LEMMA IdleRequest == Idle.pc = "idle" /\ Idle \in Shapes
BY DEF Idle, Shapes

LEMMA AccountInitInv == AccountInit => AccountInv
<1> SUFFICES ASSUME AccountInit PROVE AccountInv
  OBVIOUS
<1>1. UsersInv
  BY DEF AccountInit, UsersInv, Users, PasswordKept
<1>2. RequestTypes /\ \A c \in Clients : request[c].pc = "idle"
  BY IdleRequest DEF AccountInit, RequestTypes
<1>3. TokensInv
  BY <1>2, AccountAssumption DEF AccountInit, TokensInv
<1> QED BY <1>1, <1>2, <1>3 DEF AccountInv

\* A request goes on to a label, by itself.
LEMMA GoesOn ==
  ASSUME AccountInv, NEW c \in Clients,
         NEW label \in {"idle", "lookup", "store", "token", "owner", "accepted"},
         Proceed(c, label)
  PROVE  /\ RequestTypes' /\ request'[c].pc = label
         /\ request'[c].op = request[c].op /\ request'[c].name = request[c].name
         /\ request'[c].password = request[c].password
         /\ request'[c].token = request[c].token /\ request'[c].dead = request[c].dead
         /\ \A b \in Clients : b # c => request'[b] = request[b]
BY DEF AccountInv, RequestTypes, Shapes, Proceed

LEMMA Responded ==
  ASSUME RequestTypes, NEW c \in Clients, Respond(c)
  PROVE  /\ RequestTypes' /\ request'[c] = Idle
         /\ \A b \in Clients : b # c => request'[b] = request[b]
BY IdleRequest DEF RequestTypes, Respond

LEMMA ServingKept ==
  ASSUME UsersInv, NEW c \in Clients, request[c].pc # "idle",
         UNCHANGED <<user, start, answered>>
  PROVE  UsersInv'
<1>1. start.pc = "up"
  BY IdleRequest DEF UsersInv
<1> QED BY <1>1 DEF UsersInv, Users, PasswordKept

LEMMA ReceiveStep ==
  ASSUME AccountInv, NEW c \in Clients,
         \/ \E op \in {"create", "login"}, n \in Names, p \in Passwords :
              ReceiveCredentials(c, op, n, p)
         \/ \E t \in Tokens : ReceiveToken(c, t)
  PROVE  AccountInv'
<1>1. start.pc = "up" /\ UNCHANGED <<user, token, lapsed, start, starts, answered, revoked>>
  BY DEF ReceiveCredentials, ReceiveToken, Serving
<1>2. UsersInv'
  BY <1>1 DEF AccountInv, UsersInv, Users, PasswordKept
<1>3. CASE \E op \in {"create", "login"}, n \in Names, p \in Passwords :
             ReceiveCredentials(c, op, n, p)
  <2>1. PICK op \in {"create", "login"}, n \in Names, p \in Passwords :
               ReceiveCredentials(c, op, n, p)
    BY <1>3
  <2> DEFINE next == [Idle EXCEPT !.pc = "lookup", !.op = op, !.name = n, !.password = p]
  <2>4. request' = [request EXCEPT ![c] = next]
    BY <2>1 DEF ReceiveCredentials
  <2>2. /\ next.pc = "lookup" /\ next.op = op /\ next.name = n /\ next.password = p
        /\ next \in Shapes
    BY DEF Idle, Shapes
  <2> HIDE DEF next
  <2>3. /\ RequestTypes' /\ request'[c] = next
        /\ \A b \in Clients : b # c => request'[b] = request[b]
    BY <2>2, <2>4 DEF AccountInv, RequestTypes
  <2> QED BY <1>1, <1>2, <2>2, <2>3 DEF AccountInv, TokensInv
<1>4. CASE \E t \in Tokens : ReceiveToken(c, t)
  <2>1. PICK t \in Tokens : ReceiveToken(c, t)
    BY <1>4
  <2> DEFINE next == [Idle EXCEPT !.pc = "token", !.op = "use", !.token = t,
                                  !.dead = revoked \union lapsed]
  <2>4. request' = [request EXCEPT ![c] = next]
    BY <2>1 DEF ReceiveToken
  <2>2. /\ next.pc = "token" /\ next.op = "use" /\ next.token = t
        /\ next.dead = revoked \union lapsed /\ next \in Shapes
    BY DEF Idle, Shapes, AccountInv, TokensInv
  <2> HIDE DEF next
  <2>3. /\ RequestTypes' /\ request'[c] = next
        /\ \A b \in Clients : b # c => request'[b] = request[b]
    BY <2>2, <2>4 DEF AccountInv, RequestTypes
  <2> QED BY <1>1, <1>2, <2>2, <2>3 DEF AccountInv, TokensInv
<1> QED BY <1>3, <1>4

\* The password of a login that goes on is that of a user who exists.
LEMMA LookupStep ==
  ASSUME AccountInv, NEW c \in Clients, GetByUsername(c)
  PROVE  AccountInv'
<1>1. /\ request[c].pc = "lookup"
      /\ UNCHANGED <<user, token, lapsed, start, starts, answered, revoked>>
  BY DEF GetByUsername
<1>2. UsersInv'
  BY <1>1, ServingKept DEF AccountInv
<1>3. CASE Respond(c)
  BY <1>1, <1>2, <1>3, Responded, IdleRequest DEF AccountInv, TokensInv
<1>4. CASE /\ Proceed(c, "store")
           /\ request[c].op = "login" => user[request[c].name] = request[c].password
  <2>1. request[c].op = "login" => user[request[c].name] # "none"
    BY <1>1, <1>4, AccountAssumption DEF AccountInv, TokensInv
  <2>2. /\ RequestTypes' /\ request'[c].pc = "store"
        /\ request'[c].op = request[c].op /\ request'[c].name = request[c].name
        /\ request'[c].password = request[c].password
        /\ \A b \in Clients : b # c => request'[b] = request[b]
    BY <1>4, GoesOn
  <2>4. TokensInv'
    BY <1>1, <2>1, <2>2 DEF AccountInv, TokensInv
  <2> QED BY <1>2, <2>2, <2>4 DEF AccountInv
<1> QED BY <1>1, <1>3, <1>4 DEF GetByUsername

\* A name is taken once: what is stored is not what an earlier answer promised.
LEMMA NewUser ==
  ASSUME UsersInv, NEW n \in Names, NEW p \in Passwords, user[n] = "none",
         user' = [user EXCEPT ![n] = p], answered' = answered \union {<<n, p>>}
  PROVE  Users' /\ PasswordKept' /\ answered' \subseteq Names \X Passwords
<1>1. Users' /\ user'[n] = p /\ \A m \in Names : m # n => user'[m] = user[m]
  BY DEF UsersInv, Users
<1>2. ASSUME NEW x \in answered PROVE user'[x[1]] = x[2]
  <2>1. x[1] \in Names /\ x[2] \in Passwords /\ user[x[1]] = x[2]
    BY <1>2 DEF UsersInv, PasswordKept
  <2>2. x[1] # n
    BY <2>1, AccountAssumption
  <2> QED BY <1>1, <2>1, <2>2
<1> QED BY <1>1, <1>2 DEF UsersInv, PasswordKept

LEMMA CreateStep ==
  ASSUME AccountInv, NEW c \in Clients, CreateUser(c)
  PROVE  AccountInv'
<1> DEFINE r == request[c]
<1>1. /\ r.pc = "store" /\ r.name \in Names /\ r.password \in Passwords /\ start.pc = "up"
      /\ UNCHANGED <<token, lapsed, start, starts, revoked>> /\ Respond(c)
  BY IdleRequest DEF CreateUser, AccountInv, TokensInv, UsersInv
<1>2. UsersInv' /\ \A n \in Names : user[n] # "none" => user'[n] # "none"
  <2>1. CASE user[r.name] = "none"
    <3>1. /\ user' = [user EXCEPT ![r.name] = r.password]
          /\ answered' = answered \union {<<r.name, r.password>>}
      BY <2>1 DEF CreateUser
    <3>2. Users' /\ PasswordKept' /\ answered' \subseteq Names \X Passwords
      BY <1>1, <2>1, <3>1, NewUser DEF AccountInv
    <3> QED BY <1>1, <2>1, <3>1, <3>2, AccountAssumption DEF AccountInv, UsersInv, Users
  <2>2. CASE user[r.name] # "none"
    <3>1. UNCHANGED <<user, answered>>
      BY <2>2 DEF CreateUser
    <3> QED BY <1>1, <3>1, ServingKept DEF AccountInv
  <2> QED BY <2>1, <2>2
<1>3. TokensInv'
  BY <1>1, <1>2, Responded, IdleRequest DEF AccountInv, TokensInv
<1> QED BY <1>1, <1>2, <1>3, Responded DEF AccountInv

\* Tokens that are drawn were in no request; those deleted belong to a request at work.
LEMMA TokenStep ==
  ASSUME AccountInv, NEW c \in Clients,
         Login(c) \/ \E t \in Tokens : DeleteToken(c, t)
  PROVE  AccountInv'
<1> DEFINE r == request[c]
<1>1. /\ r.pc # "idle" /\ UNCHANGED <<user, lapsed, start, starts, answered>> /\ Respond(c)
  BY DEF Login, DeleteToken
<1>2. UsersInv' /\ RequestTypes'
  BY <1>1, ServingKept, Responded DEF AccountInv
<1>3. ASSUME Login(c) PROVE TokensInv'
  <2>1. PICK t \in Tokens : token[t] = "unused" /\ token' = [token EXCEPT ![t] = r.name]
    BY <1>3 DEF Login
  <2>2. r.name \in Names /\ user[r.name] # "none" /\ revoked' = revoked
    BY <1>3 DEF Login, AccountInv, TokensInv
  <2>3. /\ token' \in [Tokens -> Names \union {"unused", "deleted"}] /\ token'[t] = r.name
        /\ \A s \in Tokens : s # t => token'[s] = token[s]
    BY <2>1, <2>2 DEF AccountInv, TokensInv
  <2>4. ASSUME NEW b \in Clients, request[b].pc \in {"owner", "accepted"}
        PROVE  token[request[b].token] # "unused" /\ request[b].token \in Tokens
    BY <2>4, AccountAssumption DEF AccountInv, TokensInv, RequestTypes, Shapes
  <2> QED BY <1>1, <2>1, <2>2, <2>3, <2>4, Responded, IdleRequest, AccountAssumption
          DEF AccountInv, TokensInv
<1>4. ASSUME NEW t \in Tokens, DeleteToken(c, t) PROVE TokensInv'
  <2>1. CASE token[t] = "unused"
    <3>1. token' = token /\ revoked' = revoked
      BY <1>4, <2>1 DEF DeleteToken, AccountInv, TokensInv
    <3> QED BY <1>1, <3>1, Responded, IdleRequest DEF AccountInv, TokensInv
  <2>2. CASE token[t] # "unused"
    <3>1. /\ token' \in [Tokens -> Names \union {"unused", "deleted"}]
          /\ token'[t] = "deleted" /\ revoked' = revoked \union {t}
          /\ \A s \in Tokens : s # t => token'[s] = token[s]
      BY <1>4, <2>2 DEF DeleteToken, AccountInv, TokensInv
    <3>2. "deleted" \notin Names
      BY AccountAssumption
    <3> QED BY <1>1, <3>1, <3>2, Responded, IdleRequest DEF AccountInv, TokensInv
  <2> QED BY <2>1, <2>2
<1> QED BY <1>2, <1>3, <1>4 DEF AccountInv

\* AuthenticateToken: a token that is named by a user is in no request's list of the dead,
\* unless it has lapsed.
LEMMA AuthenticateStep ==
  ASSUME AccountInv, NEW c \in Clients, GetToken(c) \/ GetOwner(c) \/ ServeRequest(c)
  PROVE  AccountInv'
<1> DEFINE r == request[c]
<1>1. /\ r.pc \in {"token", "owner", "accepted"}
      /\ UNCHANGED <<user, token, lapsed, start, starts, answered, revoked>>
  BY DEF GetToken, GetOwner, ServeRequest
<1>2. UsersInv'
  BY <1>1, ServingKept DEF AccountInv
<1>3. CASE Respond(c)
  BY <1>1, <1>2, <1>3, Responded, IdleRequest DEF AccountInv, TokensInv
<1>4. CASE /\ r.pc = "token" /\ token[r.token] \in Names /\ r.token \notin lapsed
           /\ request' = [request EXCEPT ![c].pc = "owner", ![c].name = token[r.token]]
  <2>1. /\ r.token \in Tokens /\ r.dead \subseteq revoked \union lapsed
        /\ r.token \notin revoked
    BY <1>4, AccountAssumption DEF AccountInv, TokensInv
  <2>2. token[r.token] \in Names \union {"none"}
    BY <1>4
  <2>3. /\ RequestTypes'
        /\ request'[c].pc = "owner" /\ request'[c].name = token[r.token]
        /\ request'[c].token = r.token /\ request'[c].dead = r.dead
        /\ \A b \in Clients : b # c => request'[b] = request[b]
    <3> DEFINE next == [r EXCEPT !.pc = "owner", !.name = token[r.token]]
    <3>1. request \in [Clients -> Shapes] /\ r \in Shapes
      BY DEF AccountInv, RequestTypes
    <3>2. /\ next \in Shapes /\ next.pc = "owner" /\ next.name = token[r.token]
          /\ next.token = r.token /\ next.dead = r.dead
      BY <2>2, <3>1 DEF Shapes
    <3>3. request' = [request EXCEPT ![c] = next]
      BY <1>4
    <3> HIDE DEF next
    <3> QED BY <3>1, <3>2, <3>3 DEF RequestTypes
  <2>4. r.token \notin r.dead
    BY <1>4, <2>1
  <2>5. TokensInv'
    BY <1>1, <2>1, <2>3, <2>4 DEF AccountInv, TokensInv
  <2> QED BY <1>2, <2>3, <2>5 DEF AccountInv
<1>5. CASE r.pc = "owner" /\ Proceed(c, "accepted")
  <2>1. /\ RequestTypes' /\ request'[c].pc = "accepted" /\ request'[c].name = r.name
        /\ request'[c].token = r.token /\ request'[c].dead = r.dead
        /\ \A b \in Clients : b # c => request'[b] = request[b]
    BY <1>5, GoesOn
  <2> QED BY <1>1, <1>2, <1>5, <2>1 DEF AccountInv, TokensInv
<1> QED BY <1>3, <1>4, <1>5 DEF GetToken, GetOwner, ServeRequest

\* The start-up creates the administrator only if there is none; a crash loses requests.
LEMMA ProcessStep ==
  ASSUME AccountInv,
         (\E p \in Passwords : StartServer(p)) \/ EnsureDefaultAdmin \/ StopServer
  PROVE  AccountInv'
<1>1. ASSUME NEW p \in Passwords, StartServer(p) PROVE AccountInv'
  <2>1. /\ start'.pc = IF user[Admin] = "none" THEN "admin" ELSE "up"
        /\ start' \in [pc : {"down", "admin", "up"}, password : Passwords]
        /\ UNCHANGED <<user, token, lapsed, request, answered, revoked>>
        /\ start.pc = "down"
    BY <1>1 DEF StartServer
  <2> QED BY <2>1 DEF AccountInv, UsersInv, Users, PasswordKept, RequestTypes, TokensInv
<1>2. ASSUME EnsureDefaultAdmin PROVE AccountInv'
  <2>1. /\ start.password \in Passwords /\ user[Admin] = "none" /\ Admin \in Names
        /\ UNCHANGED <<token, lapsed, request, starts, revoked>>
        /\ \A c \in Clients : request[c] = Idle
    BY <1>2, AccountAssumption DEF EnsureDefaultAdmin, AccountInv, UsersInv
  <2>2. Users' /\ PasswordKept' /\ answered' \subseteq Names \X Passwords
    BY <1>2, <2>1, NewUser DEF EnsureDefaultAdmin, AccountInv
  <2>3. /\ start'.pc = "up"
        /\ start' \in [pc : {"down", "admin", "up"}, password : Passwords]
    BY <1>2 DEF EnsureDefaultAdmin, AccountInv, UsersInv
  <2>4. \A n \in Names : user[n] # "none" => user'[n] # "none"
    BY <1>2, <2>1 DEF EnsureDefaultAdmin, AccountInv, UsersInv, Users
  <2>5. TokensInv'
    BY <2>1, <2>4, IdleRequest DEF AccountInv, TokensInv
  <2> QED BY <2>1, <2>2, <2>3, <2>5 DEF AccountInv, UsersInv, RequestTypes
<1>3. ASSUME StopServer PROVE AccountInv'
  <2>1. /\ start' \in [pc : {"down", "admin", "up"}, password : Passwords]
        /\ start'.pc = "down" /\ UNCHANGED <<user, token, lapsed, starts, answered, revoked>>
        /\ \A c \in Clients : request'[c] = Idle
    BY <1>3 DEF StopServer, AccountInv, UsersInv
  <2>2. RequestTypes'
    BY <1>3, IdleRequest DEF StopServer, RequestTypes
  <2>3. TokensInv'
    BY <2>1, IdleRequest DEF AccountInv, TokensInv
  <2> QED BY <2>1, <2>2, <2>3 DEF AccountInv, UsersInv, Users, PasswordKept
<1> QED BY <1>1, <1>2, <1>3

LEMMA LapseStep ==
  ASSUME AccountInv, NEW t \in Tokens, Lapse(t)
  PROVE  AccountInv'
<1>1. UsersInv' /\ RequestTypes'
  BY DEF Lapse, AccountInv, UsersInv, Users, PasswordKept, RequestTypes
<1>2. TokensInv'
  BY AccountAssumption DEF Lapse, AccountInv, TokensInv
<1> QED BY <1>1, <1>2 DEF AccountInv

\* Users, tokens and the requests about them, for any of these.
THEOREM AccountInvariant == AccountSpec => []AccountInv
<1>1. AccountInv /\ [AccountNext]_accountVars => AccountInv'
  <2> SUFFICES ASSUME AccountInv, [AccountNext]_accountVars PROVE AccountInv'
    OBVIOUS
  <2>1. CASE UNCHANGED accountVars
    BY <2>1 DEF accountVars, AccountInv, UsersInv, Users, PasswordKept, RequestTypes, TokensInv
  <2>2. CASE AccountNext
    BY <2>2, ReceiveStep, LookupStep, CreateStep, TokenStep, AuthenticateStep, ProcessStep,
       LapseStep DEF AccountNext
  <2> QED BY <2>1, <2>2
<1> QED BY <1>1, AccountInitInv, PTL DEF AccountSpec

\* CreateUser, EnsureDefaultAdmin: the password of a creation that was answered is never
\* replaced, neither by a concurrent creation nor by a later start.
THEOREM PasswordsAreKept == AccountSpec => []PasswordKept
<1>1. AccountInv => PasswordKept
  BY DEF AccountInv, UsersInv
<1> QED BY <1>1, AccountInvariant, PTL

\* AuthenticateToken: no request is served with a token that was deleted or had expired
\* when it began, or for another user than the token's.
THEOREM TokensAreHonoured == AccountSpec => []TokenHonoured
<1>1. AccountInv => AccountTypeOK
  BY DEF AccountInv, UsersInv, Users, TokensInv, AccountTypeOK
<1>2. AccountInv => TokenHonoured
  BY <1>1 DEF AccountInv, TokensInv, TokenHonoured
<1> QED BY <1>2, AccountInvariant, PTL

-----------------------------------------------------------------------------
(* Induction *)

\* A set with 0, and with the successors of its numbers, holds every number: a least
\* number outside has a predecessor inside.
LEMMA SetInduction ==
  ASSUME NEW S, 0 \in S, \A n \in Nat : n \in S => n + 1 \in S
  PROVE  \A n \in Nat : n \in S
<1> SUFFICES ASSUME Nat \ S # {} PROVE FALSE
  OBVIOUS
<1> DEFINE R == OpToRel(<, Nat)
           T == Nat \ S
<1>1. IsWellFoundedOn(R, Nat)
  BY NatLessThanWellFounded
<1>2. \A x, y \in Nat : y < x => <<y, x>> \in R
  BY DEF OpToRel
<1> HIDE DEF R
<1>3. PICK x \in T : \A y \in T : ~(<<y, x>> \in R)
  BY <1>1, WFMin
<1>4. x \in Nat /\ x # 0 /\ x - 1 \in Nat
  BY <1>3
<1>5. <<x - 1, x>> \in R
  BY <1>2, <1>4
<1>6. x - 1 \in S
  BY <1>3, <1>4, <1>5
<1> QED BY <1>3, <1>4, <1>6

-----------------------------------------------------------------------------
(* Webhooks *)

\* The delays up to an hour, and an hour from then on.
LEMMA PatienceValues ==
  /\ Patience(0) = 0 /\ Patience(1) = 1 /\ Patience(2) = 2 /\ Patience(3) = 4
  /\ Patience(4) = 8 /\ Patience(5) = 16 /\ Patience(6) = 32
  /\ \A n \in Nat : n > 6 => Patience(n) = 60
BY DEF Patience, Hour

\* Each delay is twice the one before, up to an hour; delays grow.
LEMMA PatienceDoubles ==
  /\ \A n \in Nat : n > 0 =>
       /\ Patience(n) \in 1 .. 60
       /\ Patience(n + 1) = IF 2 * Patience(n) >= 60 THEN 60 ELSE 2 * Patience(n)
  /\ \A m, n \in Nat : m <= n => Patience(m) <= Patience(n)
  /\ \A n \in Nat : Patience(n) \in Nat
<1>1. \A n \in Nat : n \in 0 .. 6 \/ n > 6
  OBVIOUS
<1>2. \A n \in 0 .. 6 : n = 0 \/ n = 1 \/ n = 2 \/ n = 3 \/ n = 4 \/ n = 5 \/ n = 6
  OBVIOUS
<1> QED BY <1>1, <1>2, PatienceValues

\* backoffFor computes the delays by doubling: its function exists, and there is no other.
LEMMA BackoffIsPatience == \A n \in Nat : BackoffFor(n) = Patience(n)
<1> SUFFICES ASSUME NEW n \in Nat PROVE BackoffFor(n) = Patience(n)
  OBVIOUS
<1>1. CASE n = 0
  BY <1>1, PatienceValues DEF BackoffFor
<1>2. CASE n # 0
  <2> DEFINE Doubles(d) == d = [k \in 1 .. n |->
                                  IF k = 1 THEN Minute
                                  ELSE IF 2 * d[k - 1] >= Hour THEN Hour ELSE 2 * d[k - 1]]
             delay == CHOOSE d : Doubles(d)
             delays == [k \in 1 .. n |-> Patience(k)]
  <2>1. BackoffFor(n) = delay[n]
    BY <1>2 DEF BackoffFor
  <2>2. Doubles(delays)
    <3>1. \A k \in 1 .. n : k # 1 => k - 1 \in 1 .. n /\ delays[k - 1] = Patience(k - 1)
      OBVIOUS
    <3>2. \A k \in 1 .. n : k # 1 => /\ k - 1 \in Nat /\ k - 1 > 0 /\ (k - 1) + 1 = k
      OBVIOUS
    <3>3. \A k \in 1 .. n :
            Patience(k) = IF k = 1 THEN Minute
                          ELSE IF 2 * delays[k - 1] >= Hour THEN Hour ELSE 2 * delays[k - 1]
      <4> SUFFICES ASSUME NEW k \in 1 .. n
                   PROVE  Patience(k) = IF k = 1 THEN 1
                                        ELSE IF 2 * delays[k - 1] >= 60 THEN 60
                                        ELSE 2 * delays[k - 1]
        BY DEF Minute, Hour
      <4> HIDE DEF delays
      <4>1. CASE k = 1
        BY <4>1, PatienceValues
      <4>2. CASE k # 1
        <5>1. /\ delays[k - 1] = Patience(k - 1)
              /\ k - 1 \in Nat /\ k - 1 > 0 /\ (k - 1) + 1 = k
          BY <3>1, <3>2, <4>2
        <5>2. Patience((k - 1) + 1) = IF 2 * Patience(k - 1) >= 60 THEN 60
                                      ELSE 2 * Patience(k - 1)
          BY <5>1, PatienceDoubles
        <5> QED BY <4>2, <5>1, <5>2
      <4> QED BY <4>1, <4>2
    <3> QED BY <3>3
  <2>3. Doubles(delay)
    <3> HIDE DEF Doubles, delays
    <3> QED BY <2>2
  <2> HIDE DEF delay, delays
  <2> DEFINE S == {k \in Nat : k + 1 \in 1 .. n => delay[k + 1] = Patience(k + 1)}
  <2>4. 0 \in S
    BY <2>3, PatienceValues DEF Minute
  <2>5. ASSUME NEW k \in Nat, k \in S PROVE k + 1 \in S
    <3>1. ASSUME k + 2 \in 1 .. n PROVE delay[k + 2] = Patience(k + 2)
      <4>1. delay[k + 1] = Patience(k + 1)
        BY <2>5, <3>1
      <4>2. delay[k + 2] = IF 2 * delay[k + 1] >= 60 THEN 60 ELSE 2 * delay[k + 1]
        BY <2>3, <3>1 DEF Hour
      <4>3. k + 1 \in Nat /\ k + 1 > 0 /\ (k + 1) + 1 = k + 2
        OBVIOUS
      <4> QED BY <4>1, <4>2, <4>3, PatienceDoubles
    <3> QED BY <3>1
  <2> HIDE DEF S
  <2>6. \A k \in Nat : k \in S
    BY <2>4, <2>5, SetInduction
  <2>7. n - 1 \in Nat /\ (n - 1) + 1 = n /\ n \in 1 .. n
    BY <1>2
  <2> QED BY <2>1, <2>6, <2>7 DEF S
<1> QED BY <1>1, <1>2

\* A record of the webhook waits for a next attempt exactly when its last delivery failed.
HookRecords ==
  {r \in [exists : BOOLEAN, url : {"first", "second", "malformed"}, fails : Nat,
          next : (0 .. MaxMinute + Hour) \union {Never}] : r.fails = 0 <=> r.next = Never}

DeliveryShapes ==
  [pc : {"idle", "listed", "send", "success", "failure"}, copy : HookRecords]

\* An update has forgotten the failures in its copy.
EditShapes ==
  {r \in [pc : {"idle", "save", "delete"}, op : {"none", "update", "delete"},
          copy : HookRecords] :
     /\ r.pc = "idle" => r.op = "none"
     /\ r.pc = "delete" => r.op = "delete"
     /\ r.pc = "save" => r.op = "update" /\ r.copy.fails = 0 /\ r.copy.next = Never}

Delivering(p) == delivery[p].pc # "idle"

\* No record counts more failures than there have been events.
HookTypes ==
  /\ hook \in HookRecords /\ owner \in HookRecords /\ hook.fails <= tries
  /\ delivery \in [Publishers -> DeliveryShapes]
  /\ \A p \in Publishers : Delivering(p) => delivery[p].copy.fails < tries
  /\ edit \in [Editors -> EditShapes]
  /\ minute \in 0 .. MaxMinute /\ tries \in 0 .. MaxTries
  /\ streak \in Nat /\ failedAt \in Nat

\* The record knows of the failures in a row, and waits as long as they ask for.
Waits(r) ==
  /\ streak <= r.fails
  /\ streak > 0 => r.next >= failedAt + Patience(streak)

\* Deliveries have been alone, and none has met an update.
PatienceInv ==
  DeliveriesApart =>
    /\ \A p, q \in Publishers : Delivering(p) /\ Delivering(q) => p = q
    /\ \A p \in Publishers : Delivering(p) =>
         /\ \A e \in Editors : edit[e].op # "update"
         /\ Waits(delivery[p].copy)
    /\ \A p \in Publishers :
         delivery[p].pc = "send" /\ streak > 0 => minute >= failedAt + Patience(streak)
    /\ Waits(hook)

\* No calls have overlapped but deletions: what a delivery has loaded is what is stored.
OwnerInv ==
  CallsApart =>
    /\ \A p \in Publishers : Delivering(p) =>
         /\ \A e \in Editors : edit[e].pc = "idle"
         /\ delivery[p].copy = hook
    /\ hook.exists = owner.exists /\ hook.url = owner.url
    /\ hook.next = Never <=> streak = 0

WebhookInv == HookTypes /\ PatienceInv /\ OwnerInv

\* What has overlapped is not forgotten; deletions that meet are no deliveries.
LEMMA ApartBefore ==
  ASSUME crossed' = crossed \union Crossing'
  PROVE  /\ DeliveriesApart' => DeliveriesApart
         /\ CallsApart' => CallsApart
         /\ CallsApart' => DeliveriesApart'
<1>1. {"deliver"} # {"delete"} /\ {"deliver", "update"} # {"delete"}
  <2>1. "deliver" \in {"deliver"} /\ "deliver" \in {"deliver", "update"}
        /\ "deliver" \notin {"delete"}
    OBVIOUS
  <2> QED BY <2>1
<1> QED BY <1>1 DEF DeliveriesApart, CallsApart

\* Overlaps are recorded.
LEMMA CrossingsRecorded ==
  ASSUME HookTypes', crossed' = crossed \union Crossing'
  PROVE  /\ DeliveriesApart' =>
              /\ DeliveriesApart
              /\ \A p, q \in Publishers : Delivering(p)' /\ Delivering(q)' => p = q
              /\ \A p \in Publishers : Delivering(p)' =>
                   \A e \in Editors : edit'[e].op # "update"
         /\ CallsApart' =>
              /\ CallsApart
              /\ \A p \in Publishers : Delivering(p)' =>
                   \A e \in Editors : edit'[e].pc = "idle"
<1>1. Crossing' \subseteq crossed'
  OBVIOUS
<1>2. ASSUME NEW p \in Publishers, NEW q \in Publishers, p # q, Delivering(p)', Delivering(q)'
      PROVE  {"deliver"} \in crossed'
  <2> DEFINE delivering == {o \in Publishers : delivery'[o].pc # "idle"}
  <2>1. /\ p \in delivering /\ q \in delivering
        /\ {{"deliver"} : o \in {o \in delivering : delivering # {o}}} \subseteq Crossing'
    BY <1>2 DEF Crossing, Delivering
  <2>2. delivering # {p}
    BY <1>2, <2>1
  <2> HIDE DEF delivering
  <2> QED BY <1>1, <2>1, <2>2
<1>3. ASSUME NEW p \in Publishers, NEW e \in Editors, Delivering(p)', edit'[e].pc # "idle"
      PROVE  {"deliver", edit'[e].op} \in crossed' /\ edit'[e].op \in {"update", "delete"}
  <2> DEFINE delivering == {o \in Publishers : delivery'[o].pc # "idle"}
             editing == {f \in Editors : edit'[f].pc # "idle"}
  <2>1. edit'[e].op \in {"update", "delete"}
    BY <1>3 DEF HookTypes, EditShapes
  <2>2. /\ p \in delivering /\ e \in editing
        /\ {{"deliver", edit'[f].op} : f \in {f \in editing : delivering # {}}}
             \subseteq Crossing'
    BY <1>3 DEF Crossing, Delivering
  <2> HIDE DEF delivering, editing
  <2> QED BY <1>1, <2>1, <2>2
<1>4. \A e \in Editors : edit'[e].op = "update" => edit'[e].pc # "idle"
  BY DEF HookTypes, EditShapes
<1>5. ASSUME CallsApart', NEW p \in Publishers, NEW e \in Editors, Delivering(p)',
             edit'[e].pc # "idle"
      PROVE  FALSE
  <2>1. {"deliver", edit'[e].op} \in {{"delete"}}
    BY <1>3, <1>5 DEF CallsApart
  <2>2. "deliver" \in {"deliver", edit'[e].op} /\ "deliver" \notin {"delete"}
    OBVIOUS
  <2> QED BY <2>1, <2>2
<1> QED BY <1>2, <1>3, <1>4, <1>5, ApartBefore DEF DeliveriesApart

LEMMA HookShapes ==
  /\ NoHook \in HookRecords /\ NoHook.fails = 0 /\ NoHook.next = Never /\ NoHook.exists = FALSE
  /\ NoDelivery \in DeliveryShapes /\ NoDelivery.pc = "idle"
  /\ NoEdit.pc = "idle" /\ NoEdit \in EditShapes
<1>1. NoHook \in HookRecords /\ NoHook.fails = 0 /\ NoHook.next = Never /\ NoHook.exists = FALSE
  BY DEF NoHook, HookRecords
<1> QED BY <1>1 DEF NoDelivery, DeliveryShapes, NoEdit, EditShapes

\* A delivery goes on with its copy, or ends.
LEMMA DeliveryMoved ==
  ASSUME delivery \in [Publishers -> DeliveryShapes], NEW p \in Publishers,
         NEW label \in {"idle", "listed", "send", "success", "failure"}, Goto(p, label)
  PROVE  /\ delivery' \in [Publishers -> DeliveryShapes]
         /\ delivery'[p].pc = label /\ delivery'[p].copy = delivery[p].copy
         /\ \A q \in Publishers : q # p => delivery'[q] = delivery[q]
<1> DEFINE next == [delivery[p] EXCEPT !.pc = label]
<1>1. next \in DeliveryShapes /\ next.pc = label /\ next.copy = delivery[p].copy
  BY DEF DeliveryShapes
<1>2. delivery' = [delivery EXCEPT ![p] = next]
  BY DEF Goto
<1> HIDE DEF next
<1> QED BY <1>1, <1>2

LEMMA DeliveryEnded ==
  ASSUME delivery \in [Publishers -> DeliveryShapes], NEW p \in Publishers,
         delivery' = [delivery EXCEPT ![p] = NoDelivery]
  PROVE  /\ delivery' \in [Publishers -> DeliveryShapes]
         /\ delivery'[p].pc = "idle"
         /\ \A q \in Publishers : q # p => delivery'[q] = delivery[q]
BY HookShapes

\* A delivery takes a step, and the record stays as it is.
LEMMA DeliveryStep ==
  ASSUME WebhookInv, crossed' = crossed \union Crossing', NEW p \in Publishers,
         UNCHANGED <<hook, edit, minute, tries, owner, streak, failedAt>>,
         delivery' \in [Publishers -> DeliveryShapes],
         \A q \in Publishers : q # p => delivery'[q] = delivery[q],
         Delivering(p)' => Delivering(p) /\ delivery'[p].copy = delivery[p].copy,
         delivery'[p].pc = "send" =>
           delivery[p].copy.next = Never \/ minute >= delivery[p].copy.next
  PROVE  WebhookInv'
<1>1. HookTypes'
  BY DEF WebhookInv, HookTypes, Delivering
<1>2. /\ DeliveriesApart' =>
           /\ DeliveriesApart
           /\ \A q, t \in Publishers : Delivering(q)' /\ Delivering(t)' => q = t
           /\ \A q \in Publishers : Delivering(q)' => \A e \in Editors : edit'[e].op # "update"
      /\ CallsApart' =>
           /\ CallsApart
           /\ \A q \in Publishers : Delivering(q)' => \A e \in Editors : edit'[e].pc = "idle"
  BY <1>1, CrossingsRecorded
<1>3. PatienceInv'
  <2> SUFFICES ASSUME DeliveriesApart'
               PROVE  /\ \A q \in Publishers : Delivering(q)' => Waits(delivery[q].copy)'
                      /\ \A q \in Publishers : delivery'[q].pc = "send" /\ streak > 0
                           => minute >= failedAt + Patience(streak)
                      /\ Waits(hook)'
    BY <1>2 DEF PatienceInv
  <2>1. PatienceInv /\ DeliveriesApart
    BY <1>2 DEF WebhookInv
  <2>2. Waits(hook)'
    BY <2>1 DEF PatienceInv, Waits
  <2>3. \A q \in Publishers : Delivering(q)' => Waits(delivery[q].copy)'
    BY <2>1 DEF PatienceInv, Waits, Delivering
  <2>4. ASSUME NEW q \in Publishers, delivery'[q].pc = "send", streak > 0
        PROVE  minute >= failedAt + Patience(streak)
    <3>1. CASE q # p
      BY <2>1, <2>4, <3>1 DEF PatienceInv
    <3>2. CASE q = p
      <4>1. Delivering(p)
        BY <2>4, <3>2 DEF Delivering
      <4>2. Waits(delivery[p].copy) /\ delivery[p].copy \in HookRecords
        BY <2>1, <4>1 DEF PatienceInv, WebhookInv, HookTypes, DeliveryShapes
      <4>3. delivery[p].copy.fails # 0
        BY <2>4, <4>2 DEF Waits, HookRecords, WebhookInv, HookTypes
      <4>4. delivery[p].copy.next # Never
        BY <4>2, <4>3 DEF HookRecords
      <4>5. minute >= delivery[p].copy.next
        BY <2>4, <3>2, <4>4
      <4>6. /\ delivery[p].copy.next \in Nat /\ minute \in Nat /\ failedAt \in Nat
            /\ Patience(streak) \in Nat
        BY <4>2, <4>4, WebhookAssumption, PatienceDoubles
           DEF HookRecords, WebhookInv, HookTypes, Hour
      <4> QED BY <2>4, <4>2, <4>5, <4>6 DEF Waits
    <3> QED BY <3>1, <3>2
  <2> QED BY <2>2, <2>3, <2>4
<1>4. OwnerInv'
  <2> SUFFICES ASSUME CallsApart' PROVE OwnerInv'
    BY DEF OwnerInv
  <2>1. OwnerInv /\ CallsApart
    BY <1>2 DEF WebhookInv
  <2> QED BY <1>2, <2>1 DEF OwnerInv, Delivering
<1> QED BY <1>1, <1>3, <1>4 DEF WebhookInv

\* An event finds the webhook; its address is tried when its time has come.
LEMMA DeliverSteps ==
  ASSUME WebhookInv, crossed' = crossed \union Crossing', NEW p \in Publishers,
         DeliverEvent(p) \/ ShouldAttempt(p) \/ Send(p)
  PROVE  WebhookInv'
<1>1. /\ hook \in HookRecords /\ hook.fails <= tries
      /\ delivery \in [Publishers -> DeliveryShapes] /\ tries \in 0 .. MaxTries
      /\ delivery[p] \in DeliveryShapes
      /\ \A q \in Publishers : Delivering(q) => delivery[q].copy.fails < tries
  BY DEF WebhookInv, HookTypes
<1>2. CASE DeliverEvent(p)
  <2> DEFINE next == [pc |-> "listed", copy |-> hook]
  <2>1. next \in DeliveryShapes /\ next.pc = "listed" /\ next.copy = hook
    BY <1>1 DEF DeliveryShapes
  <2>2. /\ ~Delivering(p) /\ tries < MaxTries /\ tries' = tries + 1
        /\ delivery' = [delivery EXCEPT ![p] = next]
        /\ UNCHANGED <<hook, edit, minute, owner, streak, failedAt>>
    BY <1>2 DEF DeliverEvent, Delivering
  <2> HIDE DEF next
  <2>3. /\ delivery' \in [Publishers -> DeliveryShapes]
        /\ delivery'[p].pc = "listed" /\ delivery'[p].copy = hook
        /\ \A q \in Publishers : q # p => delivery'[q] = delivery[q]
    BY <1>1, <2>1, <2>2
  <2>4. tries' \in 0 .. MaxTries /\ hook.fails < tries' /\ hook.fails \in Nat
    BY <1>1, <2>2, WebhookAssumption DEF HookRecords
  <2>5. \A q \in Publishers : Delivering(q) => delivery[q].copy.fails < tries'
    BY <1>1, <2>2 DEF DeliveryShapes, HookRecords
  <2>6. HookTypes'
    BY <1>1, <2>2, <2>3, <2>4, <2>5 DEF WebhookInv, HookTypes, Delivering
  <2>7. /\ DeliveriesApart' =>
             /\ DeliveriesApart
             /\ \A q, t \in Publishers : Delivering(q)' /\ Delivering(t)' => q = t
             /\ \A q \in Publishers : Delivering(q)' => \A e \in Editors : edit'[e].op # "update"
        /\ CallsApart' =>
             /\ CallsApart
             /\ \A q \in Publishers : Delivering(q)' => \A e \in Editors : edit'[e].pc = "idle"
    BY <2>6, CrossingsRecorded
  <2>8. PatienceInv'
    <3> SUFFICES ASSUME DeliveriesApart'
                 PROVE  /\ \A q \in Publishers : Delivering(q)' => Waits(delivery[q].copy)'
                        /\ \A q \in Publishers : delivery'[q].pc = "send" /\ streak' > 0
                             => minute' >= failedAt' + Patience(streak)'
                        /\ Waits(hook)'
      BY <2>7 DEF PatienceInv
    <3>1. PatienceInv /\ DeliveriesApart
      BY <2>7 DEF WebhookInv
    <3>2. Waits(hook) /\ Waits(hook)'
      BY <2>2, <3>1 DEF PatienceInv, Waits
    <3>3. ASSUME NEW q \in Publishers, Delivering(q)' PROVE Waits(delivery[q].copy)'
      BY <2>2, <2>3, <3>1, <3>2, <3>3 DEF PatienceInv, Waits, Delivering
    <3>4. \A q \in Publishers : delivery'[q].pc = "send" => delivery[q].pc = "send"
      BY <2>3
    <3>5. \A q \in Publishers : delivery'[q].pc = "send" /\ streak' > 0
            => minute' >= failedAt' + Patience(streak)'
      BY <2>2, <3>1, <3>4 DEF PatienceInv
    <3> QED BY <3>2, <3>3, <3>5
  <2>9. OwnerInv'
    BY <2>2, <2>3, <2>7 DEF OwnerInv, WebhookInv, Delivering
  <2> QED BY <2>6, <2>8, <2>9 DEF WebhookInv
<1>3. CASE ShouldAttempt(p)
  <2>1. /\ Delivering(p)
        /\ UNCHANGED <<hook, edit, minute, tries, owner, streak, failedAt>>
    BY <1>3 DEF ShouldAttempt, Delivering
  <2>2. CASE delivery' = [delivery EXCEPT ![p] = NoDelivery]
    <3>1. /\ delivery' \in [Publishers -> DeliveryShapes]
          /\ delivery'[p].pc = "idle"
          /\ \A q \in Publishers : q # p => delivery'[q] = delivery[q]
      BY <1>1, <2>2, DeliveryEnded
    <3>2. ~Delivering(p)' /\ delivery'[p].pc # "send"
      BY <3>1 DEF Delivering
    <3> QED BY <2>1, <3>1, <3>2, DeliveryStep
  <2>3. CASE /\ delivery[p].copy.next = Never \/ minute >= delivery[p].copy.next
             /\ Goto(p, "send")
    <3>1. /\ delivery' \in [Publishers -> DeliveryShapes]
          /\ delivery'[p].pc = "send" /\ delivery'[p].copy = delivery[p].copy
          /\ \A q \in Publishers : q # p => delivery'[q] = delivery[q]
      BY <1>1, <2>3, DeliveryMoved
    <3> QED BY <2>1, <2>3, <3>1, DeliveryStep
  <2> QED BY <1>3, <2>2, <2>3 DEF ShouldAttempt
<1>4. CASE Send(p)
  <2>1. /\ Delivering(p)
        /\ UNCHANGED <<hook, edit, minute, tries, owner, streak, failedAt>>
    BY <1>4 DEF Send, Delivering
  <2>2. CASE delivery' = [delivery EXCEPT ![p] = NoDelivery]
    <3>1. /\ delivery' \in [Publishers -> DeliveryShapes]
          /\ delivery'[p].pc = "idle"
          /\ \A q \in Publishers : q # p => delivery'[q] = delivery[q]
      BY <1>1, <2>2, DeliveryEnded
    <3>2. ~Delivering(p)' /\ delivery'[p].pc # "send"
      BY <3>1 DEF Delivering
    <3> QED BY <2>1, <3>1, <3>2, DeliveryStep
  <2>3. CASE \E outcome \in {"success", "failure"} : Goto(p, outcome)
    <3>1. PICK outcome \in {"success", "failure"} : Goto(p, outcome)
      BY <2>3
    <3>2. /\ delivery' \in [Publishers -> DeliveryShapes]
          /\ delivery'[p].pc = outcome /\ delivery'[p].copy = delivery[p].copy
          /\ \A q \in Publishers : q # p => delivery'[q] = delivery[q]
      BY <1>1, <3>1, DeliveryMoved
    <3> QED BY <2>1, <3>2, DeliveryStep
  <2> QED BY <1>4, <2>2, <2>3 DEF Send
<1> QED BY <1>2, <1>3, <1>4

\* The repository refuses: the delivery ends, and the record stays as it is.
LEMMA UnrecordedStep ==
  ASSUME WebhookInv, crossed' = crossed \union Crossing', NEW p \in Publishers, Unrecorded(p)
  PROVE  WebhookInv'
<1>1. /\ delivery \in [Publishers -> DeliveryShapes]
      /\ delivery' = [delivery EXCEPT ![p] = NoDelivery]
      /\ UNCHANGED <<hook, edit, minute, tries, owner, streak, failedAt>>
  BY DEF WebhookInv, HookTypes, Unrecorded
<1>2. /\ delivery' \in [Publishers -> DeliveryShapes]
      /\ delivery'[p].pc = "idle"
      /\ \A q \in Publishers : q # p => delivery'[q] = delivery[q]
  BY <1>1, DeliveryEnded
<1>3. ~Delivering(p)' /\ delivery'[p].pc # "send"
  BY <1>2 DEF Delivering
<1> QED BY <1>1, <1>2, <1>3, DeliveryStep

\* A delivery that has been alone records what came of it.
LEMMA RecordSteps ==
  ASSUME WebhookInv, crossed' = crossed \union Crossing', NEW p \in Publishers,
         RecordSuccess(p) \/ RecordFailure(p)
  PROVE  WebhookInv'
<1> DEFINE r == delivery[p].copy
<1>1. /\ delivery \in [Publishers -> DeliveryShapes]
      /\ r \in HookRecords /\ r.fails \in Nat /\ r.fails < tries /\ Delivering(p)
      /\ tries \in Nat /\ minute \in 0 .. MaxMinute /\ streak \in Nat
      /\ delivery' = [delivery EXCEPT ![p] = NoDelivery]
      /\ UNCHANGED <<edit, minute, tries, owner>>
  BY WebhookAssumption
     DEF WebhookInv, HookTypes, DeliveryShapes, RecordSuccess, RecordFailure, Delivering,
         HookRecords
<1>2. /\ delivery' \in [Publishers -> DeliveryShapes] /\ ~Delivering(p)'
      /\ \A q \in Publishers : q # p => delivery'[q] = delivery[q]
  BY <1>1, DeliveryEnded DEF Delivering
<1>3. /\ hook'.exists = r.exists /\ hook'.url = r.url
      /\ hook' \in HookRecords /\ hook'.fails <= tries
      /\ streak' \in Nat /\ failedAt' \in Nat
      /\ hook'.next = Never <=> streak' = 0
      /\ Waits(r) => Waits(hook)'
  <2>1. CASE RecordSuccess(p)
    <3>1. /\ hook' = [r EXCEPT !.fails = 0, !.next = Never]
          /\ streak' = 0 /\ failedAt' = failedAt
      BY <2>1 DEF RecordSuccess
    <3>2. /\ hook'.exists = r.exists /\ hook'.url = r.url /\ hook'.fails = 0
          /\ hook'.next = Never /\ hook' \in HookRecords
      BY <1>1, <3>1 DEF HookRecords
    <3> QED BY <1>1, <3>1, <3>2 DEF Waits, WebhookInv, HookTypes
  <2>2. CASE RecordFailure(p)
    <3> DEFINE delay == BackoffFor(r.fails + 1)
    <3>1. /\ hook' = [r EXCEPT !.fails = r.fails + 1, !.next = minute + delay]
          /\ streak' = streak + 1 /\ failedAt' = minute
      BY <2>2 DEF RecordFailure
    <3>2. delay = Patience(r.fails + 1) /\ delay \in 1 .. 60
      <4>1. r.fails + 1 \in Nat /\ r.fails + 1 > 0
        BY <1>1
      <4> QED BY <4>1, BackoffIsPatience, PatienceDoubles
    <3> HIDE DEF delay
    <3>3. minute + delay \in 0 .. MaxMinute + Hour /\ minute + delay # Never
      BY <1>1, <3>2, WebhookAssumption DEF Hour, Never
    <3> DEFINE next == [r EXCEPT !.fails = r.fails + 1, !.next = minute + delay]
    <3>4. /\ next.exists = r.exists /\ next.url = r.url /\ next.fails = r.fails + 1
          /\ next.next = minute + delay
      BY <1>1 DEF HookRecords
    <3>5. next \in HookRecords
      <4>1. next \in [exists : BOOLEAN, url : {"first", "second", "malformed"}, fails : Nat,
                      next : (0 .. MaxMinute + Hour) \union {Never}]
        <5> DEFINE Times == (0 .. MaxMinute + Hour) \union {Never}
        <5>1. /\ r \in [exists : BOOLEAN, url : {"first", "second", "malformed"},
                         fails : Nat, next : Times]
              /\ r.fails + 1 \in Nat /\ minute + delay \in Times
          BY <1>1, <3>3 DEF HookRecords
        <5>2. next \in [exists : BOOLEAN, url : {"first", "second", "malformed"},
                        fails : Nat, next : Times]
          <6> HIDE DEF Times
          <6> QED BY <5>1
        <5> QED BY <5>2
      <4>2. next.fails # 0 /\ next.next # Never
        BY <1>1, <3>3, <3>4
      <4> HIDE DEF next
      <4> QED BY <4>1, <4>2 DEF HookRecords
    <3>6. hook' = next
      BY <3>1
    <3> HIDE DEF next
    <3>7. ASSUME streak <= r.fails
          PROVE  /\ streak' <= hook'.fails
                 /\ hook'.next >= failedAt' + Patience(streak')
      <4>1. streak + 1 \in Nat /\ r.fails + 1 \in Nat /\ streak + 1 <= r.fails + 1
        BY <1>1, <3>7
      <4>2. Patience(streak + 1) <= Patience(r.fails + 1) /\ Patience(streak + 1) \in Nat
        BY <4>1, PatienceDoubles
      <4>3. Patience(streak') = Patience(streak + 1) /\ Patience(streak + 1) <= delay
        BY <3>1, <3>2, <4>2
      <4> QED BY <1>1, <3>1, <3>2, <3>4, <3>6, <4>1, <4>2, <4>3
    <3>8. Waits(r) => Waits(hook)'
      BY <3>7 DEF Waits
    <3>9. hook'.fails <= tries /\ streak' # 0 /\ streak' \in Nat /\ failedAt' \in Nat
          /\ hook'.next # Never
      BY <1>1, <3>1, <3>3, <3>4, <3>6, WebhookAssumption
    <3> QED BY <3>4, <3>5, <3>6, <3>8, <3>9
  <2> QED BY <2>1, <2>2
<1>4. HookTypes'
  BY <1>1, <1>2, <1>3 DEF WebhookInv, HookTypes, Delivering
<1>5. /\ DeliveriesApart' => DeliveriesApart
      /\ CallsApart' => CallsApart /\ DeliveriesApart
  BY ApartBefore
<1>6. PatienceInv'
  <2> SUFFICES ASSUME DeliveriesApart' PROVE PatienceInv'
    BY DEF PatienceInv
  <2>1. PatienceInv /\ DeliveriesApart
    BY <1>5 DEF WebhookInv
  <2>2. \A q \in Publishers : Delivering(q) => q = p
    BY <1>1, <2>1 DEF PatienceInv
  <2>3. \A q \in Publishers : ~Delivering(q)'
    BY <1>2, <2>2 DEF Delivering
  <2>4. Waits(r)
    BY <1>1, <2>1 DEF PatienceInv
  <2>5. Waits(hook)'
    BY <1>3, <2>4
  <2> QED BY <2>3, <2>5 DEF PatienceInv, Delivering
<1>7. OwnerInv'
  <2> SUFFICES ASSUME CallsApart' PROVE OwnerInv'
    BY DEF OwnerInv
  <2>1. OwnerInv /\ PatienceInv /\ CallsApart /\ DeliveriesApart
    BY <1>5 DEF WebhookInv
  <2>2. \A q \in Publishers : Delivering(q) => q = p
    BY <1>1, <2>1 DEF PatienceInv
  <2>3. \A q \in Publishers : ~Delivering(q)'
    BY <1>2, <2>2 DEF Delivering
  <2>4. hook'.exists = owner.exists /\ hook'.url = owner.url
    BY <1>1, <1>3, <2>1 DEF OwnerInv
  <2> QED BY <1>1, <1>3, <2>3, <2>4 DEF OwnerInv
<1> QED BY <1>4, <1>6, <1>7 DEF WebhookInv

\* What a step proves of overlaps, once its types are proved.
LEMMA QuietSteps ==
  ASSUME WebhookInv, crossed' = crossed \union Crossing', HookTypes', delivery' = delivery,
         DeliveriesApart' =>
           /\ \A p \in Publishers : Delivering(p) => Waits(delivery[p].copy)'
           /\ \A p \in Publishers : delivery[p].pc = "send" /\ streak' > 0
                => minute' >= failedAt' + Patience(streak')
           /\ Waits(hook)',
         CallsApart' =>
           /\ \A p \in Publishers : Delivering(p) => delivery[p].copy = hook'
           /\ hook'.exists = owner'.exists /\ hook'.url = owner'.url
           /\ hook'.next = Never <=> streak' = 0
  PROVE  WebhookInv'
<1>1. /\ DeliveriesApart' =>
           /\ \A q, t \in Publishers : Delivering(q)' /\ Delivering(t)' => q = t
           /\ \A q \in Publishers : Delivering(q)' => \A x \in Editors : edit'[x].op # "update"
      /\ CallsApart' =>
           /\ CallsApart
           /\ \A q \in Publishers : Delivering(q)' => \A x \in Editors : edit'[x].pc = "idle"
  BY CrossingsRecorded
<1>2. \A p \in Publishers : Delivering(p)' => Delivering(p)
  BY DEF Delivering
<1>3. PatienceInv'
  BY <1>1, <1>2 DEF PatienceInv
<1>4. OwnerInv'
  BY <1>1, <1>2 DEF OwnerInv
<1> QED BY <1>3, <1>4 DEF WebhookInv

\* A request of the owner goes from one shape to another.
LEMMA EditMoved ==
  ASSUME HookTypes, NEW e \in Editors, NEW r \in EditShapes, edit' = [edit EXCEPT ![e] = r]
  PROVE  edit' \in [Editors -> EditShapes] /\ edit'[e] = r
BY DEF HookTypes

\* The owner's request loads the record, or fails.
LEMMA LoadSteps ==
  ASSUME WebhookInv, crossed' = crossed \union Crossing', NEW e \in Editors,
         \/ \E url \in {"keep", "second", "malformed"} : UpdateWebhook(e, url)
         \/ DeleteWebhook(e)
         \/ EditFails(e)
  PROVE  WebhookInv'
<1>1. /\ UNCHANGED <<hook, delivery, minute, tries, owner, streak, failedAt>>
      /\ HookTypes /\ hook \in HookRecords
  BY DEF UpdateWebhook, DeleteWebhook, EditFails, WebhookInv, HookTypes
<1>2. HookTypes'
  <2>1. edit' \in [Editors -> EditShapes]
    <3>1. CASE DeleteWebhook(e)
      <4>1. [pc |-> "delete", op |-> "delete", copy |-> NoHook] \in EditShapes
        BY HookShapes DEF EditShapes
      <4> QED BY <1>1, <3>1, <4>1, EditMoved DEF DeleteWebhook
    <3>2. CASE EditFails(e)
      BY <1>1, <3>2, HookShapes, EditMoved DEF EditFails
    <3>3. CASE \E url \in {"keep", "second", "malformed"} : UpdateWebhook(e, url)
      <4>1. PICK url \in {"keep", "second", "malformed"} : UpdateWebhook(e, url)
        BY <3>3
      <4> DEFINE copy == [hook EXCEPT !.url = Address(url), !.fails = 0, !.next = Never]
      <4>2. /\ copy \in [exists : BOOLEAN, url : {"first", "second", "malformed"}, fails : Nat,
                         next : (0 .. MaxMinute + Hour) \union {Never}]
            /\ copy.fails = 0 /\ copy.next = Never
        <5>1. Address(url) \in {"first", "second", "malformed"}
          BY <1>1 DEF Address, HookRecords
        <5> QED BY <1>1, <5>1 DEF HookRecords
      <4>3. edit' = [edit EXCEPT ![e] = [pc |-> "save", op |-> "update", copy |-> copy]]
        BY <4>1 DEF UpdateWebhook
      <4> HIDE DEF copy
      <4>4. copy \in HookRecords
        BY <4>2 DEF HookRecords
      <4>5. [pc |-> "save", op |-> "update", copy |-> copy] \in EditShapes
        BY <4>2, <4>4 DEF EditShapes
      <4> QED BY <1>1, <4>3, <4>5, EditMoved
    <3> QED BY <3>1, <3>2, <3>3
  <2> QED BY <1>1, <2>1 DEF HookTypes, Delivering
<1>3. /\ DeliveriesApart' => DeliveriesApart
      /\ CallsApart' =>
           /\ CallsApart
           /\ \A q \in Publishers : Delivering(q)' => \A x \in Editors : edit'[x].pc = "idle"
  BY <1>2, CrossingsRecorded
<1>4. ASSUME DeliveriesApart'
      PROVE  /\ \A p \in Publishers : Delivering(p) => Waits(delivery[p].copy)'
             /\ \A p \in Publishers : delivery[p].pc = "send" /\ streak' > 0
                  => minute' >= failedAt' + Patience(streak')
             /\ Waits(hook)'
  <2>1. PatienceInv /\ DeliveriesApart
    BY <1>3, <1>4 DEF WebhookInv
  <2> QED BY <1>1, <2>1 DEF PatienceInv, Waits
<1>5. ASSUME CallsApart'
      PROVE  /\ \A p \in Publishers : Delivering(p) => delivery[p].copy = hook'
             /\ hook'.exists = owner'.exists /\ hook'.url = owner'.url
             /\ hook'.next = Never <=> streak' = 0
  BY <1>1, <1>3, <1>5 DEF WebhookInv, OwnerInv
<1>6. delivery' = delivery
  BY <1>1
<1> QED BY <1>2, <1>4, <1>5, <1>6, QuietSteps

\* The owner's request saves its copy, or removes the record: no failure counts any more.
LEMMA SaveSteps ==
  ASSUME WebhookInv, crossed' = crossed \union Crossing', NEW e \in Editors,
         SaveWebhook(e) \/ RemoveWebhook(e)
  PROVE  WebhookInv'
<1>1. HookTypes
  BY DEF WebhookInv
<1>2. /\ hook' \in HookRecords /\ hook'.fails = 0 /\ hook'.next = Never /\ owner' = hook'
      /\ edit[e].pc # "idle" /\ edit' = [edit EXCEPT ![e] = NoEdit] /\ streak' = 0
      /\ UNCHANGED <<delivery, minute, tries, failedAt>>
  BY <1>1, HookShapes DEF SaveWebhook, RemoveWebhook, HookTypes, EditShapes
<1>3. edit' \in [Editors -> EditShapes]
  BY <1>1, <1>2, HookShapes, EditMoved
<1>4. HookTypes'
  BY <1>1, <1>2, <1>3, HookShapes, WebhookAssumption DEF HookTypes, Delivering
<1>5. CallsApart' => CallsApart
  BY ApartBefore
<1>6. /\ \A p \in Publishers : Delivering(p) => Waits(delivery[p].copy)'
      /\ \A p \in Publishers : delivery[p].pc = "send" /\ streak' > 0
           => minute' >= failedAt' + Patience(streak')
      /\ Waits(hook)'
  <2>1. \A p \in Publishers : delivery[p].copy.fails \in Nat
    BY <1>1 DEF HookTypes, DeliveryShapes, HookRecords
  <2> QED BY <1>2, <2>1 DEF Waits
<1>7. ASSUME CallsApart'
      PROVE  \A p \in Publishers : ~Delivering(p)
  BY <1>2, <1>5, <1>7 DEF WebhookInv, OwnerInv
<1>8. delivery' = delivery
  BY <1>2
<1>9. CallsApart' =>
        /\ \A p \in Publishers : Delivering(p) => delivery[p].copy = hook'
        /\ hook'.exists = owner'.exists /\ hook'.url = owner'.url
        /\ hook'.next = Never <=> streak' = 0
  BY <1>2, <1>7
<1> QED BY <1>4, <1>6, <1>8, <1>9, QuietSteps

\* Time passes.
LEMMA TimeStep ==
  ASSUME WebhookInv, crossed' = crossed \union Crossing', PassTime
  PROVE  WebhookInv'
<1>1. /\ HookTypes /\ UNCHANGED <<hook, delivery, edit, tries, owner, streak, failedAt>>
      /\ minute \in Nat /\ failedAt \in Nat /\ streak \in Nat /\ hook \in HookRecords
  BY WebhookAssumption DEF PassTime, WebhookInv, HookTypes
<1>2. minute' \in Nat /\ minute' > minute /\ minute' <= MaxMinute
  BY <1>1, WebhookAssumption DEF PassTime, Moments, HookRecords, Hour, Never
<1>3. HookTypes'
  BY <1>1, <1>2, WebhookAssumption DEF HookTypes, Delivering
<1>4. /\ DeliveriesApart' => DeliveriesApart
      /\ CallsApart' => CallsApart
  BY ApartBefore
<1>5. ASSUME DeliveriesApart'
      PROVE  /\ \A p \in Publishers : Delivering(p) => Waits(delivery[p].copy)'
             /\ \A p \in Publishers : delivery[p].pc = "send" /\ streak' > 0
                  => minute' >= failedAt' + Patience(streak')
             /\ Waits(hook)'
  <2>1. PatienceInv /\ DeliveriesApart
    BY <1>4, <1>5 DEF WebhookInv
  <2>2. /\ \A p \in Publishers : Delivering(p) => Waits(delivery[p].copy)'
        /\ Waits(hook)'
    BY <1>1, <2>1 DEF PatienceInv, Waits
  <2>3. ASSUME NEW p \in Publishers, delivery[p].pc = "send", streak' > 0
        PROVE  minute' >= failedAt' + Patience(streak')
    <3>1. minute >= failedAt + Patience(streak) /\ Patience(streak) \in Nat
      BY <1>1, <2>1, <2>3, PatienceDoubles DEF PatienceInv
    <3> QED BY <1>1, <1>2, <3>1
  <2> QED BY <2>2, <2>3
<1>6. ASSUME CallsApart'
      PROVE  /\ \A p \in Publishers : Delivering(p) => delivery[p].copy = hook'
             /\ hook'.exists = owner'.exists /\ hook'.url = owner'.url
             /\ hook'.next = Never <=> streak' = 0
  BY <1>1, <1>4, <1>6 DEF WebhookInv, OwnerInv
<1>7. delivery' = delivery
  BY <1>1
<1> QED BY <1>3, <1>5, <1>6, <1>7, QuietSteps

LEMMA WebhookInitInv == WebhookInit => WebhookInv
<1> SUFFICES ASSUME WebhookInit PROVE WebhookInv
  OBVIOUS
<1>1. /\ NewHook \in HookRecords /\ NewHook.fails = 0 /\ NewHook.next = Never
  BY DEF NewHook, NoHook, HookRecords
<1>2. edit \in [Editors -> EditShapes]
  BY HookShapes DEF WebhookInit
<1>3. \A p \in Publishers : ~Delivering(p) /\ delivery[p].pc # "send"
  BY HookShapes DEF WebhookInit, Delivering
<1>4. HookTypes
  BY <1>1, <1>2, <1>3, HookShapes, WebhookAssumption DEF WebhookInit, HookTypes
<1>5. PatienceInv
  BY <1>1, <1>3 DEF WebhookInit, PatienceInv, Waits
<1>6. OwnerInv
  BY <1>1, <1>3 DEF WebhookInit, OwnerInv
<1> QED BY <1>4, <1>5, <1>6 DEF WebhookInv

\* Deliveries, requests and time keep the relation of the record, the copies of it and what
\* the receiver and the owner have done.
THEOREM WebhookInvariant == WebhookSpec => []WebhookInv
<1>1. WebhookInv /\ [WebhookNext]_webhookVars => WebhookInv'
  <2> SUFFICES ASSUME WebhookInv, [WebhookNext]_webhookVars PROVE WebhookInv'
    OBVIOUS
  <2>1. CASE UNCHANGED webhookVars
    <3>1. /\ UNCHANGED <<hook, delivery, edit, owner, minute, tries, streak, failedAt, crossed>>
      BY <2>1 DEF webhookVars
    <3>2. HookTypes'
      BY <3>1 DEF WebhookInv, HookTypes, Delivering
    <3>3. PatienceInv'
      BY <3>1 DEF WebhookInv, PatienceInv, Waits, Delivering, DeliveriesApart
    <3>4. OwnerInv'
      BY <3>1 DEF WebhookInv, OwnerInv, Delivering, CallsApart
    <3> QED BY <3>2, <3>3, <3>4 DEF WebhookInv
  <2>2. CASE WebhookNext
    BY <2>2, DeliverSteps, RecordSteps, UnrecordedStep, LoadSteps, SaveSteps, TimeStep DEF WebhookNext
  <2> QED BY <2>1, <2>2
<1> QED BY <1>1, WebhookInitInv, PTL DEF WebhookSpec

\* DeliverEvent, recordFailure: a record waits for a next attempt exactly when its last
\* recorded delivery failed; after n failures in a row that were recorded a webhook is left
\* alone for the n-th delay, however many outcomes were not recorded, unless deliveries to
\* it have overlapped with each other or with an update.
THEOREM BackoffIsKept == WebhookSpec => []BackoffKept
<1>1. WebhookInv => BackoffKept
  <2> SUFFICES ASSUME WebhookInv PROVE BackoffKept
    OBVIOUS
  <2>1. /\ hook \in HookRecords /\ hook.fails <= tries /\ tries \in 0 .. MaxTries
        /\ delivery \in [Publishers -> DeliveryShapes]
    BY DEF WebhookInv, HookTypes
  <2>2. /\ hook \in [exists : BOOLEAN, url : {"first", "second", "malformed"}, fails : Nat,
                     next : (0 .. MaxMinute + Hour) \union {Never}]
        /\ hook.fails = 0 <=> hook.next = Never
        /\ hook.fails \in 0 .. MaxTries
    BY <2>1, WebhookAssumption DEF HookRecords
  <2>3. hook \in [exists : BOOLEAN, url : {"first", "second", "malformed"},
                  fails : 0 .. MaxTries, next : (0 .. MaxMinute + Hour) \union {Never}]
    <3> DEFINE Times == (0 .. MaxMinute + Hour) \union {Never}
    <3>1. /\ hook \in [exists : BOOLEAN, url : {"first", "second", "malformed"}, fails : Nat,
                       next : Times]
          /\ hook.fails \in 0 .. MaxTries
      BY <2>2
    <3>2. hook \in [exists : BOOLEAN, url : {"first", "second", "malformed"},
                    fails : 0 .. MaxTries, next : Times]
      <4> HIDE DEF Times
      <4> QED BY <3>1
    <3> QED BY <3>2
  <2>4. \A p \in Publishers :
          delivery[p].pc \in {"idle", "listed", "send", "success", "failure"}
    BY <2>1 DEF DeliveryShapes
  <2>5. WebhookTypeOK
    BY <2>2, <2>3, <2>4 DEF WebhookTypeOK
  <2> QED BY <2>5 DEF WebhookInv, PatienceInv, BackoffKept
<1> QED BY <1>1, WebhookInvariant, PTL

\* Update, Delete: what the owner has saved stays, a removed webhook stays removed, and the
\* record waits exactly while its address has a recorded failure, whichever saves fail,
\* unless deliveries or updates have overlapped with each other or with other requests.
THEOREM OwnersWin == WebhookSpec => []OwnerWins
<1>1. WebhookInv => OwnerWins
  BY DEF WebhookInv, OwnerInv, OwnerWins
<1> QED BY <1>1, WebhookInvariant, PTL

-----------------------------------------------------------------------------
(* Packets on the wire *)

LEMMA WidthValue ==
  Width \in Nat /\ Width > 1000 /\ \A m \in 0 .. Width - 1 : m \in Nat
BY DEF Width

LEMMA Uint16Keeps ==
  /\ \A n \in 0 .. Width - 1 : Uint16(n) = n
  /\ \A n \in Nat : n >= Width /\ n < 2 * Width => Uint16(n) = n - Width
  /\ \A n \in Nat : Uint16(n) \in 0 .. Width - 1
BY WidthValue DEF Uint16

\* encodeExtended, decodeExtended: 16 bits come back as they were.
LEMMA ExtendedRoundTrip ==
  ASSUME NEW value \in 0 .. Width - 1
  PROVE  /\ EncodeExtended(value).nibble \in 0 .. 14
         /\ Len(EncodeExtended(value).extra) \in Nat
         /\ DecodeExtended(EncodeExtended(value).nibble, EncodeExtended(value).extra) = value
<1>0. value \in Nat
  BY WidthValue
<1>1. CASE value < 13
  <2>1. EncodeExtended(value) = [nibble |-> value, extra |-> <<>>]
    BY <1>1 DEF EncodeExtended
  <2> QED BY <1>0, <1>1, <2>1 DEF DecodeExtended
<1>2. CASE value >= 13 /\ value < 269
  <2>1. Byte(value - 13) = value - 13 /\ value - 13 \in Nat
    BY <1>0, <1>2 DEF Byte
  <2>2. EncodeExtended(value) = [nibble |-> 13, extra |-> <<value - 13>>]
    BY <1>0, <1>2, <2>1 DEF EncodeExtended
  <2>3. DecodeExtended(13, <<value - 13>>) = value
    BY <1>0, <1>2 DEF DecodeExtended
  <2> QED BY <2>2, <2>3
<1>3. CASE value >= 269
  <2> DEFINE high == (value - 269) \div 256
             low == (value - 269) % 256
  <2>1. high \in Int /\ low \in Int /\ 256 * high + low = value - 269
    BY <1>0, <1>3
  <2>2. EncodeExtended(value) = [nibble |-> 14, extra |-> <<high, low>>]
    BY <1>0, <1>3 DEF EncodeExtended, Byte
  <2> HIDE DEF high, low
  <2>3. high * 256 + low + 269 = value
    BY <1>0, <2>1
  <2>4. DecodeExtended(14, <<high, low>>) = Uint16(high * 256 + low + 269)
    BY DEF DecodeExtended
  <2>5. Uint16(value) = value
    BY Uint16Keeps
  <2> QED BY <2>2, <2>3, <2>4, <2>5
<1> QED BY <1>0, <1>1, <1>2, <1>3

\* An option's header holds both nibbles, and is never the payload's marker.
LEMMA HeaderRoundTrip ==
  \A high, low \in 0 .. 14 :
    /\ Byte(high * 16 + low) \div 16 = high /\ Byte(high * 16 + low) % 16 = low
    /\ Byte(high * 16 + low) # payloadMarker
<1> SUFFICES ASSUME NEW high \in 0 .. 14, NEW low \in 0 .. 14
             PROVE  /\ Byte(high * 16 + low) \div 16 = high
                    /\ Byte(high * 16 + low) % 16 = low
                    /\ Byte(high * 16 + low) # payloadMarker
  OBVIOUS
<1>1. Byte(high * 16 + low) = high * 16 + low
  BY DEF Byte
<1>2. (high * 16 + low) \div 16 = high /\ (high * 16 + low) % 16 = low
  OBVIOUS
<1> QED BY <1>1, <1>2 DEF payloadMarker

\* The difference of two numbers is cut to 16 bits, and their sum again.
LEMMA DeltaRoundTrip ==
  ASSUME NEW number \in 0 .. Width - 1, NEW previous \in 0 .. Width - 1
  PROVE  /\ Uint16(number + Width - previous) \in 0 .. Width - 1
         /\ Uint16(previous + Uint16(number + Width - previous)) = number
<1>1. CASE number >= previous
  <2>1. /\ number + Width - previous \in Nat /\ number + Width - previous >= Width
        /\ number + Width - previous < 2 * Width
        /\ (number + Width - previous) - Width = number - previous
        /\ number - previous \in 0 .. Width - 1
        /\ previous + (number - previous) = number
    BY <1>1, WidthValue
  <2>2. Uint16(number + Width - previous) = number - previous
    BY <2>1, Uint16Keeps
  <2> QED BY <2>1, <2>2, Uint16Keeps
<1>2. CASE number < previous
  <2>1. /\ number + Width - previous \in 0 .. Width - 1
        /\ previous + (number + Width - previous) = number + Width
        /\ number + Width \in Nat /\ number + Width >= Width /\ number + Width < 2 * Width
        /\ (number + Width) - Width = number
    BY <1>2, WidthValue
  <2>2. Uint16(number + Width - previous) = number + Width - previous
    BY <2>1, Uint16Keeps
  <2> QED BY <2>1, <2>2, Uint16Keeps
<1> QED BY <1>1, <1>2, WidthValue

\* Encrypt, Decrypt: the padding is what the frame's size tells.
LEMMA SealRoundTrip ==
  ASSUME NEW size \in Nat
  PROVE  /\ Padding(size) \in 1 .. BlockSize
         /\ SealedSize(size) = 36 + size + Padding(size)
         /\ (size + Padding(size)) % BlockSize = 0
         /\ SealedSize(size) >= 52
<1> DEFINE q == size \div 16
           r == size % 16
<1>1. r \in 0 .. 15 /\ size = (16 * q) + r /\ q \in Nat
  OBVIOUS
<1>2. Padding(size) = 16 - r
  BY DEF Padding, BlockSize
<1> HIDE DEF q, r
<1>3. (16 * (q + 1)) % 16 = 0 /\ size + Padding(size) = 16 * (q + 1)
  BY <1>1, <1>2
<1> QED BY <1>1, <1>2, <1>3 DEF BlockSize, SealedSize, HMACSHA1Size

WireOptions == [number : 0 .. Width - 1, length : Nat]

\* Marshal's sort.Slice: the options are put in the order of their numbers, each once, and
\* those of equal numbers as they were.  Every place is taken: an option's place is the
\* number of those that come before it, itself included, and no two options have the same.
THEOREM StableSort ==
  ASSUME NEW options \in Seq(WireOptions)
  PROVE  \E from \in [1 .. Len(options) -> 1 .. Len(options)] :
           /\ Sorted(options) = [k \in 1 .. Len(options) |-> options[from[k]]]
           /\ \A j \in 1 .. Len(options) : \E k \in 1 .. Len(options) : from[k] = j
           /\ \A k, m \in 1 .. Len(options) : k < m =>
                \/ options[from[k]].number < options[from[m]].number
                \/ options[from[k]].number = options[from[m]].number /\ from[k] < from[m]
<1> DEFINE n == Len(options)
           before(i, j) == \/ options[i].number < options[j].number
                           \/ options[i].number = options[j].number /\ i <= j
           place(j) == {i \in DOMAIN options : before(i, j)}
           card == [j \in 1 .. n |-> Cardinality(place(j))]
           at(k) == CHOOSE j \in DOMAIN options : Cardinality(place(j)) = k
<1>1. n \in Nat /\ DOMAIN options = 1 .. n /\ \A j \in 1 .. n : options[j] \in WireOptions
  OBVIOUS
<1>2. \A j \in 1 .. n : options[j].number \in Nat
  <2> SUFFICES ASSUME NEW j \in 1 .. n PROVE options[j].number \in Nat
    OBVIOUS
  <2>1. options[j] \in WireOptions
    BY <1>1
  <2>2. options[j].number \in 0 .. Width - 1
    BY <2>1 DEF WireOptions
  <2> QED BY <2>2, WidthValue
<1>3. IsFiniteSet(1 .. n) /\ Cardinality(1 .. n) = n
  <2> HIDE DEF n
  <2>1. 1 \in Int /\ n \in Int /\ (IF 1 > n THEN 0 ELSE n - 1 + 1) = n
    BY <1>1
  <2>2. IsFiniteSet(1 .. n) /\ Cardinality(1 .. n) = IF 1 > n THEN 0 ELSE n - 1 + 1
    BY <2>1, FS_Interval
  <2> QED BY <2>1, <2>2
<1>4. \A j \in 1 .. n :
        /\ IsFiniteSet(place(j)) /\ Cardinality(place(j)) \in Nat
        /\ Cardinality(place(j)) <= n /\ Cardinality(place(j)) > 0
  <2> SUFFICES ASSUME NEW j \in 1 .. n
               PROVE  /\ IsFiniteSet(place(j)) /\ Cardinality(place(j)) \in Nat
                      /\ Cardinality(place(j)) <= n /\ Cardinality(place(j)) > 0
    OBVIOUS
  <2>1. j \in place(j) /\ place(j) \in SUBSET (1 .. n)
    BY <1>1, <1>2
  <2> HIDE DEF place
  <2>2. IsFiniteSet(place(j)) /\ Cardinality(place(j)) <= n
    BY <1>3, <2>1, FS_Subset
  <2>3. Cardinality(place(j)) \in Nat /\ Cardinality(place(j)) # 0
    BY <2>1, <2>2, FS_CardinalityType, FS_EmptySet
  <2> QED BY <1>1, <2>2, <2>3
<1>5. ASSUME NEW i \in 1 .. n, NEW j \in 1 .. n, i # j
      PROVE  /\ card[i] # card[j]
             /\ card[i] < card[j] => before(i, j)
  <2>1. ASSUME NEW a \in 1 .. n, NEW b \in 1 .. n, a # b, before(a, b)
        PROVE  card[a] < card[b]
    <3>1. \A c \in 1 .. n : before(c, a) => before(c, b)
      BY <1>1, <1>2, <2>1
    <3>2. ~before(b, a) /\ before(b, b)
      BY <1>1, <1>2, <2>1
    <3>3. place(a) \in SUBSET place(b) /\ b \in place(b) /\ b \notin place(a)
      BY <3>1, <3>2
    <3>4. IsFiniteSet(place(b))
      BY <1>4
    <3> HIDE DEF place
    <3>5. place(a) # place(b)
      BY <3>3
    <3>6. /\ Cardinality(place(b)) # Cardinality(place(a))
          /\ Cardinality(place(a)) <= Cardinality(place(b))
      BY <3>3, <3>4, <3>5, FS_Subset
    <3>7. /\ Cardinality(place(a)) \in Nat /\ Cardinality(place(b)) \in Nat
          /\ card[a] = Cardinality(place(a)) /\ card[b] = Cardinality(place(b))
      BY <1>4
    <3> QED BY <3>6, <3>7
  <2>2. before(i, j) \/ before(j, i)
    BY <1>1, <1>2
  <2>3. card[i] \in Nat /\ card[j] \in Nat
    BY <1>4
  <2> HIDE DEF card, before
  <2>4. card[i] < card[j] \/ card[j] < card[i]
    BY <1>5, <2>1, <2>2
  <2>5. card[i] < card[j] => ~before(j, i)
    BY <1>5, <2>1, <2>3
  <2> QED BY <2>2, <2>3, <2>4, <2>5
<1>6. card \in [1 .. n -> 1 .. n]
  <2> HIDE DEF place
  <2>1. \A j \in 1 .. n : Cardinality(place(j)) \in 1 .. n
    BY <1>1, <1>4
  <2> QED BY <2>1
<1>7. \A k \in 1 .. n : \E j \in 1 .. n : card[j] = k
  <2> SUFFICES ASSUME NEW k \in 1 .. n, \A j \in 1 .. n : card[j] # k PROVE FALSE
    OBVIOUS
  <2> HIDE DEF card
  <2> DEFINE T == (1 .. n) \ {k}
  <2>1. IsFiniteSet(T) /\ Cardinality(T) = n - 1
    BY <1>3, FS_RemoveElement
  <2>2. card \in [1 .. n -> T]
    BY <1>6
  <2> HIDE DEF T
  <2>3. Cardinality(T) < Cardinality(1 .. n)
    BY <1>1, <1>3, <2>1
  <2>4. \E i, j \in 1 .. n : i # j /\ card[i] = card[j]
    BY <1>3, <2>1, <2>2, <2>3, FS_PigeonHole
  <2> QED BY <1>5, <2>4
<1>8. \A k \in 1 .. n : at(k) \in 1 .. n /\ card[at(k)] = k
  <2>1. \A k \in 1 .. n : \E j \in DOMAIN options : Cardinality(place(j)) = k
    BY <1>1, <1>7
  <2> HIDE DEF place
  <2>2. \A k \in 1 .. n : at(k) \in DOMAIN options /\ Cardinality(place(at(k))) = k
    BY <2>1
  <2> HIDE DEF at
  <2> QED BY <1>1, <2>2
<1>9. Sorted(options) = [k \in 1 .. n |-> options[at(k)]]
  BY <1>1 DEF Sorted
<1> HIDE DEF at, card, before
<1> DEFINE from == [k \in 1 .. n |-> at(k)]
<1>10. /\ from \in [1 .. n -> 1 .. n]
       /\ Sorted(options) = [k \in 1 .. n |-> options[from[k]]]
  BY <1>8, <1>9
<1>11. ASSUME NEW j \in 1 .. n PROVE \E k \in 1 .. n : from[k] = j
  <2>1. card[j] \in 1 .. n
    BY <1>6
  <2>2. at(card[j]) \in 1 .. n /\ card[at(card[j])] = card[j]
    BY <1>8, <2>1
  <2>3. at(card[j]) = j
    BY <1>5, <2>2
  <2> QED BY <2>1, <2>3
<1>12. ASSUME NEW k \in 1 .. n, NEW m \in 1 .. n, k < m
       PROVE  \/ options[from[k]].number < options[from[m]].number
              \/ options[from[k]].number = options[from[m]].number /\ from[k] < from[m]
  <2>1. /\ at(k) \in 1 .. n /\ at(m) \in 1 .. n /\ card[at(k)] < card[at(m)]
    BY <1>8, <1>12
  <2>2. at(k) # at(m)
    BY <1>8, <1>12
  <2>3. before(at(k), at(m))
    BY <1>5, <2>1, <2>2
  <2>4. /\ \/ options[at(k)].number < options[at(m)].number
           \/ options[at(k)].number = options[at(m)].number /\ at(k) <= at(m)
    BY <2>3 DEF before
  <2> QED BY <1>1, <2>1, <2>2, <2>4
<1> HIDE DEF from
<1> QED BY <1>10, <1>11, <1>12

LEMMA SortedKeeps ==
  ASSUME NEW options \in Seq(WireOptions)
  PROVE  Sorted(options) \in [1 .. Len(options) -> WireOptions]
<1>1. PICK from \in [1 .. Len(options) -> 1 .. Len(options)] :
        Sorted(options) = [k \in 1 .. Len(options) |-> options[from[k]]]
  BY StableSort
<1> QED BY <1>1

\* The sums of natural numbers exist.
LEMMA SumsExist ==
  ASSUME NEW n \in Nat, NEW cost \in [1 .. n -> Nat]
  PROVE  \E f \in [0 .. n -> Nat] :
           f[0] = 0 /\ \A k \in 1 .. n : f[k] = f[k - 1] + cost[k]
<1> DEFINE Sums(m) == {f \in [0 .. m -> Nat] :
                         f[0] = 0 /\ \A k \in 1 .. m : f[k] = f[k - 1] + cost[k]}
           S == {m \in Nat : m <= n => Sums(m) # {}}
<1>1. 0 \in S
  <2>1. [k \in 0 .. 0 |-> 0] \in Sums(0)
    OBVIOUS
  <2> HIDE DEF Sums
  <2> QED BY <2>1
<1> HIDE DEF Sums
<1>2. ASSUME NEW m \in Nat, m \in S PROVE m + 1 \in S
  <2> SUFFICES ASSUME m + 1 <= n PROVE Sums(m + 1) # {}
    OBVIOUS
  <2>0. Sums(m) # {}
    BY <1>2
  <2>1. PICK f \in [0 .. m -> Nat] : f[0] = 0 /\ \A k \in 1 .. m : f[k] = f[k - 1] + cost[k]
    BY <2>0 DEF Sums
  <2> DEFINE g == [k \in 0 .. m + 1 |-> IF k = m + 1 THEN f[m] + cost[m + 1] ELSE f[k]]
  <2>2. f[m] \in Nat /\ cost[m + 1] \in Nat
    <3>1. m \in 0 .. m /\ m + 1 \in 1 .. n
      OBVIOUS
    <3> QED BY <3>1
  <2>3. \A k \in 0 .. m + 1 : k # m + 1 => k \in 0 .. m
    OBVIOUS
  <2>4. g \in [0 .. m + 1 -> Nat] /\ \A k \in 0 .. m : g[k] = f[k]
    BY <2>2, <2>3
  <2>5. g[m + 1] = f[m] + cost[m + 1] /\ g[m] = f[m]
    OBVIOUS
  <2> HIDE DEF g
  <2>6. g[0] = 0
    BY <2>1, <2>4
  <2>7. ASSUME NEW k \in 1 .. m + 1 PROVE g[k] = g[k - 1] + cost[k]
    <3>1. CASE k = m + 1
      <4>1. k - 1 = m
        BY <3>1
      <4> QED BY <2>5, <3>1, <4>1
    <3>2. CASE k # m + 1
      <4>1. k \in 1 .. m /\ k \in 0 .. m /\ k - 1 \in 0 .. m
        BY <3>2
      <4> QED BY <2>1, <2>4, <4>1
    <3> QED BY <3>1, <3>2
  <2>8. g \in Sums(m + 1)
    BY <2>4, <2>6, <2>7 DEF Sums
  <2> QED BY <2>8
<1> HIDE DEF S
<1>3. \A m \in Nat : m \in S
  BY <1>1, <1>2, SetInduction
<1>4. Sums(n) # {}
  BY <1>3 DEF S
<1> QED BY <1>4 DEF Sums

\* Sums grow.
LEMMA SumsGrow ==
  ASSUME NEW n \in Nat, NEW cost \in [1 .. n -> Nat], NEW f \in [0 .. n -> Nat],
         \A k \in 1 .. n : f[k] = f[k - 1] + cost[k]
  PROVE  \A k \in 1 .. n : cost[k] <= f[n]
<1> DEFINE S == {m \in Nat : m <= n => \A k \in 1 .. m : cost[k] <= f[m]}
<1>1. 0 \in S
  OBVIOUS
<1>2. ASSUME NEW m \in Nat, m \in S PROVE m + 1 \in S
  <2> SUFFICES ASSUME m + 1 <= n, NEW k \in 1 .. m + 1 PROVE cost[k] <= f[m + 1]
    OBVIOUS
  <2>1. m + 1 \in 1 .. n /\ (m + 1) - 1 = m /\ m \in 0 .. n /\ k \in 1 .. n
    OBVIOUS
  <2>2. f[m + 1] = f[m] + cost[m + 1]
    BY <2>1
  <2>3. f[m] \in Nat /\ cost[m + 1] \in Nat /\ cost[k] \in Nat
    BY <2>1
  <2>4. CASE k = m + 1
    BY <2>2, <2>3, <2>4
  <2>5. CASE k # m + 1
    <3>1. k \in 1 .. m
      BY <2>5
    <3>2. cost[k] <= f[m]
      BY <1>2, <3>1
    <3> QED BY <2>2, <2>3, <3>2
  <2> QED BY <2>4, <2>5
<1> HIDE DEF S
<1>3. \A m \in Nat : m \in S
  BY <1>1, <1>2, SetInduction
<1> QED BY <1>3 DEF S

\* An encoded packet is no shorter than any of its options' values.
LEMMA PlainSizeBounds ==
  ASSUME NEW plain, plain.token \in Nat, plain.payload \in Nat,
         Len(plain.options) \in Nat,
         \A k \in 1 .. Len(plain.options) :
           /\ Len(plain.options[k].delta) \in Nat /\ Len(plain.options[k].lengthExtra) \in Nat
           /\ plain.options[k].value \in Nat
  PROVE  /\ PlainSize(plain) \in Nat
         /\ \A k \in 1 .. Len(plain.options) : plain.options[k].value <= PlainSize(plain)
<1> DEFINE n == Len(plain.options)
           cost == [k \in 1 .. n |-> 1 + Len(plain.options[k].delta)
                                       + Len(plain.options[k].lengthExtra)
                                       + plain.options[k].value]
           Adds(f) == f = [k \in 0 .. n |->
                             IF k = 0 THEN 0
                             ELSE LET o == plain.options[k] IN
                                  f[k - 1] + 1 + Len(o.delta) + Len(o.lengthExtra) + o.value]
           sum == CHOOSE f : Adds(f)
<1>0. /\ \A a, d, l, v \in Nat :
           /\ 1 + d + l + v \in Nat /\ v <= 1 + d + l + v
           /\ a + 1 + d + l + v = a + (1 + d + l + v)
      /\ \A a, b, c \in Nat : 4 + a + b + c \in Nat /\ 4 + a + b + c >= b
  OBVIOUS
<1>1. /\ cost \in [1 .. n -> Nat] /\ n \in Nat
      /\ \A k \in 1 .. n : plain.options[k].value <= cost[k]
  <2>1. \A k \in 1 .. n :
          cost[k] = 1 + Len(plain.options[k].delta) + Len(plain.options[k].lengthExtra)
                      + plain.options[k].value
    OBVIOUS
  <2>2. \A k \in 1 .. n : cost[k] \in Nat /\ plain.options[k].value <= cost[k]
    <3> HIDE DEF cost
    <3> SUFFICES ASSUME NEW k \in 1 .. n
                 PROVE  cost[k] \in Nat /\ plain.options[k].value <= cost[k]
      OBVIOUS
    <3> DEFINE d == Len(plain.options[k].delta)
               l == Len(plain.options[k].lengthExtra)
               v == plain.options[k].value
    <3>1. d \in Nat /\ l \in Nat /\ v \in Nat /\ cost[k] = 1 + d + l + v
      BY <2>1
    <3>2. cost[k] \in Nat /\ v <= cost[k]
      <4> HIDE DEF d, l, v
      <4> QED BY <1>0, <3>1
    <3> QED BY <3>2
  <2> QED BY <2>2
<1>2. PlainSize(plain) = 4 + plain.token + sum[n]
                           + (IF plain.payload > 0 THEN 1 + plain.payload ELSE 0)
  BY DEF PlainSize
<1>3. \A f \in [0 .. n -> Nat] : \A k \in 1 .. n :
        f[k - 1] + 1 + Len(plain.options[k].delta) + Len(plain.options[k].lengthExtra)
          + plain.options[k].value = f[k - 1] + cost[k]
  <2> SUFFICES ASSUME NEW f \in [0 .. n -> Nat], NEW k \in 1 .. n
               PROVE  f[k - 1] + 1 + Len(plain.options[k].delta)
                        + Len(plain.options[k].lengthExtra)
                        + plain.options[k].value = f[k - 1] + cost[k]
    OBVIOUS
  <2>1. k - 1 \in 0 .. n
    BY <1>1
  <2>2. f[k - 1] \in Nat
    BY <2>1
  <2>3. /\ cost[k] = 1 + Len(plain.options[k].delta) + Len(plain.options[k].lengthExtra)
                       + plain.options[k].value
        /\ Len(plain.options[k].delta) \in Nat /\ Len(plain.options[k].lengthExtra) \in Nat
        /\ plain.options[k].value \in Nat
    OBVIOUS
  <2> DEFINE a == f[k - 1]
             d == Len(plain.options[k].delta)
             l == Len(plain.options[k].lengthExtra)
             v == plain.options[k].value
  <2> HIDE DEF cost
  <2>4. /\ a \in Nat /\ d \in Nat /\ l \in Nat /\ v \in Nat
        /\ cost[k] = 1 + d + l + v
    BY <2>2, <2>3
  <2>5. a + 1 + d + l + v = a + cost[k]
    <3> HIDE DEF a, d, l, v
    <3> QED BY <1>0, <2>4
  <2> QED BY <2>5
<1> HIDE DEF cost
<1>4. PICK f \in [0 .. n -> Nat] :
        f[0] = 0 /\ \A k \in 1 .. n : f[k] = f[k - 1] + cost[k]
  BY <1>1, SumsExist
<1>5. Adds(f)
  <2>1. f = [k \in 0 .. n |-> f[k]]
    OBVIOUS
  <2>2. \A k \in 0 .. n : k # 0 => k \in 1 .. n
    OBVIOUS
  <2>3. \A k \in 0 .. n :
          f[k] = IF k = 0 THEN 0
                 ELSE LET o == plain.options[k] IN
                      f[k - 1] + 1 + Len(o.delta) + Len(o.lengthExtra) + o.value
    BY <1>3, <1>4, <2>2
  <2> HIDE DEF n
  <2> QED BY <2>1, <2>3
<1>6. Adds(sum)
  <2> HIDE DEF Adds
  <2> QED BY <1>5
<1> HIDE DEF sum
<1>7. sum = f
  <2> DEFINE S == {m \in Nat : m <= n => sum[m] = f[m]}
  <2>1. 0 \in S
    BY <1>1, <1>4, <1>6
  <2>2. ASSUME NEW m \in Nat, m \in S PROVE m + 1 \in S
    <3> SUFFICES ASSUME m + 1 <= n PROVE sum[m + 1] = f[m + 1]
      OBVIOUS
    <3>1. m + 1 \in 0 .. n /\ m + 1 # 0 /\ (m + 1) - 1 = m /\ m + 1 \in 1 .. n /\ sum[m] = f[m]
      BY <1>1, <2>2
    <3>2. sum[m + 1] = LET o == plain.options[m + 1] IN
                       sum[m] + 1 + Len(o.delta) + Len(o.lengthExtra) + o.value
      BY <1>6, <3>1
    <3>3. f[m + 1] = LET o == plain.options[m + 1] IN
                     f[m] + 1 + Len(o.delta) + Len(o.lengthExtra) + o.value
      BY <1>5, <3>1
    <3> QED BY <3>1, <3>2, <3>3
  <2> HIDE DEF S
  <2>3. \A m \in Nat : m \in S
    BY <2>1, <2>2, SetInduction
  <2>4. \A m \in 0 .. n : sum[m] = f[m]
    BY <1>1, <2>3 DEF S
  <2>5. sum = [m \in 0 .. n |-> sum[m]] /\ f = [m \in 0 .. n |-> f[m]]
    BY <1>6
  <2> QED BY <2>4, <2>5
<1>8. \A k \in 1 .. n : cost[k] <= f[n]
  BY <1>1, <1>4, SumsGrow
<1>9. f[n] \in Nat
  BY <1>1, <1>4
<1>10. /\ PlainSize(plain) \in Nat /\ PlainSize(plain) >= f[n]
  <2> DEFINE t == plain.token
             p == IF plain.payload > 0 THEN 1 + plain.payload ELSE 0
             o == f[n]
  <2>1. t \in Nat /\ p \in Nat /\ PlainSize(plain) = 4 + t + o + p
    BY <1>2, <1>7
  <2>2. o \in Nat
    BY <1>9
  <2> HIDE DEF t, p, o
  <2>3. 4 + t + o + p \in Nat /\ 4 + t + o + p >= o
    BY <2>1, <2>2
  <2>4. PlainSize(plain) \in Nat /\ PlainSize(plain) >= o
    BY <2>1, <2>3, Zenon
  <2> QED BY <2>4 DEF o
<1>11. ASSUME NEW k \in 1 .. n PROVE plain.options[k].value <= PlainSize(plain)
  <2> DEFINE v == plain.options[k].value
             b == cost[k]
             c == f[n]
             z == PlainSize(plain)
  <2>1. v \in Nat /\ b \in Nat /\ c \in Nat /\ z \in Nat /\ v <= b /\ b <= c /\ c <= z
    BY <1>1, <1>8, <1>9, <1>10
  <2> HIDE DEF v, b, c, z
  <2>2. v <= z
    BY <2>1
  <2> QED BY <2>2 DEF v, z
<1> QED BY <1>10, <1>11

\* A function on 1 .. n is a sequence of length n.
LEMMA FunctionLength ==
  ASSUME NEW n \in Nat, NEW S, NEW s \in [1 .. n -> S]
  PROVE  s \in Seq(S) /\ Len(s) = n
<1>1. s \in Seq(S)
  BY SeqDef
<1>2. DOMAIN s = 1 .. Len(s) /\ DOMAIN s = 1 .. n /\ Len(s) \in Nat
  BY <1>1
<1>3. 1 .. Len(s) = 1 .. n
  BY <1>2
<1>4. Len(s) = n
  <2>1. CASE n = 0
    BY <1>2, <1>3, <2>1
  <2>2. CASE n # 0
    <3>1. n \in 1 .. Len(s)
      BY <1>3, <2>2
    <3>2. Len(s) \in 1 .. n
      <4>1. Len(s) # 0
        BY <1>2, <3>1
      <4> QED BY <1>2, <1>3, <4>1
    <3> QED BY <1>2, <3>1, <3>2
  <2> QED BY <2>1, <2>2
<1> QED BY <1>1, <1>4

\* The packets that are sent, and their encodings.
LEMMA PacketShape ==
  ASSUME NEW packet \in Packets
  PROVE  /\ packet = [id |-> packet.id, token |-> packet.token,
                      options |-> packet.options, payload |-> packet.payload]
         /\ packet.id # "none" /\ packet.token \in Nat /\ packet.payload \in Nat
         /\ packet.options \in Seq(WireOptions)
BY WireAssumption DEF WireOptions

LEMMA MarshalShape ==
  ASSUME NEW packet \in Packets
  PROVE  LET plain == Marshal(packet)
             options == Sorted(packet.options)
             previous(k) == IF k = 1 THEN 0 ELSE options[k - 1].number
             n == Len(packet.options)
         IN /\ plain.id = packet.id /\ plain.token = packet.token
            /\ plain.payload = packet.payload
            /\ n \in Nat /\ options \in [1 .. n -> WireOptions]
            /\ DOMAIN plain.options = 1 .. n /\ Len(plain.options) = n
            /\ \A k \in 1 .. n : plain.options[k] = WriteOption(options[k], previous(k))
<1> DEFINE options == Sorted(packet.options)
           previous(k) == IF k = 1 THEN 0 ELSE options[k - 1].number
           n == Len(packet.options)
           made == [k \in 1 .. n |-> WriteOption(options[k], previous(k))]
<1>1. n \in Nat /\ options \in [1 .. n -> WireOptions]
  BY PacketShape, SortedKeeps
<1>2. DOMAIN options = 1 .. n
  BY <1>1
<1>3. Marshal(packet) = [id |-> packet.id, token |-> packet.token,
                         payload |-> packet.payload, options |-> made]
  <2>1. Marshal(packet) =
          [id |-> packet.id, token |-> packet.token, payload |-> packet.payload,
           options |-> [k \in DOMAIN options |-> WriteOption(options[k], previous(k))]]
    BY DEF Marshal
  <2> HIDE DEF options
  <2> QED BY <1>2, <2>1
<1> HIDE DEF options, n
<1>4. DOMAIN made = 1 .. n /\ \A k \in 1 .. n : made[k] = WriteOption(options[k], previous(k))
  OBVIOUS
<1>5. Len(made) = n
  <2>1. made \in [1 .. n -> {made[k] : k \in 1 .. n}]
    OBVIOUS
  <2> HIDE DEF made
  <2> QED BY <1>1, <2>1, FunctionLength
<1> HIDE DEF made
<1>6. /\ Marshal(packet).id = packet.id /\ Marshal(packet).token = packet.token
      /\ Marshal(packet).payload = packet.payload /\ Marshal(packet).options = made
  BY <1>3
<1> QED BY <1>1, <1>4, <1>5, <1>6 DEF n, options

\* writeOption, parseOption: the difference of the numbers comes back, and the length cut
\* to 16 bits.
LEMMA OptionRoundTrip ==
  ASSUME NEW option \in WireOptions, NEW previous \in 0 .. Width - 1
  PROVE  LET o == WriteOption(option, previous) IN
         /\ Len(o.delta) \in Nat /\ Len(o.lengthExtra) \in Nat
         /\ o.value = option.length
         /\ o.header # payloadMarker /\ o.header \div 16 # 15 /\ o.header % 16 # 15
         /\ DecodeExtended(o.header \div 16, o.delta) = Uint16(option.number + Width - previous)
         /\ DecodeExtended(o.header % 16, o.lengthExtra) = Uint16(option.length)
<1> DEFINE delta == EncodeExtended(Uint16(option.number + Width - previous))
           length == EncodeExtended(Uint16(option.length))
           o == WriteOption(option, previous)
           header == Byte(delta.nibble * 16 + length.nibble)
<1>1. option.number \in 0 .. Width - 1 /\ option.length \in Nat
  BY DEF WireOptions
<1>2. Uint16(option.number + Width - previous) \in 0 .. Width - 1
  BY <1>1, DeltaRoundTrip
<1>3. Uint16(option.length) \in 0 .. Width - 1
  BY <1>1, Uint16Keeps
<1>4. /\ delta.nibble \in 0 .. 14 /\ Len(delta.extra) \in Nat
      /\ DecodeExtended(delta.nibble, delta.extra) = Uint16(option.number + Width - previous)
  BY <1>2, ExtendedRoundTrip
<1>5. /\ length.nibble \in 0 .. 14 /\ Len(length.extra) \in Nat
      /\ DecodeExtended(length.nibble, length.extra) = Uint16(option.length)
  BY <1>3, ExtendedRoundTrip
<1>6. /\ o.header = header /\ o.delta = delta.extra /\ o.lengthExtra = length.extra
      /\ o.value = option.length
  BY DEF WriteOption
<1> HIDE DEF delta, length, o
<1>7. /\ header \div 16 = delta.nibble /\ header % 16 = length.nibble
      /\ header # payloadMarker
  BY <1>4, <1>5, HeaderRoundTrip
<1>8. delta.nibble # 15 /\ length.nibble # 15
  <2>1. \A nibble \in 0 .. 14 : nibble # 15
    OBVIOUS
  <2> QED BY <1>4, <1>5, <2>1
<1> HIDE DEF header
<1>9. /\ Len(o.delta) \in Nat /\ Len(o.lengthExtra) \in Nat
      /\ o.value = option.length
      /\ o.header # payloadMarker /\ o.header \div 16 # 15 /\ o.header % 16 # 15
      /\ DecodeExtended(o.header \div 16, o.delta) = Uint16(option.number + Width - previous)
      /\ DecodeExtended(o.header % 16, o.lengthExtra) = Uint16(option.length)
  BY <1>4, <1>5, <1>6, <1>7, <1>8
<1> QED BY <1>9 DEF o

\* The options of an encoded packet, each relative to the one before it.
LEMMA OptionsWritten ==
  ASSUME NEW packet \in Packets
  PROVE  LET plain == Marshal(packet)
             options == Sorted(packet.options)
             previous(k) == IF k = 1 THEN 0 ELSE options[k - 1].number
         IN \A k \in 1 .. Len(packet.options) :
              LET o == plain.options[k] IN
              /\ previous(k) \in 0 .. Width - 1
              /\ options[k].number \in 0 .. Width - 1 /\ options[k].length \in Nat
              /\ Len(o.delta) \in Nat /\ Len(o.lengthExtra) \in Nat
              /\ o.value = options[k].length
              /\ o.header # payloadMarker /\ o.header \div 16 # 15 /\ o.header % 16 # 15
              /\ DecodeExtended(o.header \div 16, o.delta)
                   = Uint16(options[k].number + Width - previous(k))
              /\ DecodeExtended(o.header % 16, o.lengthExtra) = Uint16(options[k].length)
<1> DEFINE plain == Marshal(packet)
           options == Sorted(packet.options)
           previous(k) == IF k = 1 THEN 0 ELSE options[k - 1].number
           n == Len(packet.options)
<1> SUFFICES ASSUME NEW k \in 1 .. n
             PROVE  LET o == plain.options[k] IN
                    /\ previous(k) \in 0 .. Width - 1
                    /\ options[k].number \in 0 .. Width - 1 /\ options[k].length \in Nat
                    /\ Len(o.delta) \in Nat /\ Len(o.lengthExtra) \in Nat
                    /\ o.value = options[k].length
                    /\ o.header # payloadMarker /\ o.header \div 16 # 15 /\ o.header % 16 # 15
                    /\ DecodeExtended(o.header \div 16, o.delta)
                         = Uint16(options[k].number + Width - previous(k))
                    /\ DecodeExtended(o.header % 16, o.lengthExtra) = Uint16(options[k].length)
  OBVIOUS
<1>1. /\ n \in Nat /\ options \in [1 .. n -> WireOptions]
      /\ plain.options[k] = WriteOption(options[k], previous(k))
  BY MarshalShape
<1> HIDE DEF plain, options, n
<1>2. \A j \in 1 .. n : options[j] \in WireOptions
  BY <1>1
<1>3. \A j \in 1 .. n : options[j].number \in 0 .. Width - 1 /\ options[j].length \in Nat
  BY <1>2 DEF WireOptions
<1>4. 0 \in 0 .. Width - 1
  BY WidthValue
<1>5. previous(k) \in 0 .. Width - 1
  <2>1. CASE k = 1
    BY <1>4, <2>1
  <2>2. CASE k # 1
    <3>1. k - 1 \in 1 .. n
      BY <1>1, <2>2
    <3> QED BY <1>3, <2>2, <3>1
  <2> QED BY <2>1, <2>2
<1> HIDE DEF previous
<1> QED BY <1>1, <1>2, <1>3, <1>5, OptionRoundTrip

\* What WriteFrame lets through.
Fits(packet) == Frame(Marshal(packet)).size <= MaxFrame

Arrived(packet) == [packet EXCEPT !.options = Sorted(@)]

\* Encrypt, WriteFrame, ReadFrame, Decrypt: the size of a frame survives its two bytes, the
\* frame can be opened, and no option of it is too long for its length.
LEMMA FrameRoundTrip ==
  ASSUME NEW packet \in Packets
  PROVE  LET frame == Frame(Marshal(packet)) IN
         /\ frame.size \in Nat
         /\ Fits(packet) =>
              /\ Uint16(frame.size) = frame.size
              /\ frame.size <= DefaultMaxFrameSize
              /\ Unsealable(frame)
              /\ \A k \in 1 .. Len(packet.options) :
                   Sorted(packet.options)[k].length \in 0 .. Width - 1
<1> DEFINE plain == Marshal(packet)
           frame == Frame(plain)
           size == PlainSize(plain)
           n == Len(packet.options)
<1>1. /\ plain.token \in Nat /\ plain.payload \in Nat /\ n \in Nat
      /\ Len(plain.options) = n
  BY MarshalShape, PacketShape
<1>2. \A k \in 1 .. n :
        /\ Len(plain.options[k].delta) \in Nat /\ Len(plain.options[k].lengthExtra) \in Nat
        /\ plain.options[k].value = Sorted(packet.options)[k].length
        /\ plain.options[k].value \in Nat
  BY OptionsWritten
<1> HIDE DEF plain, n
<1>3. size \in Nat /\ \A k \in 1 .. n : plain.options[k].value <= size
  BY <1>1, <1>2, PlainSizeBounds
<1>4. /\ frame.size = SealedSize(size) /\ frame.plain = plain
      /\ frame.padding = Padding(size)
  BY DEF Frame
<1> HIDE DEF frame, size
<1>5. /\ Padding(size) \in 1 .. BlockSize /\ SealedSize(size) = 36 + size + Padding(size)
      /\ (size + Padding(size)) % BlockSize = 0 /\ SealedSize(size) >= 52
  BY <1>3, SealRoundTrip
<1>6. Padding(size) \in Nat /\ Padding(size) >= 1
  BY <1>5 DEF BlockSize
<1>7. frame.size \in Nat /\ frame.size >= size
  BY <1>3, <1>4, <1>5, <1>6
<1>8. ASSUME frame.size <= Width - 1
      PROVE  /\ Uint16(frame.size) = frame.size
             /\ frame.size <= DefaultMaxFrameSize
             /\ Unsealable(frame)
             /\ \A k \in 1 .. n : Sorted(packet.options)[k].length \in 0 .. Width - 1
  <2>1. frame.size \in 0 .. Width - 1
    BY <1>7, <1>8, WidthValue
  <2>2. Uint16(frame.size) = frame.size
    BY <2>1, Uint16Keeps
  <2>3. frame.size <= DefaultMaxFrameSize
    BY <1>7, <1>8 DEF DefaultMaxFrameSize, Width
  <2>4. Unsealable(frame)
    <3>1. /\ frame.size - (20 + 16) = size + Padding(size)
          /\ (size + Padding(size)) - Padding(size) = size
      BY <1>3, <1>4, <1>5, <1>6
    <3>2. PlainSize(frame.plain) = size
      BY <1>4 DEF size
    <3>3. /\ BlockSize = 16 /\ HMACSHA1Size = 20
      BY DEF BlockSize, HMACSHA1Size
    <3>4. frame.size - (HMACSHA1Size + BlockSize) = size + Padding(size)
      BY <3>1, <3>3
    <3>5. frame.size >= BlockSize + HMACSHA1Size + BlockSize
      BY <1>4, <1>5, <3>3
    <3> QED BY <1>4, <1>5, <3>1, <3>2, <3>4, <3>5 DEF Unsealable
  <2>5. ASSUME NEW k \in 1 .. n PROVE Sorted(packet.options)[k].length \in 0 .. Width - 1
    BY <1>2, <1>3, <1>7, <2>1, WidthValue
  <2> QED BY <2>2, <2>3, <2>4, <2>5
<1> QED BY <1>7, <1>8 DEF Fits, MaxFrame, frame, plain, n

\* Marshal, Parse: a packet that fits a frame comes back with its options sorted, and
\* otherwise as it was.
LEMMA ParseRoundTrip ==
  ASSUME NEW packet \in Packets, Fits(packet)
  PROVE  Parse(Marshal(packet)) = Arrived(packet) /\ Arrived(packet) # NotParsed
<1> DEFINE plain == Marshal(packet)
           sorted == Sorted(packet.options)
           n == Len(packet.options)
           previous(k) == IF k = 1 THEN 0 ELSE sorted[k - 1].number
           delta(k) == DecodeExtended(plain.options[k].header \div 16, plain.options[k].delta)
           length(k) == DecodeExtended(plain.options[k].header % 16,
                                       plain.options[k].lengthExtra)
           Chains(f) == f = [k \in 0 .. Len(plain.options) |->
                               IF k = 0 THEN 0 ELSE Uint16(f[k - 1] + delta(k))]
           number == CHOOSE f : Chains(f)
           numbers == [k \in 0 .. n |-> IF k = 0 THEN 0 ELSE sorted[k].number]
           readable == \A k \in DOMAIN plain.options :
                         /\ plain.options[k].header # payloadMarker
                         /\ plain.options[k].header \div 16 # 15
                         /\ plain.options[k].header % 16 # 15
                         /\ length(k) = plain.options[k].value
<1>1. Parse(plain) = IF ~readable THEN NotParsed
                     ELSE [id |-> plain.id, token |-> plain.token, payload |-> plain.payload,
                           options |-> [k \in DOMAIN plain.options |->
                                          [number |-> number[k], length |-> length(k)]]]
  BY DEF Parse
<1>2. /\ plain.id = packet.id /\ plain.token = packet.token
      /\ plain.payload = packet.payload
      /\ n \in Nat /\ sorted \in [1 .. n -> WireOptions]
      /\ DOMAIN plain.options = 1 .. n /\ Len(plain.options) = n
  BY MarshalShape
<1>3. \A k \in 1 .. n :
        /\ previous(k) \in 0 .. Width - 1
        /\ sorted[k].number \in 0 .. Width - 1
        /\ plain.options[k].value = sorted[k].length
        /\ plain.options[k].header # payloadMarker
        /\ plain.options[k].header \div 16 # 15
        /\ plain.options[k].header % 16 # 15
        /\ delta(k) = Uint16(sorted[k].number + Width - previous(k))
        /\ length(k) = Uint16(sorted[k].length)
  BY OptionsWritten
<1>4. \A k \in 1 .. n : sorted[k].length \in 0 .. Width - 1
  BY FrameRoundTrip
<1> HIDE DEF plain, sorted, n, length, delta
<1>5. \A k \in 1 .. n : length(k) = sorted[k].length
  BY <1>3, <1>4, Uint16Keeps
<1>6. readable
  BY <1>2, <1>3, <1>5
<1>7. Chains(numbers)
  <2>1. ASSUME NEW k \in 1 .. n
        PROVE  Uint16(numbers[k - 1] + delta(k)) = sorted[k].number
    <3>1. numbers[k - 1] = previous(k)
      <4>1. k - 1 \in 0 .. n /\ (k - 1 = 0 <=> k = 1)
        BY <1>2
      <4> QED BY <4>1
    <3> HIDE DEF numbers, previous
    <3>2. Uint16(previous(k) + Uint16(sorted[k].number + Width - previous(k)))
            = sorted[k].number
      BY <1>3, DeltaRoundTrip
    <3> QED BY <1>3, <3>1, <3>2
  <2>2. \A k \in 0 .. n : k # 0 => k \in 1 .. n
    BY <1>2
  <2>3. \A k \in 0 .. n :
          (IF k = 0 THEN 0 ELSE sorted[k].number)
            = IF k = 0 THEN 0 ELSE Uint16(numbers[k - 1] + delta(k))
    <3> HIDE DEF numbers
    <3> QED BY <2>1, <2>2
  <2> QED BY <1>2, <2>3
<1>8. Chains(number)
  <2> HIDE DEF Chains, numbers
  <2> QED BY <1>7
<1> HIDE DEF number
<1>9. \A k \in 1 .. n : number[k] = sorted[k].number
  <2> DEFINE S == {m \in Nat : m <= n => number[m] = numbers[m]}
  <2>1. 0 \in S
    <3>1. 0 \in 0 .. n
      BY <1>2
    <3> QED BY <1>2, <1>8, <3>1
  <2>2. ASSUME NEW m \in Nat, m \in S PROVE m + 1 \in S
    <3> SUFFICES ASSUME m + 1 <= n PROVE number[m + 1] = numbers[m + 1]
      OBVIOUS
    <3>1. m + 1 \in 0 .. n /\ m + 1 # 0 /\ (m + 1) - 1 = m /\ number[m] = numbers[m]
      BY <1>2, <2>2
    <3> HIDE DEF numbers
    <3>2. number[m + 1] = Uint16(number[m] + delta(m + 1))
      BY <1>2, <1>8, <3>1
    <3>3. numbers[m + 1] = Uint16(numbers[m] + delta(m + 1))
      BY <1>2, <1>7, <3>1
    <3> QED BY <3>1, <3>2, <3>3
  <2> HIDE DEF S
  <2>3. \A m \in Nat : m \in S
    BY <2>1, <2>2, SetInduction
  <2>4. ASSUME NEW k \in 1 .. n PROVE number[k] = sorted[k].number
    <3>1. k \in Nat /\ k <= n /\ k # 0 /\ k \in 0 .. n
      BY <1>2
    <3>2. number[k] = numbers[k]
      BY <2>3, <3>1 DEF S
    <3> QED BY <3>1, <3>2
  <2> QED BY <2>4
<1> HIDE DEF readable
<1>10. [k \in DOMAIN plain.options |-> [number |-> number[k], length |-> length(k)]] = sorted
  <2>1. \A k \in 1 .. n : [number |-> number[k], length |-> length(k)] = sorted[k]
    <3> SUFFICES ASSUME NEW k \in 1 .. n
                 PROVE  [number |-> number[k], length |-> length(k)] = sorted[k]
      OBVIOUS
    <3>1. sorted[k] \in WireOptions
      BY <1>2
    <3>2. sorted[k] = [number |-> sorted[k].number, length |-> sorted[k].length]
      BY <3>1 DEF WireOptions
    <3> QED BY <1>5, <1>9, <3>2
  <2>2. sorted = [k \in 1 .. n |-> sorted[k]]
    BY <1>2
  <2> QED BY <1>2, <2>1, <2>2
<1>11. Parse(plain) = [id |-> packet.id, token |-> packet.token, payload |-> packet.payload,
                       options |-> sorted]
  BY <1>1, <1>2, <1>6, <1>10
<1>12. Arrived(packet) = [id |-> packet.id, token |-> packet.token,
                          payload |-> packet.payload, options |-> sorted]
  BY PacketShape DEF Arrived, sorted
<1>13. Arrived(packet).id = packet.id /\ NotParsed.id = "none" /\ packet.id # "none"
  BY <1>12, PacketShape DEF NotParsed
<1> QED BY <1>11, <1>12, <1>13 DEF plain

HeaderOf(packet) ==
  [kind |-> "header", size |-> Uint16(Frame(Marshal(packet)).size),
   frame |-> Frame(Marshal(packet))]

BodyOf(packet) ==
  [kind |-> "body", size |-> Frame(Marshal(packet)).size, frame |-> Frame(Marshal(packet))]

Pieces == {HeaderOf(p) : p \in Packets} \union {BodyOf(p) : p \in Packets}

Senders == [pc : {"idle", "sealed", "header", "body"}, packet : Packets \union {NotParsed}]

\* The mutex is held between the two writes, by who has a frame that fits.
SendersInv ==
  /\ sender \in [FrameWriters -> Senders] /\ sends \in 0 .. MaxSends /\ cut \in BOOLEAN
  /\ \A w \in FrameWriters :
       /\ sender[w].pc # "idle" => sender[w].packet \in Packets
       /\ sender[w].pc \in {"header", "body"} => Fits(sender[w].packet)
       /\ writing = w <=> sender[w].pc \in {"header", "body"}

\* What was received is what was written, so far.
ArrivedInv ==
  /\ stream \in Seq(Pieces) /\ written \in Seq(Packets)
  /\ received \in Seq({Arrived(p) : p \in Packets})
  /\ \A k \in 1 .. Len(written) : Fits(written[k])
  /\ Len(received) <= Len(written)
  /\ \A k \in 1 .. Len(received) : received[k] = Arrived(written[k])
  /\ reading \in [pc : {"header", "body", "ended"}, size : Nat]
  /\ reading.pc = "ended" => cut

PiecesRead == 2 * Len(received) + (IF reading.pc = "body" THEN 1 ELSE 0)

\* Headers and bodies of the packets written follow each other on the connection; only
\* the last body may still be missing, and is then the mutex holder's to write.
StreamInv ==
  reading.pc # "ended" =>
    /\ \A i \in 1 .. Len(stream), k \in 1 .. Len(written) :
         /\ PiecesRead + i = 2 * k - 1 => stream[i] = HeaderOf(written[k])
         /\ PiecesRead + i = 2 * k => stream[i] = BodyOf(written[k])
    /\ PiecesRead + Len(stream) \in {2 * Len(written) - 1, 2 * Len(written)}
    /\ \A w \in FrameWriters : sender[w].pc = "body" =>
         /\ Len(written) > 0 /\ written[Len(written)] = sender[w].packet
         /\ PiecesRead + Len(stream) = 2 * Len(written) - 1
    /\ ~cut /\ (\A w \in FrameWriters : sender[w].pc # "body") =>
         PiecesRead + Len(stream) = 2 * Len(written)
    /\ reading.pc = "body" =>
         /\ Len(received) < Len(written)
         /\ reading.size = HeaderOf(written[Len(received) + 1]).size

WireInv == SendersInv /\ ArrivedInv /\ StreamInv

LEMMA PieceShapes ==
  ASSUME NEW packet \in Packets
  PROVE  /\ HeaderOf(packet) \in Pieces /\ BodyOf(packet) \in Pieces
         /\ HeaderOf(packet).kind = "header" /\ BodyOf(packet).kind = "body"
         /\ HeaderOf(packet).size = Uint16(Frame(Marshal(packet)).size)
         /\ BodyOf(packet).size = Frame(Marshal(packet)).size
         /\ BodyOf(packet).frame = Frame(Marshal(packet))
         /\ Frame(Marshal(packet)).plain = Marshal(packet)
         /\ Fits(packet) => /\ HeaderOf(packet).size \in Nat
                            /\ HeaderOf(packet).size = BodyOf(packet).size
                            /\ HeaderOf(packet).size <= DefaultMaxFrameSize
<1>1. HeaderOf(packet) \in Pieces /\ BodyOf(packet) \in Pieces
  BY DEF Pieces
<1>2. /\ HeaderOf(packet).kind = "header" /\ BodyOf(packet).kind = "body"
      /\ HeaderOf(packet).size = Uint16(Frame(Marshal(packet)).size)
      /\ BodyOf(packet).size = Frame(Marshal(packet)).size
      /\ BodyOf(packet).frame = Frame(Marshal(packet))
  BY DEF HeaderOf, BodyOf
<1>3. Frame(Marshal(packet)).plain = Marshal(packet)
  BY DEF Frame
<1>4. /\ Frame(Marshal(packet)).size \in Nat
      /\ Fits(packet) => /\ Uint16(Frame(Marshal(packet)).size) = Frame(Marshal(packet)).size
                         /\ Frame(Marshal(packet)).size <= DefaultMaxFrameSize
  BY FrameRoundTrip
<1> QED BY <1>1, <1>2, <1>3, <1>4

LEMMA LengthTypes ==
  ASSUME ArrivedInv
  PROVE  /\ Len(received) \in Nat /\ Len(written) \in Nat /\ Len(stream) \in Nat
         /\ PiecesRead \in Nat
         /\ reading.pc = "body" => PiecesRead = 2 * Len(received) + 1
         /\ reading.pc # "body" => PiecesRead = 2 * Len(received)
<1>1. Len(received) \in Nat /\ Len(written) \in Nat /\ Len(stream) \in Nat
  BY DEF ArrivedInv
<1> QED BY <1>1 DEF PiecesRead

\* Nothing moves on the connection; who was between its two writes still is, unless the
\* connection is closed.
LEMMA QuietWireStep ==
  ASSUME WireInv, SendersInv', UNCHANGED <<stream, written, received, reading>>,
         cut => cut',
         \A w \in FrameWriters : sender'[w].pc = "body" => sender'[w] = sender[w],
         ~cut' => \A w \in FrameWriters : sender[w].pc = "body" => sender'[w].pc = "body"
  PROVE  WireInv'
<1>1. ArrivedInv'
  BY DEF WireInv, ArrivedInv
<1>2. PiecesRead' = PiecesRead
  BY DEF PiecesRead
<1>3. StreamInv'
  <2> SUFFICES ASSUME reading.pc # "ended"
               PROVE  /\ \A i \in 1 .. Len(stream), k \in 1 .. Len(written) :
                           /\ PiecesRead + i = 2 * k - 1 => stream[i] = HeaderOf(written[k])
                           /\ PiecesRead + i = 2 * k => stream[i] = BodyOf(written[k])
                      /\ PiecesRead + Len(stream) \in {2 * Len(written) - 1, 2 * Len(written)}
                      /\ \A w \in FrameWriters : sender'[w].pc = "body" =>
                           /\ Len(written) > 0 /\ written[Len(written)] = sender'[w].packet
                           /\ PiecesRead + Len(stream) = 2 * Len(written) - 1
                      /\ ~cut' /\ (\A w \in FrameWriters : sender'[w].pc # "body") =>
                           PiecesRead + Len(stream) = 2 * Len(written)
                      /\ reading.pc = "body" =>
                           /\ Len(received) < Len(written)
                           /\ reading.size = HeaderOf(written[Len(received) + 1]).size
    BY <1>2 DEF StreamInv
  <2>1. StreamInv
    BY DEF WireInv
  <2>2. /\ \A i \in 1 .. Len(stream), k \in 1 .. Len(written) :
             /\ PiecesRead + i = 2 * k - 1 => stream[i] = HeaderOf(written[k])
             /\ PiecesRead + i = 2 * k => stream[i] = BodyOf(written[k])
        /\ PiecesRead + Len(stream) \in {2 * Len(written) - 1, 2 * Len(written)}
        /\ reading.pc = "body" =>
             /\ Len(received) < Len(written)
             /\ reading.size = HeaderOf(written[Len(received) + 1]).size
    BY <2>1 DEF StreamInv
  <2>3. \A w \in FrameWriters : sender'[w].pc = "body" =>
          /\ Len(written) > 0 /\ written[Len(written)] = sender'[w].packet
          /\ PiecesRead + Len(stream) = 2 * Len(written) - 1
    BY <2>1 DEF StreamInv
  <2>4. ~cut' /\ (\A w \in FrameWriters : sender'[w].pc # "body") =>
          PiecesRead + Len(stream) = 2 * Len(written)
    BY <2>1 DEF StreamInv
  <2> QED BY <2>2, <2>3, <2>4
<1> QED BY <1>1, <1>3 DEF WireInv

LEMMA SenderMoved ==
  ASSUME sender \in [FrameWriters -> Senders], NEW w \in FrameWriters, NEW next \in Senders,
         sender' = [sender EXCEPT ![w] = next]
  PROVE  /\ sender' \in [FrameWriters -> Senders] /\ sender'[w] = next
         /\ \A q \in FrameWriters : q # w => sender'[q] = sender[q]
OBVIOUS

LEMMA RestingSender == NoSend \in Senders /\ NoSend.pc = "idle"
BY DEF NoSend, Senders

\* A sender goes on with its packet.
LEMMA SenderGoes ==
  ASSUME sender \in [FrameWriters -> Senders], NEW w \in FrameWriters,
         NEW label \in {"idle", "sealed", "header", "body"},
         sender' = [sender EXCEPT ![w].pc = label]
  PROVE  /\ sender' \in [FrameWriters -> Senders]
         /\ sender'[w].pc = label /\ sender'[w].packet = sender[w].packet
         /\ \A q \in FrameWriters : q # w => sender'[q] = sender[q]
<1> DEFINE next == [sender[w] EXCEPT !.pc = label]
<1>1. next \in Senders /\ next.pc = label /\ next.packet = sender[w].packet
  BY DEF Senders
<1>2. sender' = [sender EXCEPT ![w] = next]
  OBVIOUS
<1> HIDE DEF next
<1> QED BY <1>1, <1>2, SenderMoved

\* sendPacket, writeFrame before its first write and after a failed one, Close.
LEMMA SenderSteps ==
  ASSUME WireInv,
         \/ \E w \in FrameWriters : \/ \E packet \in Packets : SendPacket(w, packet)
                                    \/ LockWrite(w) \/ WriteFails(w)
         \/ CloseConnection
  PROVE  WireInv'
<1>1. /\ sender \in [FrameWriters -> Senders] /\ sends \in 0 .. MaxSends /\ cut \in BOOLEAN
      /\ \A w \in FrameWriters :
           /\ sender[w].pc # "idle" => sender[w].packet \in Packets
           /\ sender[w].pc \in {"header", "body"} => Fits(sender[w].packet)
           /\ writing = w <=> sender[w].pc \in {"header", "body"}
  BY DEF WireInv, SendersInv
<1>2. "nobody" \notin FrameWriters
  BY WireAssumption
<1>3. CASE CloseConnection
  <2>1. /\ UNCHANGED <<sender, writing, stream, reading, sends, written, received>>
        /\ cut' = TRUE
    BY <1>3 DEF CloseConnection
  <2>2. SendersInv'
    BY <1>1, <2>1 DEF SendersInv
  <2>3. UNCHANGED <<stream, written, received, reading>>
    BY <2>1
  <2> QED BY <2>1, <2>2, <2>3, QuietWireStep
<1>4. ASSUME NEW w \in FrameWriters, NEW packet \in Packets, SendPacket(w, packet)
      PROVE  WireInv'
  <2> DEFINE next == [pc |-> "sealed", packet |-> packet]
  <2>1. next \in Senders /\ next.pc = "sealed" /\ next.packet = packet
    BY DEF Senders
  <2>2. /\ sender[w].pc = "idle" /\ sends < MaxSends /\ sends' = sends + 1
        /\ sender' = [sender EXCEPT ![w] = next]
        /\ writing' = writing /\ cut' = cut
        /\ UNCHANGED <<stream, written, received, reading>>
    BY <1>4 DEF SendPacket
  <2> HIDE DEF next
  <2>3. /\ sender' \in [FrameWriters -> Senders] /\ sender'[w] = next
        /\ \A q \in FrameWriters : q # w => sender'[q] = sender[q]
    BY <1>1, <2>1, <2>2, SenderMoved
  <2>4. sends' \in 0 .. MaxSends
    BY <1>1, <2>2, WireAssumption
  <2>5. ASSUME NEW q \in FrameWriters
        PROVE  /\ sender'[q].pc # "idle" => sender'[q].packet \in Packets
               /\ sender'[q].pc \in {"header", "body"} => Fits(sender'[q].packet)
               /\ writing' = q <=> sender'[q].pc \in {"header", "body"}
               /\ sender'[q].pc = "body" => sender'[q] = sender[q]
               /\ sender[q].pc = "body" => sender'[q].pc = "body"
    BY <1>1, <2>1, <2>2, <2>3
  <2>6. SendersInv'
    BY <1>1, <2>2, <2>3, <2>4, <2>5 DEF SendersInv
  <2> QED BY <2>2, <2>5, <2>6, QuietWireStep
<1>5. ASSUME NEW w \in FrameWriters, LockWrite(w)
      PROVE  WireInv'
  <2>1. /\ sender[w].pc = "sealed" /\ writing = "nobody" /\ sends' = sends /\ cut' = cut
        /\ UNCHANGED <<stream, written, received, reading>>
    BY <1>5 DEF LockWrite
  <2>2. CASE sender' = [sender EXCEPT ![w] = NoSend] /\ writing' = writing
    <3>1. /\ sender' \in [FrameWriters -> Senders] /\ sender'[w].pc = "idle"
          /\ \A q \in FrameWriters : q # w => sender'[q] = sender[q]
      BY <1>1, <2>2, RestingSender, SenderMoved
    <3>2. SendersInv'
      BY <1>1, <2>1, <2>2, <3>1 DEF SendersInv
    <3> QED BY <2>1, <3>1, <3>2, QuietWireStep
  <2>3. CASE /\ Fits(sender[w].packet)
             /\ sender' = [sender EXCEPT ![w].pc = "header"] /\ writing' = w
    <3>1. /\ sender' \in [FrameWriters -> Senders]
          /\ sender'[w].pc = "header" /\ sender'[w].packet = sender[w].packet
          /\ \A q \in FrameWriters : q # w => sender'[q] = sender[q]
      BY <1>1, <2>3, SenderGoes
    <3>2. \A q \in FrameWriters : sender[q].pc \notin {"header", "body"}
      BY <1>1, <1>2, <2>1
    <3>3. SendersInv'
      BY <1>1, <2>1, <2>3, <3>1, <3>2 DEF SendersInv
    <3> QED BY <2>1, <3>1, <3>2, <3>3, QuietWireStep
  <2>4. Frame(Marshal(sender[w].packet)).size > MaxFrame \/ Fits(sender[w].packet)
    <3>1. Frame(Marshal(sender[w].packet)).size \in Nat /\ MaxFrame \in Int
      BY <1>1, <2>1, FrameRoundTrip, WidthValue DEF MaxFrame
    <3> QED BY <3>1 DEF Fits
  <2>5. IF Frame(Marshal(sender[w].packet)).size > MaxFrame
        THEN sender' = [sender EXCEPT ![w] = NoSend] /\ writing' = writing
        ELSE sender' = [sender EXCEPT ![w].pc = "header"] /\ writing' = w
    BY <1>5 DEF LockWrite
  <2> QED BY <2>2, <2>3, <2>4, <2>5
<1>6. ASSUME NEW w \in FrameWriters, WriteFails(w)
      PROVE  WireInv'
  <2>1. /\ sender[w].pc \in {"header", "body"} /\ cut /\ cut' = cut /\ sends' = sends
        /\ sender' = [sender EXCEPT ![w] = NoSend] /\ writing' = "nobody"
        /\ UNCHANGED <<stream, written, received, reading>>
    BY <1>6 DEF WriteFails
  <2>2. /\ sender' \in [FrameWriters -> Senders] /\ sender'[w].pc = "idle"
        /\ \A q \in FrameWriters : q # w => sender'[q] = sender[q]
    BY <1>1, <2>1, RestingSender, SenderMoved
  <2>3. \A q \in FrameWriters : sender'[q].pc \notin {"header", "body"}
    BY <1>1, <2>1, <2>2
  <2>4. SendersInv'
    BY <1>1, <1>2, <2>1, <2>2, <2>3 DEF SendersInv
  <2> QED BY <2>1, <2>3, <2>4, QuietWireStep
<1> QED BY <1>3, <1>4, <1>5, <1>6

\* The connection is appended to at the end of what has been written.
LEMMA PieceAppended ==
  ASSUME WireInv, NEW piece \in Pieces, stream' = Append(stream, piece)
  PROVE  /\ stream' \in Seq(Pieces) /\ Len(stream') = Len(stream) + 1
         /\ \A i \in 1 .. Len(stream) : stream'[i] = stream[i]
         /\ stream'[Len(stream) + 1] = piece
<1>1. stream \in Seq(Pieces)
  BY DEF WireInv, ArrivedInv
<1> QED BY <1>1

\* WriteFrame's first write.
LEMMA HeaderWritten ==
  ASSUME WireInv, NEW w \in FrameWriters, WriteHeader(w)
  PROVE  WireInv'
<1> DEFINE p == sender[w].packet
           n == Len(written)
<1>1. /\ sender \in [FrameWriters -> Senders] /\ sends \in 0 .. MaxSends /\ cut = FALSE
      /\ \A q \in FrameWriters :
           /\ sender[q].pc # "idle" => sender[q].packet \in Packets
           /\ sender[q].pc \in {"header", "body"} => Fits(sender[q].packet)
           /\ writing = q <=> sender[q].pc \in {"header", "body"}
  BY DEF WireInv, SendersInv, WriteHeader
<1>2. /\ sender[w].pc = "header" /\ stream' = Append(stream, HeaderOf(p))
      /\ written' = Append(written, p)
      /\ sender' = [sender EXCEPT ![w].pc = "body"]
      /\ UNCHANGED <<writing, reading, cut, sends, received>>
  BY DEF WriteHeader, HeaderOf
<1>3. p \in Packets /\ Fits(p)
  BY <1>1, <1>2
<1>4. /\ sender' \in [FrameWriters -> Senders]
      /\ sender'[w].pc = "body" /\ sender'[w].packet = p
      /\ \A q \in FrameWriters : q # w => sender'[q] = sender[q]
  BY <1>1, <1>2, SenderGoes
<1>5. \A q \in FrameWriters : q # w => sender[q].pc \notin {"header", "body"}
  BY <1>1, <1>2
<1>6. SendersInv'
  BY <1>1, <1>2, <1>3, <1>4 DEF SendersInv
<1>7. HeaderOf(p) \in Pieces
  BY <1>3, PieceShapes
<1> HIDE DEF p
<1>8. /\ stream' \in Seq(Pieces) /\ Len(stream') = Len(stream) + 1
      /\ \A i \in 1 .. Len(stream) : stream'[i] = stream[i]
      /\ stream'[Len(stream) + 1] = HeaderOf(p)
  BY <1>2, <1>7, PieceAppended
<1>9. /\ Len(received) \in Nat /\ n \in Nat /\ Len(stream) \in Nat /\ PiecesRead \in Nat
      /\ written \in Seq(Packets) /\ Len(received) <= n
  BY LengthTypes DEF WireInv, ArrivedInv
<1>10. /\ written' \in Seq(Packets) /\ Len(written') = n + 1
       /\ \A k \in 1 .. n : written'[k] = written[k]
       /\ written'[n + 1] = p
  BY <1>2, <1>3, <1>9
<1> HIDE DEF n
<1>11. ArrivedInv'
  <2>1. \A k \in 1 .. n + 1 : Fits(written'[k])
    <3>1. \A k \in 1 .. n : Fits(written[k])
      BY DEF WireInv, ArrivedInv, n
    <3>2. \A k \in 1 .. n + 1 : k \in 1 .. n \/ k = n + 1
      BY <1>9
    <3> QED BY <1>3, <1>10, <3>1, <3>2
  <2>2. \A k \in 1 .. Len(received) : received[k] = Arrived(written'[k])
    <3>1. \A k \in 1 .. Len(received) : k \in 1 .. n
      BY <1>9
    <3> QED BY <1>10, <3>1 DEF WireInv, ArrivedInv
  <2>3. Len(received) <= n + 1
    BY <1>9
  <2>4. /\ received \in Seq({Arrived(q) : q \in Packets})
        /\ reading \in [pc : {"header", "body", "ended"}, size : Nat]
        /\ reading.pc = "ended" => cut
    BY DEF WireInv, ArrivedInv
  <2> QED BY <1>2, <1>8, <1>10, <2>1, <2>2, <2>3, <2>4 DEF ArrivedInv
<1>12. reading.pc # "ended"
  BY <1>1 DEF WireInv, ArrivedInv
<1>13. /\ PiecesRead + Len(stream) = 2 * n
       /\ \A i \in 1 .. Len(stream), k \in 1 .. n :
            /\ PiecesRead + i = 2 * k - 1 => stream[i] = HeaderOf(written[k])
            /\ PiecesRead + i = 2 * k => stream[i] = BodyOf(written[k])
       /\ reading.pc = "body" =>
            /\ Len(received) < n
            /\ reading.size = HeaderOf(written[Len(received) + 1]).size
  <2>1. \A q \in FrameWriters : sender[q].pc # "body"
    BY <1>2, <1>5
  <2> QED BY <1>1, <1>12, <2>1 DEF WireInv, StreamInv, n
<1>14. PiecesRead' = PiecesRead
  BY <1>2 DEF PiecesRead
<1>15. \A i \in 1 .. Len(stream) + 1, k \in 1 .. n + 1 :
         /\ PiecesRead + i = 2 * k - 1 => stream'[i] = HeaderOf(written'[k])
         /\ PiecesRead + i = 2 * k => stream'[i] = BodyOf(written'[k])
  <2> SUFFICES ASSUME NEW i \in 1 .. Len(stream) + 1, NEW k \in 1 .. n + 1
               PROVE  /\ PiecesRead + i = 2 * k - 1 => stream'[i] = HeaderOf(written'[k])
                      /\ PiecesRead + i = 2 * k => stream'[i] = BodyOf(written'[k])
    OBVIOUS
  <2>1. CASE i \in 1 .. Len(stream)
    <3>1. PiecesRead + i <= 2 * n
      BY <1>9, <1>13, <2>1
    <3>2. PiecesRead + i = 2 * k - 1 \/ PiecesRead + i = 2 * k => k \in 1 .. n
      BY <1>9, <3>1
    <3>3. stream'[i] = stream[i] /\ (k \in 1 .. n => written'[k] = written[k])
      BY <1>8, <1>10, <2>1
    <3>4. k \in 1 .. n => /\ PiecesRead + i = 2 * k - 1 => stream[i] = HeaderOf(written[k])
                          /\ PiecesRead + i = 2 * k => stream[i] = BodyOf(written[k])
      BY <1>13, <2>1
    <3> QED BY <3>2, <3>3, <3>4
  <2>2. CASE i = Len(stream) + 1
    <3>1. PiecesRead + i = 2 * n + 1
      <4>1. PiecesRead + Len(stream) = 2 * n
        BY <1>13
      <4> QED BY <1>9, <2>2, <4>1
    <3>2. PiecesRead + i # 2 * k /\ (PiecesRead + i = 2 * k - 1 => k = n + 1)
      BY <1>9, <3>1
    <3> QED BY <1>8, <1>10, <2>2, <3>2
  <2> QED BY <1>9, <2>1, <2>2
<1>16. PiecesRead + Len(stream') = 2 * (n + 1) - 1 /\ n + 1 > 0
  <2>1. PiecesRead + (Len(stream) + 1) = 2 * (n + 1) - 1 /\ n + 1 > 0
    <3>1. PiecesRead + Len(stream) = 2 * n
      BY <1>13
    <3>2. PiecesRead \in Nat /\ Len(stream) \in Nat /\ n \in Nat
      BY <1>9
    <3> HIDE DEF PiecesRead
    <3> QED BY <3>1, <3>2
  <2> QED BY <1>8, <2>1
<1>17. reading.pc = "body" =>
         /\ Len(received) < n + 1
         /\ reading.size = HeaderOf(written'[Len(received) + 1]).size
  <2> SUFFICES ASSUME reading.pc = "body"
               PROVE  /\ Len(received) < n + 1
                      /\ reading.size = HeaderOf(written'[Len(received) + 1]).size
    OBVIOUS
  <2>1. /\ Len(received) < n
        /\ reading.size = HeaderOf(written[Len(received) + 1]).size
    BY <1>13
  <2>2. Len(received) < n + 1 /\ Len(received) + 1 \in 1 .. n
    BY <1>9, <2>1
  <2>3. written'[Len(received) + 1] = written[Len(received) + 1]
    BY <1>10, <2>2
  <2> QED BY <2>1, <2>2, <2>3
<1>18. StreamInv'
  <2>1. \A i \in 1 .. Len(stream'), k \in 1 .. Len(written') :
          /\ PiecesRead' + i = 2 * k - 1 => stream'[i] = HeaderOf(written'[k])
          /\ PiecesRead' + i = 2 * k => stream'[i] = BodyOf(written'[k])
    BY <1>8, <1>10, <1>14, <1>15
  <2>2. PiecesRead' + Len(stream') = 2 * Len(written') - 1 /\ Len(written') > 0
    BY <1>10, <1>14, <1>16
  <2>3. \A q \in FrameWriters : sender'[q].pc = "body" =>
          written'[Len(written')] = sender'[q].packet
    BY <1>4, <1>5, <1>10
  <2>4. ~(\A q \in FrameWriters : sender'[q].pc # "body")
    BY <1>4
  <2>5. reading'.pc = "body" =>
          /\ Len(received') < Len(written')
          /\ reading'.size = HeaderOf(written'[Len(received') + 1]).size
    BY <1>2, <1>10, <1>17
  <2> QED BY <2>1, <2>2, <2>3, <2>4, <2>5 DEF StreamInv
<1> QED BY <1>6, <1>11, <1>18 DEF WireInv

\* WriteFrame's second write, and writeFrame's return.
LEMMA BodyWritten ==
  ASSUME WireInv, NEW w \in FrameWriters, WriteBody(w)
  PROVE  WireInv'
<1> DEFINE p == sender[w].packet
           n == Len(written)
<1>1. /\ sender \in [FrameWriters -> Senders] /\ sends \in 0 .. MaxSends /\ cut = FALSE
      /\ \A q \in FrameWriters :
           /\ sender[q].pc # "idle" => sender[q].packet \in Packets
           /\ sender[q].pc \in {"header", "body"} => Fits(sender[q].packet)
           /\ writing = q <=> sender[q].pc \in {"header", "body"}
  BY DEF WireInv, SendersInv, WriteBody
<1>2. /\ sender[w].pc = "body" /\ stream' = Append(stream, BodyOf(p))
      /\ sender' = [sender EXCEPT ![w] = NoSend] /\ writing' = "nobody"
      /\ UNCHANGED <<written, reading, cut, sends, received>>
  BY DEF WriteBody, BodyOf
<1>3. p \in Packets
  BY <1>1, <1>2
<1>4. /\ sender' \in [FrameWriters -> Senders] /\ sender'[w].pc = "idle"
      /\ \A q \in FrameWriters : q # w => sender'[q] = sender[q]
  BY <1>1, <1>2, RestingSender, SenderMoved
<1>5. \A q \in FrameWriters : sender'[q].pc \notin {"header", "body"}
  BY <1>1, <1>2, <1>4
<1>6. SendersInv'
  BY <1>1, <1>2, <1>4, <1>5, WireAssumption DEF SendersInv
<1>7. BodyOf(p) \in Pieces
  BY <1>3, PieceShapes
<1>8. /\ stream' \in Seq(Pieces) /\ Len(stream') = Len(stream) + 1
      /\ \A i \in 1 .. Len(stream) : stream'[i] = stream[i]
      /\ stream'[Len(stream) + 1] = BodyOf(p)
  BY <1>2, <1>7, PieceAppended
<1>9. /\ n \in Nat /\ Len(stream) \in Nat /\ PiecesRead \in Nat
  BY LengthTypes DEF WireInv
<1>10. ArrivedInv'
  BY <1>2, <1>8 DEF WireInv, ArrivedInv
<1>11. reading.pc # "ended"
  BY <1>1 DEF WireInv, ArrivedInv
<1>12. /\ PiecesRead + Len(stream) = 2 * n - 1 /\ n > 0 /\ written[n] = p
       /\ \A i \in 1 .. Len(stream), k \in 1 .. n :
            /\ PiecesRead + i = 2 * k - 1 => stream[i] = HeaderOf(written[k])
            /\ PiecesRead + i = 2 * k => stream[i] = BodyOf(written[k])
       /\ reading.pc = "body" =>
            /\ Len(received) < n
            /\ reading.size = HeaderOf(written[Len(received) + 1]).size
  BY <1>2, <1>11 DEF WireInv, StreamInv
<1>13. PiecesRead' = PiecesRead
  BY <1>2 DEF PiecesRead
<1> HIDE DEF p, n
<1>14. \A i \in 1 .. Len(stream) + 1, k \in 1 .. n :
         /\ PiecesRead + i = 2 * k - 1 => stream'[i] = HeaderOf(written[k])
         /\ PiecesRead + i = 2 * k => stream'[i] = BodyOf(written[k])
  <2> SUFFICES ASSUME NEW i \in 1 .. Len(stream) + 1, NEW k \in 1 .. n
               PROVE  /\ PiecesRead + i = 2 * k - 1 => stream'[i] = HeaderOf(written[k])
                      /\ PiecesRead + i = 2 * k => stream'[i] = BodyOf(written[k])
    OBVIOUS
  <2>1. CASE i \in 1 .. Len(stream)
    BY <1>8, <1>12, <2>1
  <2>2. CASE i = Len(stream) + 1
    <3>1. PiecesRead + i = 2 * n
      BY <1>9, <1>12, <2>2
    <3>2. PiecesRead + i # 2 * k - 1 /\ (PiecesRead + i = 2 * k => k = n)
      BY <1>9, <3>1
    <3> QED BY <1>8, <1>12, <2>2, <3>2
  <2> QED BY <1>9, <2>1, <2>2
<1>15. PiecesRead + Len(stream') = 2 * n
  BY <1>8, <1>9, <1>12
<1>16. StreamInv'
  BY <1>2, <1>5, <1>8, <1>12, <1>13, <1>14, <1>15 DEF StreamInv, n
<1> QED BY <1>6, <1>10, <1>16 DEF WireInv

\* What the reader finds first is the next piece of what has been written.
LEMMA NextPiece ==
  ASSUME WireInv, stream # <<>>, reading.pc \in {"header", "body"}
  PROVE  LET k == Len(received) + 1 IN
         /\ k \in 1 .. Len(written) /\ written[k] \in Packets /\ Fits(written[k])
         /\ reading.pc = "header" => Head(stream) = HeaderOf(written[k])
         /\ reading.pc = "body" => /\ Head(stream) = BodyOf(written[k])
                                   /\ reading.size = HeaderOf(written[k]).size
<1> DEFINE n == Len(written)
           m == Len(received)
<1>1. /\ m \in Nat /\ n \in Nat /\ Len(stream) \in Nat /\ PiecesRead \in Nat
      /\ reading.pc = "body" => PiecesRead = 2 * m + 1
      /\ reading.pc # "body" => PiecesRead = 2 * m
  BY LengthTypes DEF WireInv
<1>2. /\ stream \in Seq(Pieces) /\ written \in Seq(Packets)
      /\ \A k \in 1 .. n : Fits(written[k])
  BY DEF WireInv, ArrivedInv
<1>3. Len(stream) > 0 /\ Head(stream) = stream[1] /\ 1 \in 1 .. Len(stream)
  BY <1>2
<1>4. /\ \A i \in 1 .. Len(stream), k \in 1 .. n :
           /\ PiecesRead + i = 2 * k - 1 => stream[i] = HeaderOf(written[k])
           /\ PiecesRead + i = 2 * k => stream[i] = BodyOf(written[k])
      /\ PiecesRead + Len(stream) \in {2 * n - 1, 2 * n}
      /\ reading.pc = "body" => /\ m < n /\ reading.size = HeaderOf(written[m + 1]).size
  BY DEF WireInv, StreamInv
<1> HIDE DEF n, m
<1>5. m + 1 \in 1 .. n
  <2>1. CASE reading.pc = "body"
    BY <1>1, <1>4, <2>1
  <2>2. CASE reading.pc # "body"
    <3>1. 2 * m + Len(stream) <= 2 * n
      BY <1>1, <1>4, <2>2
    <3> QED BY <1>1, <1>3, <3>1
  <2> QED BY <2>1, <2>2
<1>6. written[m + 1] \in Packets /\ Fits(written[m + 1])
  BY <1>2, <1>5 DEF n
<1>7. reading.pc = "header" => Head(stream) = HeaderOf(written[m + 1])
  <2> SUFFICES ASSUME reading.pc = "header" PROVE Head(stream) = HeaderOf(written[m + 1])
    OBVIOUS
  <2>1. PiecesRead + 1 = 2 * (m + 1) - 1
    BY <1>1
  <2> QED BY <1>3, <1>4, <1>5, <2>1
<1>8. reading.pc = "body" => Head(stream) = BodyOf(written[m + 1])
  <2> SUFFICES ASSUME reading.pc = "body" PROVE Head(stream) = BodyOf(written[m + 1])
    OBVIOUS
  <2>1. PiecesRead + 1 = 2 * (m + 1)
    BY <1>1
  <2> QED BY <1>3, <1>4, <1>5, <2>1
<1> QED BY <1>4, <1>5, <1>6, <1>7, <1>8 DEF n, m

\* One piece less to read, one more read.
LEMMA PieceTaken ==
  ASSUME WireInv, stream # <<>>, reading.pc \in {"header", "body"},
         reading'.pc \in {"header", "body"},
         stream' = Tail(stream), UNCHANGED <<sender, writing, cut, sends, written>>,
         PiecesRead' = PiecesRead + 1, ArrivedInv',
         reading'.pc = "body" =>
           /\ Len(received') < Len(written)
           /\ reading'.size = HeaderOf(written[Len(received') + 1]).size
  PROVE  WireInv'
<1> DEFINE n == Len(written)
<1>1. /\ n \in Nat /\ Len(stream) \in Nat /\ PiecesRead \in Nat /\ stream \in Seq(Pieces)
  BY LengthTypes DEF WireInv, ArrivedInv
<1>2. /\ Len(stream') = Len(stream) - 1 /\ Len(stream) > 0
      /\ \A i \in 1 .. Len(stream') : stream'[i] = stream[i + 1]
  <2>1. /\ Len(Tail(stream)) = Len(stream) - 1
        /\ \A i \in 1 .. Len(Tail(stream)) : Tail(stream)[i] = stream[i + 1]
    BY <1>1, HeadTailProperties
  <2>2. Len(stream) > 0
    BY <1>1
  <2> QED BY <2>1, <2>2
<1>3. SendersInv'
  BY DEF WireInv, SendersInv
<1>4. reading.pc # "ended" /\ reading'.pc # "ended"
  OBVIOUS
<1>5. /\ \A i \in 1 .. Len(stream), k \in 1 .. n :
           /\ PiecesRead + i = 2 * k - 1 => stream[i] = HeaderOf(written[k])
           /\ PiecesRead + i = 2 * k => stream[i] = BodyOf(written[k])
      /\ PiecesRead + Len(stream) \in {2 * n - 1, 2 * n}
      /\ \A w \in FrameWriters : sender[w].pc = "body" =>
           /\ n > 0 /\ written[n] = sender[w].packet
           /\ PiecesRead + Len(stream) = 2 * n - 1
      /\ ~cut /\ (\A w \in FrameWriters : sender[w].pc # "body") =>
           PiecesRead + Len(stream) = 2 * n
  BY <1>4 DEF WireInv, StreamInv
<1> HIDE DEF n
<1>6. PiecesRead' + Len(stream') = PiecesRead + Len(stream)
  <2>1. (PiecesRead + 1) + (Len(stream) - 1) = PiecesRead + Len(stream)
    BY <1>1
  <2> QED BY <1>2, <2>1
<1>7. \A i \in 1 .. Len(stream'), k \in 1 .. n :
        /\ PiecesRead' + i = 2 * k - 1 => stream'[i] = HeaderOf(written[k])
        /\ PiecesRead' + i = 2 * k => stream'[i] = BodyOf(written[k])
  <2> SUFFICES ASSUME NEW i \in 1 .. Len(stream'), NEW k \in 1 .. n
               PROVE  /\ PiecesRead' + i = 2 * k - 1 => stream'[i] = HeaderOf(written[k])
                      /\ PiecesRead' + i = 2 * k => stream'[i] = BodyOf(written[k])
    OBVIOUS
  <2>1. i \in 1 .. Len(stream) - 1
    BY <1>2
  <2>2. i + 1 \in 1 .. Len(stream) /\ (PiecesRead + 1) + i = PiecesRead + (i + 1)
    BY <1>1, <2>1
  <2>3. PiecesRead' + i = PiecesRead + (i + 1)
    BY <2>2
  <2> QED BY <1>2, <1>5, <2>2, <2>3
<1>8. StreamInv'
  BY <1>5, <1>6, <1>7 DEF StreamInv, n
<1> QED BY <1>3, <1>8 DEF WireInv

\* ReadFrame: the size.
LEMMA HeaderRead ==
  ASSUME WireInv, ReadHeader
  PROVE  WireInv'
<1> DEFINE k == Len(received) + 1
<1>1. /\ reading.pc = "header" /\ stream # <<>> /\ stream' = Tail(stream)
      /\ UNCHANGED <<sender, writing, cut, sends, written, received>>
      /\ reading' = IF Head(stream).kind = "header"
                       /\ Head(stream).size <= DefaultMaxFrameSize
                    THEN [pc |-> "body", size |-> Head(stream).size]
                    ELSE [pc |-> "failed", size |-> 0]
  BY DEF ReadHeader
<1>2. /\ k \in 1 .. Len(written) /\ written[k] \in Packets /\ Fits(written[k])
      /\ Head(stream) = HeaderOf(written[k])
  BY <1>1, NextPiece
<1>3. /\ HeaderOf(written[k]).kind = "header" /\ HeaderOf(written[k]).size \in Nat
      /\ HeaderOf(written[k]).size <= DefaultMaxFrameSize
  BY <1>2, PieceShapes
<1>4. reading' = [pc |-> "body", size |-> HeaderOf(written[k]).size]
  BY <1>1, <1>2, <1>3
<1>5. /\ reading'.pc = "body" /\ reading'.size = HeaderOf(written[k]).size
      /\ reading' \in [pc : {"header", "body", "ended"}, size : Nat]
  BY <1>3, <1>4
<1>6. PiecesRead' = PiecesRead + 1
  <2>1. Len(received) \in Nat
    BY LengthTypes DEF WireInv
  <2> QED BY <1>1, <1>5, <2>1 DEF PiecesRead
<1>7. ArrivedInv'
  <2>1. stream' \in Seq(Pieces)
    BY <1>1, HeadTailProperties DEF WireInv, ArrivedInv
  <2> QED BY <1>1, <1>5, <2>1 DEF WireInv, ArrivedInv
<1>8. Len(received') < Len(written)
  <2>1. Len(received) \in Nat /\ Len(written) \in Nat
    BY LengthTypes DEF WireInv
  <2> QED BY <1>1, <1>2, <2>1
<1>9. UNCHANGED <<sender, writing, cut, sends, written>> /\ received' = received
  BY <1>1
<1> HIDE DEF k
<1>10. reading'.size = HeaderOf(written[Len(received') + 1]).size
  BY <1>5, <1>9 DEF k
<1> QED BY <1>1, <1>5, <1>6, <1>7, <1>8, <1>9, <1>10, PieceTaken

\* ReadFrame's second read, Decrypt and Parse: the packet is the next one written.
LEMMA BodyRead ==
  ASSUME WireInv, ReadBody
  PROVE  WireInv'
<1> DEFINE k == Len(received) + 1
           p == written[k]
           packet == Parse(Head(stream).frame.plain)
           readable == /\ Head(stream).kind = "body" /\ Head(stream).size = reading.size
                       /\ Unsealable(Head(stream).frame) /\ packet # NotParsed
<1>1. /\ reading.pc = "body" /\ stream # <<>> /\ stream' = Tail(stream)
      /\ UNCHANGED <<sender, writing, cut, sends, written>>
      /\ reading' = [pc |-> IF readable THEN "header" ELSE "failed", size |-> 0]
      /\ received' = IF readable THEN Append(received, packet) ELSE received
  BY DEF ReadBody
<1>2. /\ k \in 1 .. Len(written) /\ p \in Packets /\ Fits(p)
      /\ Head(stream) = BodyOf(p) /\ reading.size = HeaderOf(p).size
  BY <1>1, NextPiece
<1> HIDE DEF p
<1>3. /\ BodyOf(p).kind = "body" /\ BodyOf(p).size = HeaderOf(p).size
      /\ BodyOf(p).frame = Frame(Marshal(p)) /\ BodyOf(p).frame.plain = Marshal(p)
  BY <1>2, PieceShapes
<1>4. Unsealable(Frame(Marshal(p)))
  BY <1>2, FrameRoundTrip
<1>5. Parse(Marshal(p)) = Arrived(p) /\ Arrived(p) # NotParsed
  BY <1>2, ParseRoundTrip
<1>6. readable /\ packet = Arrived(p)
  BY <1>2, <1>3, <1>4, <1>5
<1> HIDE DEF readable, packet
<1>7. /\ reading' = [pc |-> "header", size |-> 0]
      /\ received' = Append(received, Arrived(p))
  BY <1>1, <1>6
<1>8. /\ received \in Seq({Arrived(q) : q \in Packets}) /\ Len(received) \in Nat
      /\ Len(written) \in Nat /\ Arrived(p) \in {Arrived(q) : q \in Packets}
  BY <1>2, LengthTypes DEF WireInv, ArrivedInv
<1>9. /\ received' \in Seq({Arrived(q) : q \in Packets})
      /\ Len(received') = Len(received) + 1
      /\ \A j \in 1 .. Len(received) : received'[j] = received[j]
      /\ received'[Len(received) + 1] = Arrived(p)
  BY <1>7, <1>8, AppendProperties
<1>10. /\ reading'.pc = "header"
       /\ reading' \in [pc : {"header", "body", "ended"}, size : Nat]
  BY <1>7
<1>11. PiecesRead' = PiecesRead + 1
  <2>1. PiecesRead = 2 * Len(received) + 1 /\ PiecesRead' = 2 * (Len(received) + 1) + 0
    BY <1>1, <1>8, <1>9, <1>10 DEF PiecesRead
  <2> QED BY <1>8, <2>1
<1>12. ArrivedInv'
  <2>1. stream' \in Seq(Pieces)
    BY <1>1, HeadTailProperties DEF WireInv, ArrivedInv
  <2>2. \A j \in 1 .. Len(received') : received'[j] = Arrived(written[j])
    <3> SUFFICES ASSUME NEW j \in 1 .. Len(received') PROVE received'[j] = Arrived(written[j])
      OBVIOUS
    <3>1. CASE j \in 1 .. Len(received)
      BY <1>9, <3>1 DEF WireInv, ArrivedInv
    <3>2. CASE j = Len(received) + 1
      BY <1>9, <3>2 DEF p
    <3> QED BY <1>8, <1>9, <3>1, <3>2
  <2>3. Len(received') <= Len(written)
    BY <1>2, <1>8, <1>9
  <2>4. /\ written \in Seq(Packets) /\ \A j \in 1 .. Len(written) : Fits(written[j])
    BY DEF WireInv, ArrivedInv
  <2> QED BY <1>1, <1>9, <1>10, <2>1, <2>2, <2>3, <2>4 DEF ArrivedInv
<1> QED BY <1>1, <1>10, <1>11, <1>12, PieceTaken

LEMMA EndRead ==
  ASSUME WireInv, ReadEnd
  PROVE  WireInv'
<1>1. /\ cut /\ reading' = [pc |-> "ended", size |-> 0]
      /\ UNCHANGED <<sender, writing, stream, cut, sends, written, received>>
  BY DEF ReadEnd
<1>2. reading'.pc = "ended" /\ reading' \in [pc : {"header", "body", "ended"}, size : Nat]
  BY <1>1
<1>3. SendersInv' /\ StreamInv'
  BY <1>1, <1>2 DEF WireInv, SendersInv, StreamInv
<1>4. ArrivedInv'
  BY <1>1, <1>2 DEF WireInv, ArrivedInv
<1> QED BY <1>3, <1>4 DEF WireInv

LEMMA WireInitInv == WireInit => WireInv
<1> SUFFICES ASSUME WireInit PROVE WireInv
  OBVIOUS
<1>1. SendersInv
  <2>1. /\ sender = [w \in FrameWriters |-> NoSend] /\ sends = 0 /\ cut = FALSE
        /\ writing = "nobody"
    BY DEF WireInit
  <2>2. /\ sender \in [FrameWriters -> Senders]
        /\ \A w \in FrameWriters : sender[w].pc = "idle" /\ writing # w
    BY <2>1, RestingSender, WireAssumption
  <2>3. MaxSends \in Nat
    BY WireAssumption
  <2>4. sends \in 0 .. MaxSends
    BY <2>1, <2>3
  <2>5. cut \in BOOLEAN
    BY <2>1
  <2> QED BY <2>2, <2>4, <2>5 DEF SendersInv
<1>2. /\ stream = <<>> /\ written = <<>> /\ received = <<>>
      /\ Len(stream) = 0 /\ Len(written) = 0 /\ Len(received) = 0
      /\ reading = [pc |-> "header", size |-> 0] /\ cut = FALSE
      /\ \A w \in FrameWriters : sender[w].pc # "body"
  BY RestingSender DEF WireInit
<1>3. reading.pc = "header" /\ reading \in [pc : {"header", "body", "ended"}, size : Nat]
  BY <1>2
<1>4. ArrivedInv
  BY <1>2, <1>3 DEF ArrivedInv
<1>5. PiecesRead = 0
  BY <1>2, <1>3 DEF PiecesRead
<1>6. StreamInv
  BY <1>2, <1>3, <1>5 DEF StreamInv
<1> QED BY <1>1, <1>4, <1>6 DEF WireInv

\* Writers, reader and the end of the connection keep headers and bodies at their places.
THEOREM WireInvariant == WireSpec => []WireInv
<1>1. WireInv /\ [WireNext]_wireVars => WireInv'
  <2> SUFFICES ASSUME WireInv, [WireNext]_wireVars PROVE WireInv'
    OBVIOUS
  <2>1. CASE UNCHANGED wireVars
    <3>1. /\ UNCHANGED <<stream, written, received, reading>>
          /\ UNCHANGED <<sender, writing, cut, sends>>
      BY <2>1 DEF wireVars
    <3>2. SendersInv'
      BY <3>1 DEF WireInv, SendersInv
    <3> QED BY <3>1, <3>2, QuietWireStep
  <2>2. CASE WireNext
    BY <2>2, SenderSteps, HeaderWritten, BodyWritten, HeaderRead, BodyRead, EndRead
       DEF WireNext
  <2> QED BY <2>1, <2>2
<1> QED BY <1>1, WireInitInv, PTL DEF WireSpec

\* Marshal, Encrypt, WriteFrame, ReadFrame, Decrypt, Parse: for packets of any lengths and
\* any number of goroutines that write, the other side gets the packets whose frames were
\* written, in that order, with their options sorted and otherwise as they were; and the
\* session never ends over a frame that could not be read.
THEOREM PacketsArrive == WireSpec => []WireRoundTrip
<1>1. WireInv => WireRoundTrip
  <2> SUFFICES ASSUME WireInv PROVE WireRoundTrip
    OBVIOUS
  <2>1. WireTypeOK
    BY DEF WireInv, SendersInv, ArrivedInv, WireTypeOK
  <2>2. reading.pc # "failed"
    BY DEF WireInv, ArrivedInv
  <2>3. \A k \in DOMAIN received : received[k] = Arrived(written[k])
    BY DEF WireInv, ArrivedInv
  <2> QED BY <2>1, <2>2, <2>3 DEF WireRoundTrip, Arrived
<1> QED BY <1>1, WireInvariant, PTL
=============================================================================
