---------------------------- MODULE MCServices ----------------------------
(***************************************************************************)
(* Small instances of the services that requests share, the catalog's      *)
(* (MCFirmwareCatalog) among them: each behaviour belongs to one part, in  *)
(* which one service runs within that part's limits and the others rest.   *)
(***************************************************************************)
EXTENDS MCFirmwareCatalog, Fleet, Webhooks, Accounts, WireCodecs

CONSTANTS o1, l1, d1

HookParts == {"backoff", "hooks"}

-----------------------------------------------------------------------------
\* The fleet starts empty, or with a product that one of two owned devices belongs to.
MCFleetInit ==
  /\ \/ /\ FleetInit
     \/ /\ product = [p \in ProductIds |->
                        IF p = "p1" THEN [slug |-> "s", owner |-> o1] ELSE NoProduct]
        /\ link = [l \in LinkIds |->
                     IF l = l1 THEN [product |-> "p1", dev |-> d1, desired |-> 0] ELSE NoLink]
        /\ unit = [d \in FleetDevices |->
                     [owner |-> o1, product |-> IF d = d1 THEN "p1" ELSE "none"]]
        /\ code = [k \in Codes |-> [state |-> "open", owner |-> o1]]
        /\ caller = [c \in Callers |-> NoCall]
        /\ calls = 0 /\ failed = 0
        /\ met = {} /\ deleted = {} /\ described = {} /\ claimed = [k \in Codes |-> {}]

\* One of the devices is claimed or given up, and has sessions, one message of which is at
\* work at a time; it calls itself "p1" if anything.  The other is linked and provisioned.
\* (A description without a product is a touch.)
FleetLimits ==
  LET messages == {c \in Callers : caller'[c].op \in {"touch", "describe"}} IN
  /\ Cardinality(messages) <= 1
  /\ \A c \in messages : caller'[c].op = "describe" => caller'[c].prod = "p1"
  /\ \A c \in Callers :
       caller'[c].op \in {"touch", "describe", "claim"} => caller'[c].dev = d1

\* Backoff needs many failures of one delivery after another, and no owner; races few of two.
HookLimits ==
  IF part = "backoff"
  THEN /\ Cardinality({p \in Publishers : delivery'[p] # NoDelivery}) <= 1
       /\ streak' >= streak
  ELSE /\ tries' <= 2 /\ minute' <= 1
       /\ Cardinality({p \in Publishers : delivery'[p] # NoDelivery})
            + Cardinality({e \in Editors : edit'[e] # NoEdit}) <= 2

\* Lengths at the boundaries of the encoding, repeated and unsorted options.
Option(number, length) == [number |-> number, length |-> length]

Packet(tokenLength, options, payload) ==
  [id |-> "request", token |-> tokenLength, options |-> options, payload |-> payload]

Answer == [id |-> "answer", token |-> 1, options |-> <<>>, payload |-> 0]

MCPackets ==
  {Answer}
  \union {Packet(0, <<Option(n, l)>>, 0) : n \in {0, 12, 13, 268, 269, 65535}, l \in {0, 13}}
  \union {Packet(0, <<Option(n, l)>>, 0) : n \in {13, 65535},
            l \in {12, 268, 269, 65460, 65535, 65536, 65541}}
  \union {Packet(t, <<>>, p) : t \in {0, 8, 9}, p \in {0, 1, 11, 12, 65000, 65500}}
  \union {Packet(1, <<Option(m, 3), Option(n, l), Option(n, 2)>>, 1) :
            m \in {11, 300}, n \in {11, 15, 24}, l \in {3, 300}}

\* One request among answers of the session loop.
OneRequest ==
  /\ sender'[w2].packet \in {NotParsed, Answer}
  /\ sends > 0 /\ sender[w1] = NoSend => sender'[w1].packet \in {NotParsed, Answer}

-----------------------------------------------------------------------------
MCInit ==
  /\ part \in CatalogParts \union HookParts \union {"fleet", "accounts", "wire"}
  /\ MCCatalogInit /\ WebhookInit /\ AccountInit /\ WireInit
  /\ IF part = "fleet" THEN MCFleetInit ELSE FleetInit
  /\ part # "accounts" => start.password = CHOOSE p \in Passwords : TRUE

MCNext ==
  /\ UNCHANGED part
  /\ \/ part \in CatalogParts /\ MCCatalogNext
     \/ part \notin CatalogParts /\ UNCHANGED mcCatalogVars
  /\ \/ part = "fleet" /\ FleetNext /\ FleetLimits
     \/ part # "fleet" /\ UNCHANGED fleetVars
  /\ \/ part \in HookParts /\ (part = "backoff" => edit' = edit) /\ WebhookNext /\ HookLimits
     \/ part \notin HookParts /\ UNCHANGED webhookVars
  /\ \/ part = "accounts" /\ AccountNext
     \/ part # "accounts" /\ UNCHANGED accountVars
  /\ \/ part = "wire" /\ WireNext /\ OneRequest
     \/ part # "wire" /\ UNCHANGED wireVars

MCSpec ==
  MCInit /\ [][MCNext]_<<part, mcCatalogVars, fleetVars, webhookVars, accountVars, wireVars>>
=============================================================================
