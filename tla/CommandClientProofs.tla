------------------------- MODULE CommandClientProofs -------------------------
(***************************************************************************)
(* The tables of pending requests, for any number of connections, requests *)
(* and message ids: they hold requests in flight only, whatever happens to *)
(* the ids.  Until the ids of a connection wrap, a waiting request can be  *)
(* reached; and if the device's own ids are others than the requests', a   *)
(* request returns its own answer.                                         *)
(***************************************************************************)
EXTENDS CommandClient, FiniteSetTheorems, TLAPS

ReqRecords ==
  [pc : Labels, client : Clients \union {"none"}, id : Ids, ctx : {"live", "ended"},
   result : Results]

ChanRecords == [buf : Requests \union {"none"}, closed : BOOLEAN]

\* The requests that may still take a message id.
Unnumbered == {r \in Requests : req[r].pc \in {"idle", "id"}}

\* A request that is not in a table yet has an open channel; a session loop has both
\* the channel and the answer in hand, or neither; an id is used up by each increment.
TableInv ==
  /\ PendingInFlight
  /\ \A r \in Requests :
       req[r].pc \in {"idle", "id", "wrap", "register"} => ~chan[r].closed
  /\ \A k \in Clients : loop[k] # Reading => loop[k].to \in Requests /\ loop[k].answers \in Requests
  /\ \A k \in Clients :
       nextID[k] + Cardinality(Unnumbered) <= MaxID + Cardinality(Requests)

-----------------------------------------------------------------------------
(* One request moves *)

\* The other requests stay as they are.
OnlyMoves(r) ==
  /\ req' \in [Requests -> ReqRecords]
  /\ \A q \in Requests : q # r => req'[q] = req[q]

LEMMA Moved ==
  ASSUME TypeOK, NEW r \in Requests, NEW label \in Labels, Goto(r, label)
  PROVE  /\ OnlyMoves(r)
         /\ req'[r].pc = label /\ req'[r].client = req[r].client
         /\ req'[r].id = req[r].id /\ req'[r].ctx = req[r].ctx
         /\ req'[r].result = req[r].result
<1>1. req \in [Requests -> ReqRecords]
  BY DEF TypeOK, ReqRecords
<1>2. /\ req' = [req EXCEPT ![r] = req'[r]]
      /\ req'[r] = [pc |-> label, client |-> req[r].client, id |-> req[r].id,
                  ctx |-> req[r].ctx, result |-> req[r].result]
  BY <1>1, Zenon DEF Goto, ReqRecords
<1> QED BY <1>1, <1>2 DEF OnlyMoves, ReqRecords

LEMMA Returned ==
  ASSUME TypeOK, NEW r \in Requests, NEW label \in Labels, NEW result \in Results,
         Return(r, label, result)
  PROVE  /\ OnlyMoves(r)
         /\ req'[r].pc = label /\ req'[r].client = req[r].client
         /\ req'[r].id = req[r].id /\ req'[r].ctx = req[r].ctx
         /\ req'[r].result = result
<1>1. req \in [Requests -> ReqRecords]
  BY DEF TypeOK, ReqRecords
<1>2. /\ req' = [req EXCEPT ![r] = req'[r]]
      /\ req'[r] = [pc |-> label, client |-> req[r].client, id |-> req[r].id,
                  ctx |-> req[r].ctx, result |-> result]
  BY <1>1, Zenon DEF Return, ReqRecords
<1> QED BY <1>1, <1>2 DEF OnlyMoves, ReqRecords

LEMMA Numbered ==
  ASSUME TypeOK, NEW r \in Requests, NEW label \in Labels, NEW i \in Ids,
         req' = [req EXCEPT ![r] = [@ EXCEPT !.pc = label, !.id = i]]
  PROVE  /\ OnlyMoves(r)
         /\ req'[r].pc = label /\ req'[r].client = req[r].client
         /\ req'[r].id = i /\ req'[r].ctx = req[r].ctx
         /\ req'[r].result = req[r].result
<1>1. req \in [Requests -> ReqRecords]
  BY DEF TypeOK, ReqRecords
<1>2. /\ req' = [req EXCEPT ![r] = req'[r]]
      /\ req'[r] = [pc |-> label, client |-> req[r].client, id |-> i,
                  ctx |-> req[r].ctx, result |-> req[r].result]
  BY <1>1, Zenon DEF ReqRecords
<1> QED BY <1>1, <1>2 DEF OnlyMoves, ReqRecords

LEMMA Attached ==
  ASSUME TypeOK, NEW r \in Requests, NEW k \in Clients,
         req' = [req EXCEPT ![r] = [@ EXCEPT !.pc = "id", !.client = k]]
  PROVE  /\ OnlyMoves(r)
         /\ req'[r].pc = "id" /\ req'[r].client = k
         /\ req'[r].id = req[r].id /\ req'[r].ctx = req[r].ctx
         /\ req'[r].result = req[r].result
<1>1. req \in [Requests -> ReqRecords]
  BY DEF TypeOK, ReqRecords
<1>2. /\ req' = [req EXCEPT ![r] = req'[r]]
      /\ req'[r] = [pc |-> "id", client |-> k, id |-> req[r].id,
                  ctx |-> req[r].ctx, result |-> req[r].result]
  BY <1>1, Zenon DEF ReqRecords
<1> QED BY <1>1, <1>2 DEF OnlyMoves, ReqRecords, Labels

LEMMA Expired ==
  ASSUME TypeOK, NEW r \in Requests, EndContext(r)
  PROVE  /\ OnlyMoves(r)
         /\ req'[r].pc = req[r].pc /\ req'[r].client = req[r].client
         /\ req'[r].id = req[r].id /\ req'[r].result = req[r].result
<1>1. req \in [Requests -> ReqRecords]
  BY DEF TypeOK, ReqRecords
<1>2. /\ req' = [req EXCEPT ![r] = req'[r]]
      /\ req'[r] = [pc |-> req[r].pc, client |-> req[r].client, id |-> req[r].id,
                  ctx |-> "ended", result |-> req[r].result]
  BY <1>1, Zenon DEF EndContext, ReqRecords
<1> QED BY <1>1, <1>2 DEF OnlyMoves, ReqRecords

\* Taking an id, or giving up before, takes a request from Unnumbered; nothing puts
\* one there.
LEMMA UnnumberedShrinks ==
  ASSUME IsFiniteSet(Requests), NEW r \in Requests,
         \A q \in Requests : q # r => req'[q] = req[q],
         req[r].pc \notin {"idle", "id"} => req'[r].pc \notin {"idle", "id"}
  PROVE  /\ Cardinality(Unnumbered) \in Nat
         /\ Cardinality(Unnumbered') \in Nat
         /\ Cardinality(Unnumbered') <= Cardinality(Unnumbered)
         /\ req[r].pc \in {"idle", "id"} /\ req'[r].pc \notin {"idle", "id"}
              => Cardinality(Unnumbered') + 1 = Cardinality(Unnumbered)
<1>1. IsFiniteSet(Unnumbered) /\ Unnumbered' \subseteq Unnumbered
  BY FS_Subset DEF Unnumbered
<1>2. /\ Cardinality(Unnumbered) \in Nat /\ Cardinality(Unnumbered') \in Nat
      /\ Cardinality(Unnumbered') <= Cardinality(Unnumbered)
  BY <1>1, FS_Subset, FS_CardinalityType
<1>3. ASSUME req[r].pc \in {"idle", "id"}, req'[r].pc \notin {"idle", "id"}
      PROVE  Cardinality(Unnumbered') + 1 = Cardinality(Unnumbered)
  <2>1. Unnumbered' = Unnumbered \ {r} /\ r \in Unnumbered
    BY <1>3 DEF Unnumbered
  <2>2. Cardinality(Unnumbered \ {r}) = Cardinality(Unnumbered) - 1
    BY <1>1, <2>1, FS_RemoveElement
  <2> QED BY <1>2, <2>1, <2>2
<1> QED BY <1>2, <1>3

-----------------------------------------------------------------------------
(* The tables, whatever happens to the ids *)

\* What TypeOK says of a request in the middle of its call.
LEMMA Underway ==
  ASSUME TypeOK, NEW r \in Requests, req[r].pc \notin {"idle", "done"}
  PROVE  req[r].client \in Clients /\ req[r].id \in Ids
BY DEF TypeOK

\* Steps of one request that touch neither the table nor the channels: a request in
\* the table stays in flight, one whose channel must be open was there before.
LEMMA RequestMoves ==
  ASSUME IsFiniteSet(Requests), TableInv, NEW r \in Requests, OnlyMoves(r),
         UNCHANGED <<conn, current, nextID, pending, chan, loop, aborts, panicked>>,
         sent' \subseteq Requests,
         req'[r].pc \notin {"idle", "done"} => req'[r].client \in Clients,
         req[r].pc \notin {"idle", "id"} => req'[r].pc \notin {"idle", "id"},
         req'[r].pc \in {"idle", "id", "wrap", "register"}
           => req[r].pc \in {"idle", "id", "wrap", "register"},
         req[r].pc \in {"send", "write", "wait", "remove"}
           => /\ req'[r].pc \in {"send", "write", "wait", "remove"}
              /\ req'[r].client = req[r].client /\ req'[r].id = req[r].id
  PROVE  TableInv'
<1>1. TypeOK'
  BY DEF TableInv, PendingInFlight, TypeOK, OnlyMoves, ReqRecords
<1>2. PendingInFlight'
  <2>1. ASSUME NEW k \in Clients, NEW i \in Ids, pending[k][i] # "none"
        PROVE  /\ req'[pending[k][i]].client = k
               /\ req'[pending[k][i]].id = i
               /\ req'[pending[k][i]].pc \in {"send", "write", "wait", "remove"}
               /\ ~chan[pending[k][i]].closed
    <3>1. pending[k][i] \in Requests
      BY <2>1 DEF TableInv, PendingInFlight, TypeOK
    <3> QED BY <2>1, <3>1 DEF TableInv, PendingInFlight, OnlyMoves
  <2> QED BY <1>1, <2>1 DEF PendingInFlight
<1>3. \A q \in Requests :
        req'[q].pc \in {"idle", "id", "wrap", "register"} => ~chan[q].closed
  BY DEF TableInv, OnlyMoves
<1>4. \A k \in Clients :
        nextID[k] + Cardinality(Unnumbered') <= MaxID + Cardinality(Requests)
  <2>1. /\ Cardinality(Unnumbered) \in Nat /\ Cardinality(Unnumbered') \in Nat
        /\ Cardinality(Unnumbered') <= Cardinality(Unnumbered)
        /\ Cardinality(Requests) \in Nat
    BY UnnumberedShrinks, FS_CardinalityType DEF OnlyMoves
  <2>2. \A k \in Clients : nextID[k] \in Nat
    BY <2>1, MaxIDAssumption DEF TableInv, PendingInFlight, TypeOK
  <2> QED BY <2>1, <2>2, MaxIDAssumption DEF TableInv
<1> QED BY <1>1, <1>2, <1>3, <1>4 DEF TableInv

\* Steps of a request that is in no table leave the tables as good as they were.
LEMMA TableKept ==
  ASSUME TableInv, TypeOK', NEW r \in Requests, OnlyMoves(r),
         req[r].pc \notin {"send", "write", "wait", "remove"}, UNCHANGED <<pending, chan>>
  PROVE  PendingInFlight'
<1>1. ASSUME NEW k \in Clients, NEW i \in Ids, pending[k][i] # "none"
      PROVE  /\ req'[pending[k][i]].client = k
             /\ req'[pending[k][i]].id = i
             /\ req'[pending[k][i]].pc \in {"send", "write", "wait", "remove"}
             /\ ~chan[pending[k][i]].closed
  <2>1. pending[k][i] \in Requests
    BY <1>1 DEF TableInv, PendingInFlight, TypeOK
  <2>2. pending[k][i] # r
    BY <1>1 DEF TableInv, PendingInFlight
  <2> QED BY <1>1, <2>1, <2>2 DEF TableInv, PendingInFlight, OnlyMoves
<1> QED BY <1>1 DEF PendingInFlight

LEMMA GetClientTable ==
  ASSUME IsFiniteSet(Requests), TableInv, NEW r \in Requests, GetClient(r)
  PROVE  TableInv'
<1>0. TypeOK
  BY DEF TableInv, PendingInFlight
<1>1. CASE Return(r, "done", "offline")
  <2>1. OnlyMoves(r) /\ req'[r].pc = "done"
    BY <1>0, <1>1, Returned DEF Labels, Results
  <2> QED BY <2>1, <1>0, RequestMoves DEF GetClient, At, TypeOK
<1>2. CASE current # "none" /\ req' = [req EXCEPT ![r] = [@ EXCEPT !.pc = "id", !.client = current]]
  <2>1. current \in Clients
    BY <1>0, <1>2 DEF TypeOK
  <2>2. OnlyMoves(r) /\ req'[r].pc = "id" /\ req'[r].client = current
    BY <1>0, <1>2, <2>1, Attached
  <2> QED BY <2>1, <2>2, <1>0, RequestMoves DEF GetClient, At, TypeOK
<1> QED BY <1>1, <1>2 DEF GetClient

LEMMA NextMessageIDTable ==
  ASSUME IsFiniteSet(Requests), TableInv, NEW r \in Requests, NextMessageID(r)
  PROVE  TableInv'
<1> DEFINE k == req[r].client
           next == nextID[k] + 1
<1>0. TypeOK /\ k \in Clients /\ req[r].pc = "id"
  BY Underway DEF TableInv, PendingInFlight, NextMessageID, At
<1>1. /\ OnlyMoves(r)
      /\ req'[r].pc \in {"wrap", "register"} /\ req'[r].client = k
  <2>1. CASE Goto(r, "wrap")
    BY <2>1, <1>0, Moved DEF Labels
  <2>2. CASE next <= MaxID /\ req' = [req EXCEPT ![r] = [@ EXCEPT !.pc = "register", !.id = next]]
    <3>1. nextID[k] \in Nat
      BY <1>0, FS_CardinalityType, MaxIDAssumption DEF TypeOK
    <3>2. next \in Ids
      BY <2>2, <3>1, MaxIDAssumption DEF Ids
    <3> HIDE DEF next
    <3> QED BY <2>2, <3>2, <1>0, Numbered DEF Labels
  <2> QED BY <2>1, <2>2 DEF NextMessageID
<1>2. /\ Cardinality(Unnumbered) \in Nat /\ Cardinality(Unnumbered') \in Nat
      /\ Cardinality(Unnumbered') + 1 = Cardinality(Unnumbered)
      /\ Cardinality(Requests) \in Nat
  BY <1>0, <1>1, UnnumberedShrinks, FS_CardinalityType DEF OnlyMoves
<1>3. \A c \in Clients : nextID[c] \in 1 .. (MaxID + Cardinality(Requests))
  BY <1>0 DEF TypeOK
<1>4. /\ nextID' = [nextID EXCEPT ![k] = next]
      /\ UNCHANGED <<conn, current, pending, chan, sent, loop, aborts, panicked>>
  BY DEF NextMessageID
<1>5. \A c \in Clients :
        /\ nextID'[c] \in 1 .. (MaxID + Cardinality(Requests))
        /\ nextID'[c] + Cardinality(Unnumbered') <= MaxID + Cardinality(Requests)
  <2>1. \A c \in Clients : nextID'[c] = IF c = k THEN nextID[c] + 1 ELSE nextID[c]
    BY <1>0, <1>4 DEF TypeOK
  <2>2. \A c \in Clients : nextID[c] + Cardinality(Unnumbered) <= MaxID + Cardinality(Requests)
    BY DEF TableInv
  <2> QED BY <1>2, <1>3, <2>1, <2>2, MaxIDAssumption
<1>6. nextID' \in [Clients -> 1 .. (MaxID + Cardinality(Requests))]
  BY <1>0, <1>4, <1>5 DEF TypeOK
<1>7. TypeOK'
  BY <1>0, <1>1, <1>4, <1>6 DEF TypeOK, OnlyMoves, ReqRecords
<1>8. PendingInFlight'
  BY <1>0, <1>1, <1>4, <1>7, TableKept
<1>9. \A q \in Requests :
        req'[q].pc \in {"idle", "id", "wrap", "register"} => ~chan[q].closed
  BY <1>0, <1>1 DEF TableInv, OnlyMoves
<1> QED BY <1>4, <1>5, <1>7, <1>8, <1>9 DEF TableInv

LEMMA WrapMessageIDTable ==
  ASSUME IsFiniteSet(Requests), TableInv, NEW r \in Requests, WrapMessageID(r)
  PROVE  TableInv'
<1> DEFINE k == req[r].client
<1>0. TypeOK /\ k \in Clients /\ req[r].pc = "wrap"
  BY Underway DEF TableInv, PendingInFlight, WrapMessageID, At
<1>1. OnlyMoves(r) /\ req'[r].pc = "register" /\ req'[r].client = k
  <2>1. 1 \in Ids /\ "register" \in Labels
    BY MaxIDAssumption DEF Ids, Labels
  <2> QED BY <1>0, <2>1, Numbered DEF WrapMessageID
<1>2. /\ Cardinality(Unnumbered') \in Nat /\ Cardinality(Unnumbered) \in Nat
      /\ Cardinality(Unnumbered') <= Cardinality(Unnumbered)
      /\ Cardinality(Requests) \in Nat
      /\ Cardinality(Unnumbered') <= Cardinality(Requests)
  <2>1. Cardinality(Unnumbered) <= Cardinality(Requests)
    BY FS_Subset DEF Unnumbered
  <2>2. Cardinality(Unnumbered') <= Cardinality(Unnumbered)
        /\ Cardinality(Unnumbered') \in Nat /\ Cardinality(Unnumbered) \in Nat
    BY <1>0, <1>1, UnnumberedShrinks DEF OnlyMoves
  <2>3. Cardinality(Requests) \in Nat
    BY FS_CardinalityType
  <2> QED BY <2>1, <2>2, <2>3
<1>3. \A c \in Clients : nextID[c] \in 1 .. (MaxID + Cardinality(Requests))
  BY <1>0 DEF TypeOK
<1>4. /\ nextID' = [nextID EXCEPT ![k] = 1]
      /\ UNCHANGED <<conn, current, pending, chan, sent, loop, aborts, panicked>>
  BY DEF WrapMessageID
<1>5. \A c \in Clients :
        /\ nextID'[c] \in 1 .. (MaxID + Cardinality(Requests))
        /\ nextID'[c] + Cardinality(Unnumbered') <= MaxID + Cardinality(Requests)
  <2>1. \A c \in Clients : nextID'[c] = IF c = k THEN 1 ELSE nextID[c]
    BY <1>0, <1>4 DEF TypeOK
  <2>2. \A c \in Clients : nextID[c] + Cardinality(Unnumbered) <= MaxID + Cardinality(Requests)
    BY DEF TableInv
  <2> QED BY <1>2, <1>3, <2>1, <2>2, MaxIDAssumption
<1>6. nextID' \in [Clients -> 1 .. (MaxID + Cardinality(Requests))]
  BY <1>0, <1>4, <1>5 DEF TypeOK
<1>7. TypeOK'
  BY <1>0, <1>1, <1>4, <1>6 DEF TypeOK, OnlyMoves, ReqRecords
<1>8. PendingInFlight'
  BY <1>0, <1>1, <1>4, <1>7, TableKept
<1>9. \A q \in Requests :
        req'[q].pc \in {"idle", "id", "wrap", "register"} => ~chan[q].closed
  BY <1>0, <1>1 DEF TableInv, OnlyMoves
<1> QED BY <1>4, <1>5, <1>7, <1>8, <1>9 DEF TableInv

\* A step of one request that leaves nextID alone and takes no id keeps the counters.
LEMMA CountersKept ==
  ASSUME IsFiniteSet(Requests), TableInv, NEW r \in Requests, OnlyMoves(r),
         UNCHANGED nextID,
         req[r].pc \notin {"idle", "id"} => req'[r].pc \notin {"idle", "id"}
  PROVE  \A k \in Clients :
           nextID'[k] + Cardinality(Unnumbered') <= MaxID + Cardinality(Requests)
<1>1. /\ Cardinality(Unnumbered) \in Nat /\ Cardinality(Unnumbered') \in Nat
      /\ Cardinality(Unnumbered') <= Cardinality(Unnumbered)
      /\ Cardinality(Requests) \in Nat
  BY UnnumberedShrinks, FS_CardinalityType DEF OnlyMoves
<1>2. \A k \in Clients : nextID[k] \in Nat
  BY <1>1, MaxIDAssumption DEF TableInv, PendingInFlight, TypeOK
<1> QED BY <1>1, <1>2, MaxIDAssumption DEF TableInv

LEMMA RegisterPendingTable ==
  ASSUME IsFiniteSet(Requests), TableInv, NEW r \in Requests, RegisterPending(r)
  PROVE  TableInv'
<1> DEFINE k == req[r].client
           i == req[r].id
<1>0. TypeOK /\ k \in Clients /\ i \in Ids /\ req[r].pc = "register"
  BY Underway DEF TableInv, PendingInFlight, RegisterPending, At
<1>1. /\ OnlyMoves(r) /\ req'[r].pc = "send"
      /\ req'[r].client = k /\ req'[r].id = i
  BY <1>0, Moved DEF RegisterPending, Labels
<1>2. /\ pending' = [pending EXCEPT ![k][i] = r]
      /\ UNCHANGED <<conn, current, nextID, chan, sent, loop, aborts, panicked>>
  BY DEF RegisterPending
<1>3. TypeOK'
  BY <1>0, <1>1, <1>2 DEF TypeOK, OnlyMoves, ReqRecords
<1>4. ~chan[r].closed
  BY <1>0 DEF TableInv
<1>5. PendingInFlight'
  <2>1. ASSUME NEW c \in Clients, NEW j \in Ids, pending'[c][j] # "none"
        PROVE  /\ req'[pending'[c][j]].client = c /\ req'[pending'[c][j]].id = j
               /\ req'[pending'[c][j]].pc \in {"send", "write", "wait", "remove"}
               /\ ~chan'[pending'[c][j]].closed
    <3>1. CASE c = k /\ j = i
      <4>1. pending'[c][j] = r
        BY <1>0, <1>2, <3>1 DEF TypeOK
      <4> QED BY <4>1, <3>1, <1>1, <1>2, <1>4
    <3>2. CASE ~(c = k /\ j = i)
      <4>1. pending'[c][j] = pending[c][j] /\ pending[c][j] \in Requests
        BY <1>0, <1>2, <2>1, <3>2 DEF TypeOK
      <4> QED BY <4>1, <2>1, <1>0, <1>1, <1>2 DEF TableInv, PendingInFlight, OnlyMoves
    <3> QED BY <3>1, <3>2
  <2> QED BY <1>3, <2>1 DEF PendingInFlight
<1>6. \A q \in Requests :
        req'[q].pc \in {"idle", "id", "wrap", "register"} => ~chan[q].closed
  BY <1>0, <1>1 DEF TableInv, OnlyMoves
<1> QED BY <1>0, <1>1, <1>2, <1>5, <1>6, CountersKept DEF TableInv

LEMMA RemovePendingTable ==
  ASSUME IsFiniteSet(Requests), TableInv, NEW r \in Requests, RemovePending(r)
  PROVE  TableInv'
<1> DEFINE k == req[r].client
           i == req[r].id
<1>0. TypeOK /\ k \in Clients /\ i \in Ids /\ req[r].pc = "remove"
  BY Underway DEF TableInv, PendingInFlight, RemovePending, At
<1>1. /\ OnlyMoves(r) /\ req'[r].pc = "done"
      /\ req'[r].client = k /\ req'[r].id = i
  BY <1>0, Moved DEF RemovePending, Labels
<1>2. /\ pending' = [pending EXCEPT ![k][i] = "none"]
      /\ UNCHANGED <<conn, current, nextID, chan, sent, loop, aborts, panicked>>
  BY DEF RemovePending
<1>3. TypeOK'
  BY <1>0, <1>1, <1>2 DEF TypeOK, OnlyMoves, ReqRecords
<1>5. PendingInFlight'
  <2>1. ASSUME NEW c \in Clients, NEW j \in Ids, pending'[c][j] # "none"
        PROVE  /\ req'[pending'[c][j]].client = c /\ req'[pending'[c][j]].id = j
               /\ req'[pending'[c][j]].pc \in {"send", "write", "wait", "remove"}
               /\ ~chan'[pending'[c][j]].closed
    <3>1. ~(c = k /\ j = i)
      BY <1>0, <1>2, <2>1 DEF TypeOK
    <3>2. pending'[c][j] = pending[c][j] /\ pending[c][j] \in Requests
      BY <1>0, <1>2, <2>1, <3>1 DEF TypeOK
    <3>3. pending[c][j] # r
      BY <2>1, <3>1, <3>2 DEF TableInv, PendingInFlight
    <3> QED BY <3>2, <3>3, <2>1, <1>0, <1>1, <1>2 DEF TableInv, PendingInFlight, OnlyMoves
  <2> QED BY <1>3, <2>1 DEF PendingInFlight
<1>6. \A q \in Requests :
        req'[q].pc \in {"idle", "id", "wrap", "register"} => ~chan[q].closed
  BY <1>0, <1>1 DEF TableInv, OnlyMoves
<1> QED BY <1>0, <1>1, <1>2, <1>5, <1>6, CountersKept DEF TableInv

\* Sending, waiting, and the end of a context.
LEMMA SendAwaitTable ==
  ASSUME IsFiniteSet(Requests), TableInv, NEW r \in Requests,
         SendMessage(r) \/ WriteFrame(r) \/ AwaitResponse(r) \/ EndContext(r)
  PROVE  TableInv'
<1>0. TypeOK
  BY DEF TableInv, PendingInFlight
<1>1. CASE SendMessage(r)
  <2>1. /\ OnlyMoves(r) /\ req'[r].pc \in {"write", "remove"}
        /\ req'[r].client = req[r].client /\ req'[r].id = req[r].id
    BY <1>0, <1>1, Moved, Returned DEF SendMessage, Labels, Results
  <2>2. req[r].pc = "send" /\ req[r].client \in Clients /\ sent' \subseteq Requests
    BY <1>0, <1>1, Underway DEF SendMessage, At, TypeOK
  <2> QED BY <1>1, <2>1, <2>2, RequestMoves DEF SendMessage
<1>4. CASE WriteFrame(r)
  <2>1. /\ OnlyMoves(r) /\ req'[r].pc \in {"wait", "remove"}
        /\ req'[r].client = req[r].client /\ req'[r].id = req[r].id
    BY <1>0, <1>4, Moved, Returned DEF WriteFrame, Labels, Results
  <2>2. req[r].pc = "write" /\ req[r].client \in Clients /\ sent' \subseteq Requests
    BY <1>0, <1>4, Underway DEF WriteFrame, At, TypeOK
  <2> QED BY <1>4, <2>1, <2>2, RequestMoves DEF WriteFrame
<1>2. CASE AwaitResponse(r)
  <2>1. chan[r].buf \in Requests \union {"none"}
    BY <1>0 DEF TypeOK
  <2>2. /\ OnlyMoves(r) /\ req'[r].pc = "remove"
        /\ req'[r].client = req[r].client /\ req'[r].id = req[r].id
    BY <1>0, <1>2, <2>1, Returned DEF AwaitResponse, Labels, Results
  <2>3. req[r].pc = "wait" /\ req[r].client \in Clients /\ sent' \subseteq Requests
    BY <1>0, <1>2, Underway DEF AwaitResponse, At, TypeOK
  <2> QED BY <1>2, <2>2, <2>3, RequestMoves DEF AwaitResponse
<1>3. CASE EndContext(r)
  <2>1. /\ OnlyMoves(r) /\ req'[r].pc = req[r].pc
        /\ req'[r].client = req[r].client /\ req'[r].id = req[r].id
    BY <1>0, <1>3, Expired
  <2>2. /\ req[r].pc \notin {"idle", "done"} => req[r].client \in Clients
        /\ sent' \subseteq Requests
    BY <1>0, <1>3 DEF EndContext, TypeOK
  <2> QED BY <1>3, <2>1, <2>2, RequestMoves DEF EndContext
<1> QED BY <1>1, <1>2, <1>3, <1>4

\* Steps that move no request: only the tables, the channels and the loops matter.
LEMMA ConnectionMoves ==
  ASSUME IsFiniteSet(Requests), TableInv, UNCHANGED <<nextID, req, sent>>, TypeOK',
         \A k \in Clients, i \in Ids : pending'[k][i] # "none" =>
            pending'[k][i] = pending[k][i] /\ ~chan'[pending[k][i]].closed,
         \A r \in Requests : chan'[r].closed =>
            chan[r].closed \/ \E k \in Clients, i \in Ids : pending[k][i] = r,
         \A k \in Clients : loop'[k] # Reading =>
            loop'[k].to \in Requests /\ loop'[k].answers \in Requests
  PROVE  TableInv'
<1>1. PendingInFlight'
  BY DEF TableInv, PendingInFlight
<1>2. ASSUME NEW r \in Requests, req'[r].pc \in {"idle", "id", "wrap", "register"}
      PROVE  ~chan'[r].closed
  <2>1. ~chan[r].closed
    BY <1>2 DEF TableInv
  <2>2. ASSUME NEW k \in Clients, NEW i \in Ids, pending[k][i] = r PROVE FALSE
    <3>1. r # "none"
      BY DistinctAssumption
    <3> QED BY <1>2, <2>2, <3>1 DEF TableInv, PendingInFlight
  <2> QED BY <2>1, <2>2
<1>3. \A k \in Clients :
        nextID'[k] + Cardinality(Unnumbered') <= MaxID + Cardinality(Requests)
  BY DEF TableInv, Unnumbered
<1> QED BY <1>1, <1>2, <1>3 DEF TableInv

LEMMA HandlePacketTable ==
  ASSUME IsFiniteSet(Requests), TableInv, NEW k \in Clients, NEW r \in Requests,
         NEW mid \in Ids, NEW error \in BOOLEAN, HandlePacket(k, r, mid, error)
  PROVE  TableInv'
<1> DEFINE match == IF pending[k][mid] # "none" THEN pending[k][mid]
                                               ELSE pending[k][req[r].id]
<1>0. TypeOK
  BY DEF TableInv, PendingInFlight
<1>1. UNCHANGED <<conn, current, nextID, pending, chan, req, sent, panicked>>
  BY DEF HandlePacket
<1>2. match \in Requests \union {"none"}
  BY <1>0 DEF TypeOK
<1>3. CASE match # "none" /\ loop' = [loop EXCEPT ![k] = [to |-> match, answers |-> r]]
           /\ UNCHANGED aborts
  <2>1. match \in Requests
    BY <1>2, <1>3
  <2> HIDE DEF match
  <2>2. \A c \in Clients :
          loop'[c] = IF c = k THEN [to |-> match, answers |-> r] ELSE loop[c]
    BY <1>0, <1>3 DEF TypeOK
  <2>3. \A c \in Clients : loop'[c] # Reading =>
          loop'[c].to \in Requests /\ loop'[c].answers \in Requests
    BY <2>1, <2>2 DEF TableInv
  <2>4. TypeOK'
    BY <1>0, <1>1, <1>3, <2>1 DEF TypeOK
  <2> QED BY <1>0, <1>1, <2>3, <2>4, ConnectionMoves DEF TableInv, PendingInFlight
<1>4. CASE match = "none" /\ aborts' = (IF error THEN aborts \union {r} ELSE aborts)
           /\ UNCHANGED loop
  <2>1. TypeOK'
    BY <1>0, <1>1, <1>4 DEF TypeOK
  <2> QED BY <1>0, <1>1, <1>4, <2>1, ConnectionMoves DEF TableInv, PendingInFlight
<1> QED BY <1>3, <1>4 DEF HandlePacket

LEMMA DeliverTable ==
  ASSUME IsFiniteSet(Requests), TableInv, NEW k \in Clients, Deliver(k)
  PROVE  TableInv'
<1> DEFINE r == loop[k].to
<1>0. TypeOK /\ r \in Requests /\ loop[k].answers \in Requests
  BY DEF TableInv, PendingInFlight, Deliver
<1>1. /\ loop' = [loop EXCEPT ![k] = Reading]
      /\ panicked' = chan[r].closed
      /\ UNCHANGED <<conn, current, nextID, pending, req, sent, aborts>>
  BY DEF Deliver
<1>2. /\ chan' \in [Requests -> ChanRecords]
      /\ \A q \in Requests : chan'[q].closed = chan[q].closed
  <2>1. chan \in [Requests -> ChanRecords]
    BY <1>0 DEF TypeOK, ChanRecords
  <2>2. CASE chan' = chan
    BY <2>1, <2>2
  <2>3. CASE chan' = [chan EXCEPT ![r].buf = loop[k].answers]
    <3>1. /\ chan' = [chan EXCEPT ![r] = chan'[r]]
          /\ chan'[r] = [buf |-> loop[k].answers, closed |-> chan[r].closed]
      BY <1>0, <2>1, <2>3, Zenon DEF ChanRecords
    <3> QED BY <1>0, <2>1, <3>1 DEF ChanRecords
  <2> QED BY <2>2, <2>3 DEF Deliver
<1>3. \A c \in Clients : loop'[c] = IF c = k THEN Reading ELSE loop[c]
  BY <1>0, <1>1 DEF TypeOK
<1>4. TypeOK'
  <2>1. loop' \in [Clients -> [to : Requests \union {"none"},
                               answers : Requests \union {"none"}]]
    BY <1>0, <1>1 DEF TypeOK, Reading
  <2>2. panicked' \in BOOLEAN
    BY <1>0, <1>1 DEF TypeOK
  <2> QED BY <1>0, <1>1, <1>2, <2>1, <2>2 DEF TypeOK, ChanRecords
<1>5. \A c \in Clients, i \in Ids : pending[c][i] # "none" =>
        pending[c][i] \in Requests /\ ~chan[pending[c][i]].closed
  BY <1>0 DEF TableInv, PendingInFlight, TypeOK
<1>6. \A c \in Clients : loop'[c] # Reading =>
        loop'[c].to \in Requests /\ loop'[c].answers \in Requests
  BY <1>3 DEF TableInv
<1> QED BY <1>1, <1>2, <1>4, <1>5, <1>6, ConnectionMoves

LEMMA UnregisterTable ==
  ASSUME IsFiniteSet(Requests), TableInv, NEW k \in Clients, Unregister(k)
  PROVE  TableInv'
<1>0. TypeOK
  BY DEF TableInv, PendingInFlight
<1>1. /\ conn' = [conn EXCEPT ![k] = "close"]
      /\ current' = "none"
      /\ UNCHANGED <<nextID, req, sent, loop, aborts, panicked>>
  BY DEF Unregister
<1>2. CASE UNCHANGED <<pending, chan>>
  <2>1. TypeOK'
    BY <1>0, <1>1, <1>2 DEF TypeOK
  <2> QED BY <1>1, <1>2, <2>1, ConnectionMoves DEF TableInv, PendingInFlight
<1>3. CASE /\ current # "none"
           /\ pending' = [pending EXCEPT ![current] = [i \in Ids |-> "none"]]
           /\ chan' = [r \in Requests |->
                         [chan[r] EXCEPT !.closed =
                            @ \/ \E i \in Ids : pending[current][i] = r]]
  <2>0. current \in Clients
    BY <1>0, <1>3 DEF TypeOK
  <2>1. chan \in [Requests -> ChanRecords]
    BY <1>0 DEF TypeOK, ChanRecords
  <2> DEFINE cut(r) == chan[r].closed \/ \E i \in Ids : pending[current][i] = r
  <2>2. ASSUME NEW r \in Requests
        PROVE  chan'[r] = [buf |-> chan[r].buf, closed |-> cut(r)]
    <3>1. chan'[r] = [chan[r] EXCEPT !.closed =
                        @ \/ \E i \in Ids : pending[current][i] = r]
      BY <1>3
    <3>2. chan[r] \in ChanRecords
      BY <2>1
    <3> QED BY <3>1, <3>2, Zenon DEF ChanRecords
  <2>3. chan' \in [Requests -> ChanRecords]
    <3>1. ASSUME NEW r \in Requests PROVE chan'[r] \in ChanRecords
      <4>1. chan[r].buf \in Requests \union {"none"} /\ cut(r) \in BOOLEAN
        BY <2>1 DEF ChanRecords
      <4>2. chan'[r] = [buf |-> chan[r].buf, closed |-> cut(r)]
        BY <2>2
      <4> HIDE DEF cut
      <4> QED BY <4>1, <4>2 DEF ChanRecords
    <3> QED BY <3>1, <1>3
  <2>4. \A c \in Clients, i \in Ids :
          pending'[c][i] = IF c = current THEN "none" ELSE pending[c][i]
    BY <1>0, <1>3, <2>0 DEF TypeOK
  <2>5. pending' \in [Clients -> [Ids -> Requests \union {"none"}]]
    BY <1>0, <1>3, <2>0 DEF TypeOK
  <2>6. TypeOK'
    BY <1>0, <1>1, <2>3, <2>5 DEF TypeOK, ChanRecords
  <2>7. ASSUME NEW r \in Requests
        PROVE  chan'[r].closed = cut(r)
    <3>1. chan'[r] = [buf |-> chan[r].buf, closed |-> cut(r)]
      BY <2>2
    <3> HIDE DEF cut
    <3> QED BY <3>1
  <2>8. ASSUME NEW c \in Clients, NEW i \in Ids, pending'[c][i] # "none"
        PROVE  pending'[c][i] = pending[c][i] /\ ~chan'[pending[c][i]].closed
    <3>1. c # current /\ pending'[c][i] = pending[c][i] /\ pending[c][i] \in Requests
      BY <2>4, <2>8, <1>0 DEF TypeOK
    <3>2. ~chan[pending[c][i]].closed /\ req[pending[c][i]].client = c
      BY <2>8, <3>1 DEF TableInv, PendingInFlight
    <3>3. ~\E j \in Ids : pending[current][j] = pending[c][i]
      BY <2>0, <2>8, <3>1, <3>2 DEF TableInv, PendingInFlight
    <3> QED BY <2>7, <3>1, <3>2, <3>3
  <2>9. \A r \in Requests : chan'[r].closed =>
          chan[r].closed \/ \E c \in Clients, i \in Ids : pending[c][i] = r
    BY <2>0, <2>7
  <2>10. \A c \in Clients : loop'[c] # Reading =>
           loop'[c].to \in Requests /\ loop'[c].answers \in Requests
    BY <1>1 DEF TableInv
  <2> QED BY <1>1, <2>6, <2>8, <2>9, <2>10, ConnectionMoves
<1> QED BY <1>2, <1>3 DEF Unregister

\* A connection opens, breaks, is closed, or gives up its update.
LEMMA LinkTable ==
  ASSUME IsFiniteSet(Requests), TableInv, NEW k \in Clients,
         RegisterClient(k) \/ EndSession(k) \/ CloseConnection(k) \/ DeviceAborts(k)
  PROVE  TableInv'
<1>1. TypeOK'
  <2>1. CASE RegisterClient(k)
    BY <2>1 DEF TableInv, PendingInFlight, TypeOK, RegisterClient
  <2>2. CASE EndSession(k)
    BY <2>2 DEF TableInv, PendingInFlight, TypeOK, EndSession
  <2>3. CASE CloseConnection(k)
    BY <2>3 DEF TableInv, PendingInFlight, TypeOK, CloseConnection
  <2>4. CASE DeviceAborts(k)
    BY <2>4 DEF TableInv, PendingInFlight, TypeOK, DeviceAborts
  <2> QED BY <2>1, <2>2, <2>3, <2>4
<1>2. UNCHANGED <<nextID, pending, chan, req, sent, loop>>
  BY DEF RegisterClient, EndSession, CloseConnection, DeviceAborts
<1> QED BY <1>1, <1>2, ConnectionMoves DEF TableInv, PendingInFlight

LEMMA TableInit ==
  ASSUME IsFiniteSet(Requests), Init
  PROVE  TableInv
<1>1. Cardinality(Requests) \in Nat
  BY FS_CardinalityType
<1>2. Starts \subseteq 1 .. MaxID /\ 0 \in Ids
  BY IdsAssumption, MaxIDAssumption DEF Ids
<1>3. nextID \in [Clients -> 1 .. (MaxID + Cardinality(Requests))]
      /\ \A k \in Clients : nextID[k] \in 1 .. MaxID
  <2>1. nextID \in [Clients -> 1 .. MaxID]
    BY <1>2 DEF Init
  <2>2. 1 .. MaxID \subseteq 1 .. (MaxID + Cardinality(Requests))
    BY <1>1, MaxIDAssumption
  <2> QED BY <2>1, <2>2
<1>4. TypeOK
  BY <1>2, <1>3 DEF Init, TypeOK, Labels, Results, Reading
<1>5. PendingInFlight
  BY <1>4 DEF Init, PendingInFlight
<1>6. \A k \in Clients :
        nextID[k] + Cardinality(Unnumbered) <= MaxID + Cardinality(Requests)
  <2>1. Cardinality(Unnumbered) \in Nat /\ Cardinality(Unnumbered) <= Cardinality(Requests)
    BY FS_Subset, FS_CardinalityType DEF Unnumbered
  <2> QED BY <1>1, <1>3, <2>1, MaxIDAssumption
<1> QED BY <1>5, <1>6 DEF Init, TableInv

LEMMA TableNext ==
  ASSUME IsFiniteSet(Requests), TableInv, [Next]_vars
  PROVE  TableInv'
<1>1. ASSUME NEW r \in Requests, GetClient(r) \/ RequestStep(r) \/ EndContext(r)
      PROVE  TableInv'
  BY <1>1, GetClientTable, NextMessageIDTable, WrapMessageIDTable, RegisterPendingTable,
     RemovePendingTable, SendAwaitTable DEF RequestStep, OwnStep
<1>2. ASSUME NEW k \in Clients, ConnectionStep(k) \/ Device(k)
      PROVE  TableInv'
  BY <1>2, HandlePacketTable, DeliverTable, UnregisterTable, LinkTable
     DEF ConnectionStep, Device
<1>3. CASE UNCHANGED vars
  <2>1. Unnumbered' = Unnumbered
    BY <1>3 DEF vars, Unnumbered
  <2> QED BY <1>3, <2>1 DEF vars, TableInv, PendingInFlight, TypeOK
<1> QED BY <1>1, <1>2, <1>3 DEF Next

\* Whatever happens to the message ids, also when they wrap and are taken twice: the
\* table holds requests in flight under their own ids, and only open channels, so
\* CloseWithError closes none twice.
THEOREM TablesHold ==
  ASSUME IsFiniteSet(Requests)
  PROVE  Spec => []PendingInFlight
<1>1. Init => TableInv
  BY TableInit
<1>2. TableInv /\ [Next]_vars => TableInv'
  BY TableNext
<1>3. TableInv => PendingInFlight
  BY DEF TableInv
<1> QED BY <1>1, <1>2, <1>3, PTL DEF Spec

-----------------------------------------------------------------------------
(* Answers, as long as the ids of a connection do not wrap *)

\* The ids that requests take when no counter passes MaxID.
IssuedIds ==
  {i \in Ids : \E s \in Starts : s < i /\ i <= s + Cardinality(Requests)}

\* The counters of the connections end below MaxID.
EarlyIds ==
  /\ IsFiniteSet(Requests)
  /\ \A s \in Starts : s + Cardinality(Requests) <= MaxID

\* The message ids that the device gives its separate responses are none of the ids the
\* server gives its requests.  Nothing in the code sees to it: the device counts its own
\* ids, and client.go:271 looks a packet up by its id before it looks at the token.
OwnIdsApart == SeparateIds \intersect IssuedIds = {}

HasId(r) == req[r].client \in Clients /\ req[r].pc \notin {"idle", "id", "wrap"}

\* The counter of k started at s and counted every id that was taken since.
CountedFrom(k, s) ==
  /\ s <= nextID[k]
  /\ nextID[k] + Cardinality(Unnumbered) <= s + Cardinality(Requests)
  /\ \A r \in Requests :
       HasId(r) /\ req[r].client = k => s < req[r].id /\ req[r].id <= nextID[k]

\* The ids in use are counted, and no two requests of a connection have the same.
IdsUnique ==
  /\ \A k \in Clients : \E s \in Starts : CountedFrom(k, s)
  /\ \A r \in Requests : req[r].pc # "wrap"
  /\ \A r \in Requests : req[r].pc = "idle" => req[r].client = "none"
  /\ \A r, q \in Requests :
       /\ HasId(r) /\ HasId(q)
       /\ req[r].client = req[q].client /\ req[r].id = req[q].id
       => r = q

\* A request whose frame was written is past the write, and one on its way is in the
\* table or has been cut off.
Reached ==
  /\ \A r \in sent : req[r].pc \in {"wait", "remove", "done"} /\ req[r].client \in Clients
  /\ \A r \in Requests :
       req[r].pc \in {"send", "write", "wait"} =>
         pending[req[r].client][req[r].id] = r \/ chan[r].closed

IdInv == TableInv /\ IdsUnique /\ Reached

\* A packet in a session loop's hands, in a buffer or in a result is the request's own.
AnswersOwn ==
  /\ \A k \in Clients : loop[k].to = loop[k].answers
  /\ \A r \in Requests : chan[r].buf \in {"none", r}
  /\ AnswerIsOwn

LEMMA IdInvTypes ==
  ASSUME EarlyIds, IdInv
  PROVE  /\ TypeOK
         /\ IsFiniteSet(Requests)
         /\ Cardinality(Unnumbered) \in Nat
         /\ Cardinality(Requests) \in Nat
         /\ \A s \in Starts : s \in Nat /\ s >= 1
         /\ \A k \in Clients : nextID[k] \in Nat
         /\ \A r \in Requests : req[r].id \in Nat
         /\ MaxID \in Nat
<1>1. IsFiniteSet(Requests) /\ TypeOK
  BY DEF EarlyIds, IdInv, TableInv, PendingInFlight
<1>2. Cardinality(Unnumbered) \in Nat /\ Cardinality(Requests) \in Nat
  BY <1>1, FS_Subset, FS_CardinalityType DEF Unnumbered
<1> QED BY <1>1, <1>2, IdsAssumption, MaxIDAssumption DEF TypeOK, Ids

\* Steps of one request that take no id keep the ids unique and counted.
LEMMA IdsKept ==
  ASSUME EarlyIds, IdInv, NEW r \in Requests, OnlyMoves(r), UNCHANGED nextID,
         req[r].pc \notin {"idle", "id"} => req'[r].pc \notin {"idle", "id"},
         req'[r].pc # "wrap", req'[r].pc = "idle" => req'[r].client = "none",
         HasId(r)' => /\ HasId(r)
                      /\ req'[r].client = req[r].client /\ req'[r].id = req[r].id
  PROVE  IdsUnique'
<1>1. \A q \in Requests :
        HasId(q)' => /\ HasId(q)
                     /\ req'[q].client = req[q].client /\ req'[q].id = req[q].id
  BY DEF OnlyMoves, HasId
<1>2. Cardinality(Unnumbered') \in Nat /\ Cardinality(Unnumbered') <= Cardinality(Unnumbered)
  BY UnnumberedShrinks DEF OnlyMoves, EarlyIds
<1>3. ASSUME NEW k \in Clients PROVE \E s \in Starts : CountedFrom(k, s)'
  <2>1. PICK s \in Starts : CountedFrom(k, s)
    BY DEF IdInv, IdsUnique
  <2>2. nextID[k] + Cardinality(Unnumbered') <= s + Cardinality(Requests)
    BY <2>1, <1>2, IdInvTypes DEF CountedFrom
  <2> QED BY <2>1, <2>2, <1>1 DEF CountedFrom
<1>4. /\ \A q \in Requests : req'[q].pc # "wrap"
      /\ \A q \in Requests : req'[q].pc = "idle" => req'[q].client = "none"
  BY DEF IdInv, IdsUnique, OnlyMoves
<1>5. \A q, p \in Requests :
        /\ HasId(q)' /\ HasId(p)'
        /\ req'[q].client = req'[p].client /\ req'[q].id = req'[p].id
        => q = p
  BY <1>1 DEF IdInv, IdsUnique
<1> QED BY <1>3, <1>4, <1>5 DEF IdsUnique

\* Taking the next id.
LEMMA IdTaken ==
  ASSUME EarlyIds, IdInv, NEW r \in Requests, NextMessageID(r)
  PROVE  /\ OnlyMoves(r)
         /\ req'[r].pc = "register" /\ req'[r].result = req[r].result
         /\ IdsUnique'
<1> DEFINE k == req[r].client
           next == nextID[k] + 1
<1>0. TypeOK /\ k \in Clients /\ req[r].pc = "id"
  BY IdInvTypes, Underway DEF NextMessageID, At
<1>1. PICK s \in Starts : CountedFrom(k, s)
  BY <1>0 DEF IdInv, IdsUnique
<1>2. /\ s <= nextID[k]
      /\ nextID[k] + Cardinality(Unnumbered) <= s + Cardinality(Requests)
      /\ s + Cardinality(Requests) <= MaxID
      /\ s \in Nat /\ nextID[k] \in Nat
  BY <1>0, <1>1, IdInvTypes DEF CountedFrom, EarlyIds
<1>3. Cardinality(Unnumbered) >= 1
  <2>1. r \in Unnumbered /\ IsFiniteSet(Unnumbered)
    BY <1>0, FS_Subset DEF Unnumbered, EarlyIds
  <2>2. Cardinality(Unnumbered) # 0
    BY <2>1, FS_EmptySet
  <2> QED BY <2>2, IdInvTypes
<1>4. next <= MaxID /\ next \in Nat
  BY <1>2, <1>3, IdInvTypes
<1>5. /\ OnlyMoves(r)
      /\ req'[r].pc = "register" /\ req'[r].client = k
      /\ req'[r].id = next /\ req'[r].result = req[r].result
  <2>1. ~(next > MaxID)
    BY <1>4, IdInvTypes
  <2>2. req' = [req EXCEPT ![r] = [@ EXCEPT !.pc = "register", !.id = next]]
    BY <2>1 DEF NextMessageID
  <2>3. next \in Ids /\ "register" \in Labels
    BY <1>4, IdInvTypes DEF Ids, Labels
  <2> HIDE DEF next
  <2> QED BY <1>0, <2>2, <2>3, Numbered
<1>6. /\ Cardinality(Unnumbered') \in Nat
      /\ Cardinality(Unnumbered') + 1 = Cardinality(Unnumbered)
  BY <1>0, <1>5, UnnumberedShrinks DEF OnlyMoves, EarlyIds
<1>7. \A c \in Clients : nextID'[c] = IF c = k THEN next ELSE nextID[c]
  BY <1>0 DEF NextMessageID, TypeOK
<1>8. \A q \in Requests : q # r => req'[q] = req[q]
  BY <1>5 DEF OnlyMoves
<1>9. \A q \in Requests : q # r /\ HasId(q)' => HasId(q)
  BY <1>8 DEF HasId
<1>10. ASSUME NEW c \in Clients PROVE \E t \in Starts : CountedFrom(c, t)'
  <2>1. CASE c = k
    <3>1. s <= nextID'[c]
      BY <2>1, <1>0, <1>2, <1>7
    <3>2. nextID'[c] + Cardinality(Unnumbered') <= s + Cardinality(Requests)
      BY <2>1, <1>0, <1>2, <1>6, <1>7, IdInvTypes
    <3>3. ASSUME NEW q \in Requests, HasId(q)', req'[q].client = c
          PROVE  s < req'[q].id /\ req'[q].id <= nextID'[c]
      <4>1. CASE q = r
        BY <4>1, <2>1, <1>0, <1>2, <1>5, <1>7
      <4>2. CASE q # r
        <5>1. s < req[q].id /\ req[q].id <= nextID[k]
          BY <4>2, <3>3, <2>1, <1>1, <1>8, <1>9 DEF CountedFrom
        <5> QED BY <5>1, <4>2, <2>1, <1>0, <1>2, <1>7, <1>8, IdInvTypes
      <4> QED BY <4>1, <4>2
    <3> QED BY <3>1, <3>2, <3>3 DEF CountedFrom
  <2>2. CASE c # k
    <3>1. PICK t \in Starts : CountedFrom(c, t)
      BY DEF IdInv, IdsUnique
    <3>2. nextID'[c] = nextID[c]
      BY <2>2, <1>7
    <3>3. nextID'[c] + Cardinality(Unnumbered') <= t + Cardinality(Requests)
      BY <3>1, <3>2, <1>6, IdInvTypes DEF CountedFrom
    <3>4. ASSUME NEW q \in Requests, HasId(q)', req'[q].client = c
          PROVE  t < req'[q].id /\ req'[q].id <= nextID'[c]
      <4>1. q # r
        BY <3>4, <2>2, <1>5
      <4> QED BY <4>1, <3>1, <3>2, <3>4, <1>8, <1>9 DEF CountedFrom
    <3> QED BY <3>1, <3>2, <3>3, <3>4 DEF CountedFrom
  <2> QED BY <2>1, <2>2
<1>11. /\ \A q \in Requests : req'[q].pc # "wrap"
       /\ \A q \in Requests : req'[q].pc = "idle" => req'[q].client = "none"
  BY <1>5, <1>8 DEF IdInv, IdsUnique
<1>12. ASSUME NEW q \in Requests, NEW p \in Requests, HasId(q)', HasId(p)',
              req'[q].client = req'[p].client, req'[q].id = req'[p].id
       PROVE  q = p
  <2>1. \A o \in Requests : o # r /\ HasId(o)' /\ req'[o].client = k => req'[o].id # next
    <3>1. ASSUME NEW o \in Requests, o # r, HasId(o)', req'[o].client = k
          PROVE  req'[o].id # next
      <4>1. req[o].id <= nextID[k] /\ req'[o].id = req[o].id
        BY <3>1, <1>1, <1>8, <1>9 DEF CountedFrom
      <4> QED BY <4>1, <1>2, IdInvTypes
    <3> QED BY <3>1
  <2>2. CASE q # r /\ p # r
    BY <2>2, <1>8, <1>9, <1>12 DEF IdInv, IdsUnique
  <2> QED BY <2>1, <2>2, <1>5, <1>12
<1> QED BY <1>5, <1>10, <1>11, <1>12 DEF IdsUnique

\* Steps of one request that leave tables and channels alone.
LEMMA ReachedKept ==
  ASSUME IdInv, NEW r \in Requests, OnlyMoves(r), UNCHANGED <<pending, chan>>,
         sent' \subseteq sent \union {r},
         r \in sent' =>
           req'[r].pc \in {"wait", "remove", "done"} /\ req'[r].client \in Clients,
         req'[r].pc \in {"send", "write", "wait"} =>
           /\ req[r].pc \in {"send", "write", "wait"}
           /\ req'[r].client = req[r].client /\ req'[r].id = req[r].id
  PROVE  Reached'
<1>1. sent \subseteq Requests
  BY DEF IdInv, TableInv, PendingInFlight, TypeOK
<1>2. \A q \in Requests : q # r => req'[q] = req[q]
  BY DEF OnlyMoves
<1>3. \A q \in sent' : req'[q].pc \in {"wait", "remove", "done"} /\ req'[q].client \in Clients
  BY <1>1, <1>2 DEF IdInv, Reached
<1>5. \A q \in Requests :
        req'[q].pc \in {"send", "write", "wait"} =>
          pending[req'[q].client][req'[q].id] = q \/ chan[q].closed
  BY <1>2 DEF IdInv, Reached
<1> QED BY <1>3, <1>5 DEF Reached

\* Entering the table overwrites nobody.
LEMMA RegisterPendingReached ==
  ASSUME EarlyIds, IdInv, NEW r \in Requests, RegisterPending(r)
  PROVE  IdsUnique' /\ Reached'
<1> DEFINE k == req[r].client
           i == req[r].id
<1>0. TypeOK /\ k \in Clients /\ i \in Ids /\ req[r].pc = "register"
  BY IdInvTypes, Underway DEF RegisterPending, At
<1>1. /\ OnlyMoves(r) /\ req'[r].pc = "send" /\ req'[r].result = req[r].result
      /\ req'[r].client = k /\ req'[r].id = i
  BY <1>0, Moved DEF RegisterPending, Labels
<1>2. /\ pending' = [pending EXCEPT ![k][i] = r]
      /\ UNCHANGED <<nextID, chan, sent, loop>>
  BY DEF RegisterPending
<1>3. IdsUnique'
  BY <1>0, <1>1, <1>2, IdsKept DEF HasId
<1>4. \A q \in Requests : q # r => req'[q] = req[q]
  BY <1>1 DEF OnlyMoves
<1>5. ASSUME NEW q \in Requests, req'[q].pc \in {"send", "write", "wait"}
      PROVE  pending'[req'[q].client][req'[q].id] = q \/ chan'[q].closed
  <2>1. CASE q = r
    BY <2>1, <1>0, <1>1, <1>2 DEF TypeOK
  <2>2. CASE q # r
    <3>1. /\ req'[q] = req[q]
          /\ pending[req[q].client][req[q].id] = q \/ chan[q].closed
      BY <2>2, <1>4, <1>5 DEF IdInv, Reached
    <3>2. req[q].client \in Clients /\ req[q].id \in Ids
      BY <3>1, <1>0, <1>5, Underway
    <3>3. HasId(q) /\ HasId(r)
      BY <3>1, <3>2, <1>0, <1>5 DEF HasId
    <3>4. ~(req[q].client = k /\ req[q].id = i)
      BY <2>2, <3>3 DEF IdInv, IdsUnique
    <3>5. pending'[req[q].client][req[q].id] = pending[req[q].client][req[q].id]
      BY <3>2, <3>4, <1>0, <1>2 DEF TypeOK
    <3> QED BY <3>1, <3>5, <1>2
  <2> QED BY <2>1, <2>2
<1>6. r \notin sent
  BY <1>0 DEF IdInv, Reached
<1>7. \A q \in sent' : req'[q].pc \in {"wait", "remove", "done"} /\ req'[q].client \in Clients
  BY <1>0, <1>2, <1>4, <1>6 DEF IdInv, Reached, TypeOK
<1> QED BY <1>3, <1>5, <1>7 DEF Reached

\* Leaving the table removes nobody else.
LEMMA RemovePendingReached ==
  ASSUME EarlyIds, IdInv, NEW r \in Requests, RemovePending(r)
  PROVE  IdsUnique' /\ Reached'
<1> DEFINE k == req[r].client
           i == req[r].id
<1>0. TypeOK /\ k \in Clients /\ i \in Ids /\ req[r].pc = "remove"
  BY IdInvTypes, Underway DEF RemovePending, At
<1>1. /\ OnlyMoves(r) /\ req'[r].pc = "done" /\ req'[r].result = req[r].result
      /\ req'[r].client = k /\ req'[r].id = i
  BY <1>0, Moved DEF RemovePending, Labels
<1>2. /\ pending' = [pending EXCEPT ![k][i] = "none"]
      /\ UNCHANGED <<nextID, chan, sent, loop>>
  BY DEF RemovePending
<1>3. IdsUnique'
  BY <1>0, <1>1, <1>2, IdsKept DEF HasId
<1>4. \A q \in Requests : q # r => req'[q] = req[q]
  BY <1>1 DEF OnlyMoves
<1>5. ASSUME NEW q \in Requests, req'[q].pc \in {"send", "write", "wait"}
      PROVE  pending'[req'[q].client][req'[q].id] = q \/ chan'[q].closed
  <2>1. q # r
    BY <1>1, <1>5
  <2>2. /\ req'[q] = req[q]
        /\ pending[req[q].client][req[q].id] = q \/ chan[q].closed
    BY <2>1, <1>4, <1>5 DEF IdInv, Reached
  <2>3. req[q].client \in Clients /\ req[q].id \in Ids
    BY <2>2, <1>0, <1>5, Underway
  <2>4. HasId(q) /\ HasId(r)
    BY <2>2, <2>3, <1>0, <1>5 DEF HasId
  <2>5. ~(req[q].client = k /\ req[q].id = i)
    BY <2>1, <2>4 DEF IdInv, IdsUnique
  <2>6. pending'[req[q].client][req[q].id] = pending[req[q].client][req[q].id]
    BY <2>3, <2>5, <1>0, <1>2 DEF TypeOK
  <2> QED BY <2>2, <2>6, <1>2
<1>7. \A q \in sent' : req'[q].pc \in {"wait", "remove", "done"} /\ req'[q].client \in Clients
  BY <1>0, <1>1, <1>2, <1>4 DEF IdInv, Reached, TypeOK
<1> QED BY <1>3, <1>5, <1>7 DEF Reached

LEMMA RequestReached ==
  ASSUME EarlyIds, IdInv, NEW r \in Requests,
         GetClient(r) \/ RequestStep(r) \/ EndContext(r)
  PROVE  IdsUnique' /\ Reached'
<1>0. TypeOK
  BY IdInvTypes
<1>1. CASE GetClient(r)
  <2>1. /\ OnlyMoves(r)
        /\ \/ req'[r].pc = "done" /\ req'[r].client = req[r].client
           \/ req'[r].pc = "id"
    <3>1. CASE Return(r, "done", "offline")
      BY <3>1, <1>0, Returned DEF Labels, Results
    <3>2. CASE current # "none"
               /\ req' = [req EXCEPT ![r] = [@ EXCEPT !.pc = "id", !.client = current]]
      BY <3>2, <1>0, Attached DEF TypeOK
    <3> QED BY <1>1, <3>1, <3>2 DEF GetClient
  <2>2. req[r].pc = "idle" /\ req[r].client = "none"
        /\ UNCHANGED <<nextID, pending, chan, sent>>
    BY <1>1 DEF GetClient, At, IdInv, IdsUnique
  <2>3. IdsUnique'
    BY <2>1, <2>2, IdsKept, DistinctAssumption DEF HasId
  <2>4. r \notin sent
    BY <2>2 DEF IdInv, Reached
  <2> QED BY <2>1, <2>2, <2>3, <2>4, ReachedKept
<1>2. CASE NextMessageID(r)
  <2>1. /\ OnlyMoves(r) /\ IdsUnique' /\ req'[r].pc = "register"
    BY <1>2, IdTaken
  <2>2. req[r].pc = "id" /\ UNCHANGED <<pending, chan, sent>>
    BY <1>2 DEF NextMessageID, At
  <2>3. r \notin sent
    BY <2>2 DEF IdInv, Reached
  <2> QED BY <2>1, <2>2, <2>3, ReachedKept
<1>3. CASE WrapMessageID(r)
  BY <1>3 DEF WrapMessageID, At, IdInv, IdsUnique
<1>4. CASE SendMessage(r)
  <2>1. /\ OnlyMoves(r) /\ req'[r].pc \in {"write", "remove"}
        /\ req'[r].client = req[r].client /\ req'[r].id = req[r].id
    BY <1>0, <1>4, Moved, Returned DEF SendMessage, Labels, Results
  <2>2. /\ req[r].pc = "send" /\ req[r].client \in Clients
        /\ UNCHANGED <<nextID, pending, chan, sent>>
    BY <1>0, <1>4, Underway DEF SendMessage, At
  <2>3. IdsUnique'
    BY <2>1, <2>2, IdsKept DEF HasId
  <2>4. r \notin sent
    BY <2>2 DEF IdInv, Reached
  <2> QED BY <2>1, <2>2, <2>3, <2>4, ReachedKept
<1>7. CASE WriteFrame(r)
  <2>1. /\ OnlyMoves(r) /\ req'[r].pc \in {"wait", "remove"}
        /\ req'[r].client = req[r].client /\ req'[r].id = req[r].id
    BY <1>0, <1>7, Moved, Returned DEF WriteFrame, Labels, Results
  <2>2. /\ req[r].pc = "write" /\ req[r].client \in Clients
        /\ sent' \subseteq sent \union {r} /\ UNCHANGED <<nextID, pending, chan>>
    BY <1>0, <1>7, Underway DEF WriteFrame, At
  <2>3. IdsUnique'
    BY <2>1, <2>2, IdsKept DEF HasId
  <2> QED BY <2>1, <2>2, <2>3, ReachedKept
<1>5. CASE AwaitResponse(r)
  <2>1. chan[r].buf \in Requests \union {"none"}
    BY <1>0 DEF TypeOK
  <2>2. /\ OnlyMoves(r) /\ req'[r].pc = "remove"
        /\ req'[r].client = req[r].client /\ req'[r].id = req[r].id
    BY <1>0, <1>5, <2>1, Returned DEF AwaitResponse, Labels, Results
  <2>3. /\ req[r].pc = "wait" /\ req[r].client \in Clients
        /\ UNCHANGED <<nextID, pending, chan, sent>>
    BY <1>0, <1>5, Underway DEF AwaitResponse, At
  <2>4. IdsUnique'
    BY <2>2, <2>3, IdsKept DEF HasId
  <2> QED BY <2>2, <2>3, <2>4, ReachedKept
<1>6. CASE EndContext(r)
  <2>1. /\ OnlyMoves(r) /\ req'[r].pc = req[r].pc /\ req'[r].client = req[r].client
        /\ req'[r].id = req[r].id
        /\ UNCHANGED <<nextID, pending, chan, sent>>
    BY <1>0, <1>6, Expired DEF EndContext
  <2>2. /\ req[r].pc # "wrap"
        /\ req[r].pc = "idle" => req[r].client = "none"
        /\ r \in sent => req[r].pc \in {"wait", "remove", "done"} /\ req[r].client \in Clients
    BY DEF IdInv, IdsUnique, Reached
  <2>3. IdsUnique'
    BY <2>1, <2>2, IdsKept DEF HasId
  <2> QED BY <2>1, <2>2, <2>3, ReachedKept
<1> QED BY <1>1, <1>2, <1>3, <1>4, <1>5, <1>6, <1>7, RegisterPendingReached,
           RemovePendingReached
        DEF RequestStep, OwnStep

\* A request's result is what its own channel held, or an error.
LEMMA RequestOwn ==
  ASSUME EarlyIds, IdInv, AnswersOwn, NEW r \in Requests,
         GetClient(r) \/ RequestStep(r) \/ EndContext(r)
  PROVE  AnswersOwn'
<1>0. TypeOK
  BY IdInvTypes
<1>1. /\ OnlyMoves(r)
      /\ req'[r].result \in Requests => req'[r].result \in {req[r].result, chan[r].buf}
  <2>1. CASE GetClient(r)
    <3>1. CASE Return(r, "done", "offline")
      BY <3>1, <1>0, Returned, DistinctAssumption DEF Labels, Results
    <3>2. CASE current # "none"
               /\ req' = [req EXCEPT ![r] = [@ EXCEPT !.pc = "id", !.client = current]]
      BY <3>2, <1>0, Attached DEF TypeOK
    <3> QED BY <2>1, <3>1, <3>2 DEF GetClient
  <2>2. CASE NextMessageID(r)
    BY <2>2, IdTaken
  <2>3. CASE WrapMessageID(r)
    BY <2>3 DEF WrapMessageID, At, IdInv, IdsUnique
  <2>4. CASE RegisterPending(r)
    BY <1>0, <2>4, Moved DEF RegisterPending, Labels
  <2>5. CASE SendMessage(r)
    BY <1>0, <2>5, Moved, Returned, DistinctAssumption DEF SendMessage, Labels, Results
  <2>6. CASE WriteFrame(r)
    BY <1>0, <2>6, Moved, Returned, DistinctAssumption DEF WriteFrame, Labels, Results
  <2>7. CASE AwaitResponse(r)
    <3>1. chan[r].buf \in Requests \union {"none"}
      BY <1>0 DEF TypeOK
    <3> QED BY <1>0, <2>7, <3>1, Returned, DistinctAssumption
            DEF AwaitResponse, Labels, Results
  <2>8. CASE RemovePending(r)
    BY <1>0, <2>8, Moved DEF RemovePending, Labels
  <2>9. CASE EndContext(r)
    BY <1>0, <2>9, Expired
  <2> QED BY <2>1, <2>2, <2>3, <2>4, <2>5, <2>6, <2>7, <2>8, <2>9 DEF RequestStep, OwnStep
<1>2. UNCHANGED <<chan, loop>>
  BY DEF GetClient, EndContext, RequestStep, OwnStep, NextMessageID, WrapMessageID,
     RegisterPending, SendMessage, WriteFrame, AwaitResponse, RemovePending
<1>3. \A q \in Requests : req[q].result \in Requests => req[q].result = q
  BY DEF AnswersOwn, AnswerIsOwn
<1>4. req'[r].result \in Requests => req'[r].result = r
  BY <1>1, <1>3, DistinctAssumption DEF AnswersOwn
<1>5. AnswerIsOwn'
  BY <1>1, <1>3, <1>4 DEF AnswerIsOwn, OnlyMoves
<1> QED BY <1>2, <1>5 DEF AnswersOwn

-----------------------------------------------------------------------------
(* The device's packets *)

\* An answer matches the request it was meant for, or none.
LEMMA MatchIsOwn ==
  ASSUME EarlyIds, OwnIdsApart, IdInv, NEW k \in Clients, NEW r \in sent,
         req[r].client = k, NEW mid \in {req[r].id} \union SeparateIds, pending[k][mid] # "none"
  PROVE  mid = req[r].id /\ pending[k][mid] = r
<1> DEFINE q == pending[k][mid]
<1>0. TypeOK /\ r \in Requests /\ mid \in Ids
  <2>1. TypeOK /\ SeparateIds \subseteq Ids
    BY IdInvTypes, IdsAssumption DEF Ids
  <2>2. r \in Requests
    BY <2>1 DEF TypeOK
  <2>3. req[r].id \in Ids
    BY <2>1, <2>2 DEF TypeOK
  <2> QED BY <2>1, <2>2, <2>3
<1>1. /\ q \in Requests
      /\ req[q].client = k /\ req[q].id = mid
      /\ req[q].pc \in {"send", "write", "wait", "remove"}
  BY <1>0 DEF IdInv, TableInv, PendingInFlight, TypeOK
<1>2. HasId(q) /\ HasId(r)
  BY <1>1 DEF HasId, IdInv, Reached
<1>3. mid \in IssuedIds
  <2>1. PICK s \in Starts : CountedFrom(k, s)
    BY DEF IdInv, IdsUnique
  <2>2. s < mid /\ mid <= nextID[k]
    BY <2>1, <1>1, <1>2 DEF CountedFrom
  <2>3. nextID[k] + Cardinality(Unnumbered) <= s + Cardinality(Requests)
    BY <2>1 DEF CountedFrom
  <2>4. mid <= s + Cardinality(Requests)
    BY <1>0, <2>2, <2>3, IdInvTypes DEF Ids
  <2> QED BY <1>0, <2>2, <2>4 DEF IssuedIds
<1>4. mid = req[r].id
  BY <1>3 DEF OwnIdsApart
<1> QED BY <1>0, <1>1, <1>2, <1>4 DEF IdInv, IdsUnique

\* Steps that move no request keep the ids.
LEMMA IdsUnmoved ==
  ASSUME IdInv, UNCHANGED <<nextID, req>>
  PROVE  IdsUnique'
<1>1. Unnumbered' = Unnumbered
  BY DEF Unnumbered
<1>2. \A k \in Clients : \E s \in Starts : CountedFrom(k, s)'
  BY <1>1 DEF IdInv, IdsUnique, CountedFrom, HasId
<1> QED BY <1>2 DEF IdInv, IdsUnique, HasId

LEMMA ReachedUnmoved ==
  ASSUME IdInv, UNCHANGED <<req, sent>>,
         \A r \in Requests :
           req[r].pc \in {"send", "write", "wait"} =>
             pending'[req[r].client][req[r].id] = r \/ chan'[r].closed
  PROVE  Reached'
BY DEF IdInv, Reached

\* What Reached says of the requests, one by one.
LEMMA ReachedRead ==
  ASSUME IdInv
  PROVE  \A r \in Requests :
           req[r].pc \in {"send", "write", "wait"} =>
             pending[req[r].client][req[r].id] = r \/ chan[r].closed
BY DEF IdInv, Reached

\* What Deliver and Unregister do to the channels.
LEMMA Delivered ==
  ASSUME TypeOK, TableInv, NEW k \in Clients, Deliver(k)
  PROVE  \A q \in Requests :
           /\ chan'[q].closed = chan[q].closed
           /\ \/ chan'[q].buf = chan[q].buf
              \/ q = loop[k].to /\ chan'[q].buf = loop[k].answers
<1> DEFINE r == loop[k].to
<1>1. chan \in [Requests -> ChanRecords] /\ r \in Requests
  BY DEF TypeOK, ChanRecords, Deliver, TableInv
<1>2. CASE chan' = chan
  BY <1>2
<1>3. CASE chan' = [chan EXCEPT ![r].buf = loop[k].answers]
  <2>1. /\ chan' = [chan EXCEPT ![r] = chan'[r]]
        /\ chan'[r] = [buf |-> loop[k].answers, closed |-> chan[r].closed]
    BY <1>1, <1>3, Zenon DEF ChanRecords
  <2> QED BY <1>1, <2>1
<1> QED BY <1>2, <1>3 DEF Deliver

LEMMA CutOff ==
  ASSUME TypeOK, NEW k \in Clients, Unregister(k)
  PROVE  /\ \A r \in Requests : chan'[r].buf = chan[r].buf
         /\ \A r \in Requests : chan[r].closed => chan'[r].closed
         /\ \A r \in Requests, c \in Clients, i \in Ids :
              pending[c][i] = r => pending'[c][i] = r \/ chan'[r].closed
<1>1. CASE UNCHANGED <<pending, chan>>
  BY <1>1
<1>2. CASE /\ current # "none"
           /\ pending' = [pending EXCEPT ![current] = [i \in Ids |-> "none"]]
           /\ chan' = [r \in Requests |->
                         [chan[r] EXCEPT !.closed =
                            @ \/ \E i \in Ids : pending[current][i] = r]]
  <2> DEFINE cut(r) == chan[r].closed \/ \E i \in Ids : pending[current][i] = r
  <2>1. ASSUME NEW r \in Requests
        PROVE  chan'[r].buf = chan[r].buf /\ chan'[r].closed = cut(r)
    <3>1. chan[r] \in ChanRecords
      BY DEF TypeOK, ChanRecords
    <3>2. chan'[r] = [chan[r] EXCEPT !.closed =
                        @ \/ \E i \in Ids : pending[current][i] = r]
      BY <1>2
    <3>3. chan'[r] = [buf |-> chan[r].buf, closed |-> cut(r)]
      BY <3>1, <3>2, Zenon DEF ChanRecords
    <3> HIDE DEF cut
    <3> QED BY <3>3
  <2>2. \A c \in Clients : c # current => pending'[c] = pending[c]
    BY <1>2 DEF TypeOK
  <2>3. ASSUME NEW r \in Requests, NEW c \in Clients, NEW i \in Ids, pending[c][i] = r
        PROVE  pending'[c][i] = r \/ chan'[r].closed
    <3>1. CASE c = current
      <4>1. cut(r)
        BY <2>3, <3>1
      <4> HIDE DEF cut
      <4> QED BY <2>1, <4>1
    <3>2. CASE c # current
      BY <2>2, <2>3, <3>2
    <3> QED BY <3>1, <3>2
  <2>4. ASSUME NEW r \in Requests, chan[r].closed PROVE chan'[r].closed
    <3>1. cut(r)
      BY <2>4
    <3> HIDE DEF cut
    <3> QED BY <2>1, <3>1
  <2> HIDE DEF cut
  <2> QED BY <2>1, <2>3, <2>4
<1> QED BY <1>1, <1>2 DEF Unregister

LEMMA ConnectionReached ==
  ASSUME EarlyIds, IdInv, NEW k \in Clients, ConnectionStep(k) \/ Device(k)
  PROVE  IdsUnique' /\ Reached'
<1>0. TypeOK /\ TableInv
  BY IdInvTypes DEF IdInv
<1>1. /\ IdsUnique'
      /\ UNCHANGED <<req, sent>>
  BY IdsUnmoved DEF ConnectionStep, Device, Deliver, Unregister, CloseConnection,
     RegisterClient, HandlePacket, DeviceAborts, EndSession
<1>2. CASE UNCHANGED <<pending, chan>>
  BY <1>1, <1>2, ReachedRead, ReachedUnmoved
<1>3. CASE Deliver(k)
  <2>1. pending' = pending
    BY <1>3 DEF Deliver
  <2> QED BY <1>0, <1>1, <1>3, <2>1, Delivered, ReachedRead, ReachedUnmoved
<1>4. CASE Unregister(k)
  <2>1. ASSUME NEW r \in Requests, req[r].pc \in {"send", "write", "wait"}
        PROVE  pending'[req[r].client][req[r].id] = r \/ chan'[r].closed
    <3>1. req[r].client \in Clients /\ req[r].id \in Ids
      BY <1>0, <2>1, Underway
    <3> QED BY <1>0, <1>4, <2>1, <3>1, CutOff, ReachedRead
  <2> QED BY <1>1, <2>1, ReachedUnmoved
<1> QED BY <1>2, <1>3, <1>4 DEF ConnectionStep, Device, CloseConnection, RegisterClient,
        HandlePacket, DeviceAborts, EndSession

LEMMA ConnectionOwn ==
  ASSUME EarlyIds, OwnIdsApart, IdInv, AnswersOwn, NEW k \in Clients,
         ConnectionStep(k) \/ Device(k)
  PROVE  AnswersOwn'
<1>0. TypeOK /\ TableInv
  BY IdInvTypes DEF IdInv
<1>1. AnswerIsOwn'
  BY DEF AnswersOwn, AnswerIsOwn, ConnectionStep, Device, Deliver, Unregister,
     CloseConnection, RegisterClient, HandlePacket, DeviceAborts, EndSession
<1>2. ASSUME NEW r \in Requests, NEW mid \in Ids, NEW error \in BOOLEAN,
             HandlePacket(k, r, mid, error)
      PROVE  AnswersOwn'
  <2> DEFINE match == IF pending[k][mid] # "none" THEN pending[k][mid]
                                                 ELSE pending[k][req[r].id]
  <2>1. /\ r \in sent /\ req[r].client = k /\ mid \in {req[r].id} \union SeparateIds
        /\ chan' = chan
    BY <1>2 DEF HandlePacket
  <2>2. match # "none" => match = r
    BY <2>1, MatchIsOwn
  <2> HIDE DEF match
  <2>3. \A c \in Clients : loop'[c].to = loop'[c].answers
    <3>1. \/ loop' = loop
          \/ match # "none" /\ loop' = [loop EXCEPT ![k] = [to |-> match, answers |-> r]]
      BY <1>2 DEF HandlePacket, match
    <3>2. loop' = loop \/ loop' = [loop EXCEPT ![k] = [to |-> r, answers |-> r]]
      BY <2>2, <3>1
    <3>3. loop \in [Clients -> [to : Requests \union {"none"},
                                answers : Requests \union {"none"}]]
          /\ \A c \in Clients : loop[c].to = loop[c].answers
      BY <1>0 DEF TypeOK, AnswersOwn
    <3> QED BY <3>2, <3>3
  <2> QED BY <1>1, <2>1, <2>3 DEF AnswersOwn
<1>3. CASE Deliver(k)
  <2>1. loop' = [loop EXCEPT ![k] = Reading]
    BY <1>3 DEF Deliver
  <2>2. \A c \in Clients : loop'[c].to = loop'[c].answers
    BY <1>0, <2>1 DEF TypeOK, AnswersOwn, Reading
  <2>3. \A q \in Requests : chan'[q].buf \in {"none", q}
    BY <1>0, <1>3, Delivered DEF AnswersOwn
  <2> QED BY <1>1, <2>2, <2>3 DEF AnswersOwn
<1>4. CASE Unregister(k)
  BY <1>0, <1>1, <1>4, CutOff DEF AnswersOwn, Unregister
<1>5. CASE RegisterClient(k) \/ EndSession(k) \/ CloseConnection(k) \/ DeviceAborts(k)
  BY <1>1, <1>5 DEF AnswersOwn, RegisterClient, EndSession, CloseConnection, DeviceAborts
<1> QED BY <1>2, <1>3, <1>4, <1>5 DEF ConnectionStep, Device

LEMMA IdInit ==
  ASSUME EarlyIds, Init
  PROVE  IdInv
<1>1. TableInv
  BY TableInit DEF EarlyIds
<1>2. ASSUME NEW k \in Clients PROVE \E s \in Starts : CountedFrom(k, s)
  <2>0. nextID[k] \in Starts
    BY DEF Init
  <2>1. nextID[k] \in Nat
    <3>1. \A s \in 1 .. MaxID : s \in Nat
      BY MaxIDAssumption
    <3> QED BY <2>0, <3>1, IdsAssumption
  <2>2. Cardinality(Unnumbered) \in Nat /\ Cardinality(Requests) \in Nat
        /\ Cardinality(Unnumbered) <= Cardinality(Requests)
    BY FS_Subset, FS_CardinalityType DEF Unnumbered, EarlyIds
  <2>3. \A r \in Requests : ~HasId(r)
    BY DEF Init, HasId
  <2>4. CountedFrom(k, nextID[k])
    BY <2>1, <2>2, <2>3 DEF CountedFrom
  <2> QED BY <2>0, <2>4
<1>3. IdsUnique
  BY <1>2 DEF Init, IdsUnique, HasId
<1>4. Reached
  BY DEF Init, Reached
<1> QED BY <1>1, <1>3, <1>4 DEF IdInv

LEMMA IdNext ==
  ASSUME EarlyIds, IdInv, [Next]_vars
  PROVE  IdInv'
<1>1. TableInv'
  BY TableNext DEF EarlyIds, IdInv
<1>2. CASE Next
  <2>1. IdsUnique' /\ Reached'
    BY <1>2, RequestReached, ConnectionReached DEF Next
  <2> QED BY <1>1, <2>1 DEF IdInv
<1>3. CASE UNCHANGED vars
  <2>1. IdsUnique'
    BY <1>3, IdsUnmoved DEF vars
  <2>2. Reached'
    BY <1>3 DEF vars, IdInv, Reached
  <2> QED BY <1>1, <2>1, <2>2 DEF IdInv
<1> QED BY <1>2, <1>3

LEMMA OwnInit ==
  ASSUME Init
  PROVE  AnswersOwn
BY DistinctAssumption DEF Init, AnswersOwn, AnswerIsOwn, Reading

LEMMA OwnNext ==
  ASSUME EarlyIds, OwnIdsApart, IdInv, AnswersOwn, [Next]_vars
  PROVE  AnswersOwn'
<1>1. CASE Next
  BY <1>1, RequestOwn, ConnectionOwn DEF Next
<1>2. CASE UNCHANGED vars
  BY <1>2 DEF vars, AnswersOwn, AnswerIsOwn
<1> QED BY <1>1, <1>2

\* Until the counter of a connection wraps, and if the device's own message ids keep
\* apart from the ids of the requests on that connection, a request returns only the
\* device's answer to that very request.  Both conditions are the environment's: the
\* code checks neither.
THEOREM OwnAnswers ==
  ASSUME EarlyIds, OwnIdsApart
  PROVE  Spec => []AnswerIsOwn
<1>1. Init => IdInv /\ AnswersOwn
  BY IdInit, OwnInit
<1>2. IdInv /\ AnswersOwn /\ [Next]_vars => (IdInv /\ AnswersOwn)'
  BY IdNext, OwnNext
<1>3. AnswersOwn => AnswerIsOwn
  BY DEF AnswersOwn
<1> QED BY <1>1, <1>2, <1>3, PTL DEF Spec

\* Until the counter of a connection wraps, whatever ids the device uses itself, a
\* waiting request is in the table, or has an answer or the closing of its channel
\* before it.
THEOREM WaitersReached ==
  ASSUME EarlyIds
  PROVE  Spec => []WaiterReachable
<1>1. Init => IdInv
  BY IdInit
<1>2. IdInv /\ [Next]_vars => IdInv'
  BY IdNext
<1>3. IdInv => WaiterReachable
  BY DEF IdInv, Reached, WaiterReachable, At
<1> QED BY <1>1, <1>2, <1>3, PTL DEF Spec
=============================================================================
