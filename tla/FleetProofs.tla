----------------------------- MODULE FleetProofs -----------------------------
(***************************************************************************)
(* Products, links and claims for any number of calls of any users: what   *)
(* the checks of each call are worth as long as the calls that would undo  *)
(* them do not overlap.                                                    *)
(***************************************************************************)
EXTENDS Fleet, FiniteSetTheorems, TLAPS

ProductRecords == [slug : Slugs, owner : Owners]
LinkRecords == [product : ProductIds, dev : FleetDevices, desired : {0, 1}]
Named == ProductIds \union Slugs
UnitRecords == [owner : Owners \union {"nobody"}, product : Named \union {"none"}]
CodeRecords ==
  [state : {"none", "expired", "used"}, owner : Owners \union {"none"}]
    \union [state : {"open"}, owner : Owners]

CallLabels ==
  {"idle", "create", "update", "unlinkAll", "link", "saveUnit", "desire", "unlink",
   "loadUnit", "record", "useCode"}
CallOps ==
  {"none", "create", "update", "delete", "add", "desire", "remove", "claim", "provision",
   "touch", "describe"}

\* The operations that save a copy of a device's record with their own change.
RecordOps == {"claim", "provision", "touch", "describe"}

CallRecords ==
  [pc : CallLabels, op : CallOps, prod : Named \union {"none"},
   owner : Owners \union {"nobody", "none"}, slug : Slugs \union {"none"},
   dev : FleetDevices \union {"none"}, link : LinkIds \union {"none"},
   code : Codes \union {"none"}, copy : UnitRecords \union {NoUnit, "none"},
   todo : SUBSET LinkIds]

\* What a call holds at each of its steps.
Shape(w) ==
  \/ w = NoCall
  \/ /\ w.pc \in {"create", "update"} /\ w.op = w.pc
     /\ w.prod \in ProductIds /\ w.slug \in Slugs /\ w.owner \in Owners
  \/ /\ w.pc = "unlinkAll" /\ w.op = "delete" /\ w.prod \in ProductIds
  \/ /\ w.pc \in {"link", "saveUnit"} /\ w.op = "add"
     /\ w.prod \in ProductIds /\ w.dev \in FleetDevices /\ w.copy \in UnitRecords
  \/ /\ w.pc = "saveUnit" /\ w.op = "remove"
     /\ w.prod = "none" /\ w.dev \in FleetDevices /\ w.copy \in UnitRecords
  \/ /\ \/ w.pc = "desire" /\ w.op = "desire"
        \/ w.pc = "unlink" /\ w.op = "remove"
     /\ w.prod \in ProductIds /\ w.dev \in FleetDevices /\ w.link \in LinkIds
  \/ /\ w.pc = "loadUnit" /\ w.op = "remove"
     /\ w.prod \in ProductIds /\ w.dev \in FleetDevices
  \/ /\ w.pc = "record"
     /\ \/ w.op \in RecordOps \ {"provision"} /\ w.code = "none"
        \/ w.op = "provision" /\ w.code \in Codes
     /\ w.prod = "none" \/ (w.op = "describe" /\ w.prod \in Named)
     /\ w.owner \in Owners \union {"nobody"} /\ w.dev \in FleetDevices
     /\ w.copy \in UnitRecords \union {NoUnit}
  \/ /\ w.pc = "useCode" /\ w.op = "provision" /\ w.code \in Codes

\* The types of all records, and the overlaps of the calls at work.
FleetRecords ==
  /\ FleetTypeOK
  /\ code \in [Codes -> CodeRecords]
  /\ claimed \in [Codes -> SUBSET FleetDevices]
  /\ deleted \subseteq ProductIds
  /\ failed \in Nat
  /\ caller \in [Callers -> CallRecords]
  /\ \A c \in Callers : Shape(caller[c])
  /\ \A c \in Callers :
       caller[c].pc \in {"link", "desire"} => unit[caller[c].dev] # NoUnit
  /\ \A a, b \in Callers :
       a # b /\ caller[a].op # "none" /\ caller[b].op # "none"
         => {caller[a].op, caller[b].op} \in met
  /\ \A c \in Callers :
       caller[c].op = "describe" => <<caller[c].dev, caller[c].prod>> \in described

-----------------------------------------------------------------------------
(* Records and calls *)

\* An absent record is none of the records.
LEMMA AbsentRecords ==
  /\ NoProduct \notin ProductRecords
  /\ NoLink \notin LinkRecords
  /\ NoUnit \notin UnitRecords
  /\ NoCall \in CallRecords /\ NoCall.pc = "idle" /\ NoCall.op = "none"
  /\ NoCall.todo = {} /\ NoCall.code = "none" /\ NoCall.link = "none"
<1>1. NoProduct \notin ProductRecords
  BY FleetAssumption DEF NoProduct, ProductRecords
<1>2. NoLink \notin LinkRecords
  BY FleetAssumption DEF NoLink, LinkRecords
<1>3. NoUnit \notin UnitRecords
  BY FleetAssumption DEF NoUnit, UnitRecords
<1>4. NoCall \in CallRecords
  <2>1. "idle" \in CallLabels /\ "none" \in CallOps /\ {} \in SUBSET LinkIds
    BY DEF CallLabels, CallOps
  <2>2. "none" \in UnitRecords \union {NoUnit, "none"}
    OBVIOUS
  <2> QED BY <2>1, <2>2, Zenon DEF NoCall, CallRecords
<1> QED BY <1>1, <1>2, <1>3, <1>4 DEF NoCall

\* Only c's call goes on.
OnlyCall(c) ==
  /\ caller' \in [Callers -> CallRecords]
  /\ \A b \in Callers : b # c => caller'[b] = caller[b]
  /\ Shape(caller'[c])

\* Nothing but c's call changes, and it has ended.
Ended(c) == OnlyCall(c) /\ caller'[c] = NoCall

LEMMA GoesIdle ==
  ASSUME FleetRecords, NEW c \in Callers, Goes(c, "idle")
  PROVE  Ended(c)
BY AbsentRecords DEF Goes, Ended, OnlyCall, FleetRecords, Shape

LEMMA GoesOn ==
  ASSUME FleetRecords, NEW c \in Callers, NEW label \in CallLabels, label # "idle", Goes(c, label)
  PROVE  /\ caller' \in [Callers -> CallRecords]
         /\ \A b \in Callers : b # c => caller'[b] = caller[b]
         /\ caller'[c].pc = label /\ caller'[c].op = caller[c].op
         /\ caller'[c].prod = caller[c].prod /\ caller'[c].dev = caller[c].dev
         /\ caller'[c].copy = caller[c].copy /\ caller'[c].code = caller[c].code
<1>1. caller \in [Callers -> CallRecords] /\ caller[c] \in CallRecords
  BY DEF FleetRecords
<1>2. caller' = [caller EXCEPT ![c] = [@ EXCEPT !.pc = label]]
  BY DEF Goes
<1>3. /\ caller' = [caller EXCEPT ![c] = caller'[c]]
      /\ caller'[c] = [caller[c] EXCEPT !.pc = label]
  BY <1>1, <1>2
<1>4. caller'[c] = [pc |-> label, op |-> caller[c].op, prod |-> caller[c].prod,
                    owner |-> caller[c].owner, slug |-> caller[c].slug,
                    dev |-> caller[c].dev, link |-> caller[c].link,
                    code |-> caller[c].code, copy |-> caller[c].copy,
                    todo |-> caller[c].todo]
  BY <1>1, <1>3 DEF CallRecords
<1>5. caller'[c] \in CallRecords
  BY <1>1, <1>4 DEF CallRecords
<1> QED BY <1>1, <1>3, <1>4, <1>5

\* A call begins: it was idle, and changes nothing yet.
Began(c, r) ==
  /\ caller[c] = NoCall
  /\ OnlyCall(c) /\ caller'[c] = r
  /\ UNCHANGED <<product, link, unit, code, failed, claimed, deleted>>

LEMMA CallBegins ==
  ASSUME FleetRecords, NEW c \in Callers, NEW r \in CallRecords, Shape(r), Calls(c, r)
  PROVE  Began(c, r)
<1>1. caller \in [Callers -> CallRecords] /\ Shape(caller[c])
  BY DEF FleetRecords
<1>2. caller[c] = NoCall
  BY <1>1 DEF Calls, CallerAt, Shape
<1>3. caller' = [caller EXCEPT ![c] = r]
  BY DEF Calls
<1> QED BY <1>1, <1>2, <1>3 DEF Calls, Began, OnlyCall

\* Calls that are at work together are recorded, and nothing is forgotten.
LEMMA MetRecorded ==
  ASSUME met' = met \union Met'
  PROVE  /\ met \subseteq met'
         /\ \A a, b \in Callers :
              a # b /\ caller'[a].op # "none" /\ caller'[b].op # "none"
                => {caller'[a].op, caller'[b].op} \in met'
BY DEF Met

\* Descriptions at work are recorded, and nothing is forgotten.
LEMMA DescriptionsRecorded ==
  ASSUME described' = described \union Described'
  PROVE  /\ described \subseteq described'
         /\ \A c \in Callers :
              caller'[c].op = "describe" => <<caller'[c].dev, caller'[c].prod>> \in described'
BY DEF Described

\* What remains to be shown of a step of one call.
LEMMA RecordsStep ==
  ASSUME FleetRecords, NEW c \in Callers, OnlyCall(c), met' = met \union Met',
         described' = described \union Described',
         product' \in [ProductIds -> ProductRecords \union {NoProduct}],
         link' \in [LinkIds -> LinkRecords \union {NoLink}],
         unit' \in [FleetDevices -> UnitRecords \union {NoUnit}],
         code' \in [Codes -> CodeRecords], claimed' \in [Codes -> SUBSET FleetDevices],
         deleted' \subseteq ProductIds, failed' \in Nat,
         \A d \in FleetDevices : unit[d] # NoUnit => unit'[d] # NoUnit,
         \A l \in LinkIds : link'[l] # NoLink =>
            link'[l] = link[l] \/ unit[link'[l].dev] # NoUnit,
         caller'[c].pc \in {"link", "desire"} =>
            caller'[c].dev \in FleetDevices /\ unit[caller'[c].dev] # NoUnit
  PROVE  FleetRecords'
<1>1. \A l \in LinkIds : link'[l] # NoLink => unit'[link'[l].dev] # NoUnit
  <2>1. \A l \in LinkIds : link'[l] # NoLink => link'[l].dev \in FleetDevices
    BY DEF LinkRecords
  <2> QED BY <2>1 DEF FleetRecords, FleetTypeOK
<1>2. FleetTypeOK'
  BY <1>1 DEF FleetTypeOK, ProductRecords, LinkRecords, UnitRecords, Named
<1>3. \A b \in Callers : Shape(caller'[b])
  BY DEF OnlyCall, FleetRecords
<1>4. ASSUME NEW b \in Callers, caller'[b].pc \in {"link", "desire"}
      PROVE  unit'[caller'[b].dev] # NoUnit
  <2>1. CASE b = c
    BY <2>1, <1>4
  <2>2. CASE b # c
    <3>1. caller'[b] = caller[b] /\ Shape(caller[b]) /\ unit[caller[b].dev] # NoUnit
      BY <2>2, <1>4 DEF OnlyCall, FleetRecords
    <3>2. caller[b].dev \in FleetDevices
      BY <3>1, <1>4, AbsentRecords DEF Shape
    <3> QED BY <3>1, <3>2
  <2> QED BY <2>1, <2>2
<1> QED BY <1>2, <1>3, <1>4, MetRecorded, DescriptionsRecorded DEF FleetRecords, OnlyCall

-----------------------------------------------------------------------------
(* How each call begins *)

LEMMA CreateBegins ==
  ASSUME FleetRecords, NEW c \in Callers, NEW owner \in Owners, NEW p \in ProductIds,
         NEW slug \in Slugs, CreateProduct(c, owner, p, slug)
  PROVE  /\ Began(c, caller'[c])
         /\ caller'[c].pc = "create" /\ caller'[c].op = "create"
         /\ BySlug(caller'[c].slug) \subseteq {caller'[c].prod}
<1> DEFINE r == [NoCall EXCEPT !.pc = "create", !.op = "create", !.owner = owner,
                               !.prod = p, !.slug = slug]
<1>1. /\ r \in CallRecords /\ r.pc = "create" /\ r.op = "create" /\ r.prod = p
      /\ r.slug = slug /\ r.owner = owner
  BY DEF NoCall, CallRecords, CallLabels, CallOps, Named
<1>2. Shape(r)
  BY <1>1 DEF Shape
<1>3. Calls(c, r) /\ BySlug(slug) = {}
  BY DEF CreateProduct
<1> HIDE DEF r
<1>4. Began(c, r)
  BY <1>1, <1>2, <1>3, CallBegins
<1> QED BY <1>1, <1>3, <1>4 DEF Began

LEMMA UpdateBegins ==
  ASSUME FleetRecords, NEW c \in Callers, NEW owner \in Owners,
         NEW name \in ProductIds \union Slugs,
         NEW slug \in Slugs, UpdateProduct(c, owner, name, slug)
  PROVE  /\ Began(c, caller'[c])
         /\ caller'[c].pc = "update" /\ caller'[c].op = "update"
         /\ BySlug(caller'[c].slug) \subseteq {caller'[c].prod}
<1>1. PICK p \in GetProduct(owner, name) :
        /\ BySlug(slug) \subseteq {p}
        /\ Calls(c, [NoCall EXCEPT !.pc = "update", !.op = "update", !.prod = p,
                                   !.slug = slug, !.owner = owner])
  BY DEF UpdateProduct
<1> DEFINE r == [NoCall EXCEPT !.pc = "update", !.op = "update", !.prod = p,
                               !.slug = slug, !.owner = owner]
<1>2. p \in ProductIds
  BY DEF GetProduct, BySlug
<1>3. /\ r \in CallRecords /\ r.pc = "update" /\ r.op = "update" /\ r.prod = p
      /\ r.slug = slug /\ r.owner = owner
  BY <1>2 DEF NoCall, CallRecords, CallLabels, CallOps, Named
<1>4. Shape(r)
  BY <1>2, <1>3 DEF Shape
<1> HIDE DEF r
<1>5. Began(c, r)
  BY <1>1, <1>3, <1>4, CallBegins DEF r
<1> QED BY <1>1, <1>3, <1>5 DEF Began

LEMMA DeleteBegins ==
  ASSUME FleetRecords, NEW c \in Callers, NEW owner \in Owners,
         NEW name \in ProductIds \union Slugs, DeleteProduct(c, owner, name)
  PROVE  /\ Began(c, caller'[c])
         /\ caller'[c].pc = "unlinkAll" /\ caller'[c].op = "delete"
         /\ caller'[c].todo = Links(caller'[c].prod)
<1>1. PICK p \in GetProduct(owner, name) :
        Calls(c, [NoCall EXCEPT !.pc = "unlinkAll", !.op = "delete", !.prod = p,
                                !.todo = Links(p)])
  BY DEF DeleteProduct
<1> DEFINE r == [NoCall EXCEPT !.pc = "unlinkAll", !.op = "delete", !.prod = p,
                               !.todo = Links(p)]
<1>2. p \in ProductIds /\ Links(p) \in SUBSET LinkIds
  BY DEF GetProduct, BySlug, Links
<1>3. /\ r \in CallRecords /\ r.pc = "unlinkAll" /\ r.op = "delete" /\ r.prod = p
      /\ r.todo = Links(p)
  BY <1>2 DEF NoCall, CallRecords, CallLabels, CallOps, Named
<1>4. Shape(r)
  BY <1>2, <1>3 DEF Shape
<1> HIDE DEF r
<1>5. Began(c, r)
  BY <1>1, <1>3, <1>4, CallBegins DEF r
<1> QED BY <1>3, <1>5 DEF Began

LEMMA AddBegins ==
  ASSUME FleetRecords, NEW c \in Callers, NEW owner \in Owners,
         NEW name \in ProductIds \union Slugs, NEW d \in FleetDevices,
         AddDevice(c, owner, name, d)
  PROVE  /\ Began(c, caller'[c])
         /\ caller'[c].pc = "link" /\ caller'[c].op = "add"
         /\ Exists(caller'[c].prod) /\ unit[caller'[c].dev] # NoUnit
         /\ \A l \in Links(caller'[c].prod) : link[l].dev # caller'[c].dev
<1>1. PICK p \in GetProduct(owner, name) :
        /\ unit[d].owner = owner
        /\ \A l \in Links(p) : link[l].dev # d
        /\ Calls(c, [NoCall EXCEPT !.pc = "link", !.op = "add", !.prod = p, !.dev = d,
                                   !.copy = unit[d]])
  BY DEF AddDevice
<1> DEFINE r == [NoCall EXCEPT !.pc = "link", !.op = "add", !.prod = p, !.dev = d,
                               !.copy = unit[d]]
<1>2. p \in ProductIds /\ Exists(p)
  BY DEF GetProduct, BySlug
<1>3. unit[d] \in UnitRecords /\ unit[d] # NoUnit
  <2>1. unit[d] \in UnitRecords \union {NoUnit}
    BY DEF FleetRecords, FleetTypeOK, UnitRecords, Named
  <2>2. unit[d] # NoUnit
    BY <1>1, FleetAssumption DEF NoUnit
  <2> QED BY <2>1, <2>2
<1>4. /\ r \in CallRecords /\ r.pc = "link" /\ r.op = "add" /\ r.prod = p
      /\ r.dev = d /\ r.copy = unit[d]
  BY <1>2, <1>3 DEF NoCall, CallRecords, CallLabels, CallOps, Named
<1>5. Shape(r)
  BY <1>2, <1>3, <1>4 DEF Shape
<1> HIDE DEF r
<1>6. Began(c, r)
  BY <1>1, <1>4, <1>5, CallBegins DEF r
<1> QED BY <1>1, <1>2, <1>3, <1>4, <1>6 DEF Began

\* UpdateDevice and RemoveDevice hold a link of the product.
LEMMA LinkBegins ==
  ASSUME FleetRecords, NEW c \in Callers, NEW owner \in Owners,
         NEW name \in ProductIds \union Slugs,
         \/ \E l \in LinkIds : UpdateDevice(c, owner, name, l)
         \/ \E d \in FleetDevices : RemoveDevice(c, owner, name, d)
  PROVE  /\ Began(c, caller'[c])
         /\ \/ /\ caller'[c].pc = "desire" /\ caller'[c].op = "desire"
               /\ Exists(caller'[c].prod) /\ unit[caller'[c].dev] # NoUnit
            \/ caller'[c].pc = "unlink" /\ caller'[c].op = "remove"
         /\ caller'[c].link \in Links(caller'[c].prod)
         /\ link[caller'[c].link].dev = caller'[c].dev
<1> DEFINE r(pc, op, p, d, l) ==
             [NoCall EXCEPT !.pc = pc, !.op = op, !.prod = p, !.dev = d, !.link = l]
<1>1. PICK pc, op : \E p \in GetProduct(owner, name), l \in LinkIds :
        /\ \/ pc = "desire" /\ op = "desire"
           \/ pc = "unlink" /\ op = "remove"
        /\ l \in Links(p)
        /\ Calls(c, r(pc, op, p, link[l].dev, l))
  <2>1. ASSUME NEW l \in LinkIds, UpdateDevice(c, owner, name, l)
        PROVE  \E p \in GetProduct(owner, name) :
                 l \in Links(p) /\ Calls(c, r("desire", "desire", p, link[l].dev, l))
    <3>1. PICK p \in GetProduct(owner, name) :
            /\ l \in Links(p)
            /\ Calls(c, [NoCall EXCEPT !.pc = "desire", !.op = "desire", !.prod = p,
                                       !.link = l, !.dev = link[l].dev])
      BY <2>1 DEF UpdateDevice
    <3>2. [NoCall EXCEPT !.pc = "desire", !.op = "desire", !.prod = p, !.link = l,
                         !.dev = link[l].dev]
            = r("desire", "desire", p, link[l].dev, l)
      BY DEF NoCall
    <3> QED BY <3>1, <3>2
  <2>2. ASSUME NEW d \in FleetDevices, RemoveDevice(c, owner, name, d)
        PROVE  \E p \in GetProduct(owner, name), l \in LinkIds :
                 l \in Links(p) /\ Calls(c, r("unlink", "remove", p, link[l].dev, l))
    BY <2>2 DEF RemoveDevice
  <2> QED BY <2>1, <2>2
<1>2. PICK p \in GetProduct(owner, name), l \in LinkIds :
        /\ \/ pc = "desire" /\ op = "desire"
           \/ pc = "unlink" /\ op = "remove"
        /\ l \in Links(p)
        /\ Calls(c, r(pc, op, p, link[l].dev, l))
  BY <1>1
<1>3. p \in ProductIds /\ Exists(p)
  BY DEF GetProduct, BySlug
<1>4. link[l] \in LinkRecords /\ unit[link[l].dev] # NoUnit
  BY <1>2 DEF Links, FleetRecords, FleetTypeOK, LinkRecords
<1>5. link[l].dev \in FleetDevices
  BY <1>4 DEF LinkRecords
<1> DEFINE w == r(pc, op, p, link[l].dev, l)
<1>6. /\ w \in CallRecords /\ w.pc = pc /\ w.op = op /\ w.prod = p
      /\ w.dev = link[l].dev /\ w.link = l
  <2>1. pc \in CallLabels /\ op \in CallOps
    BY <1>2 DEF CallLabels, CallOps
  <2> QED BY <2>1, <1>3, <1>5 DEF NoCall, CallRecords, Named
<1>7. Shape(w)
  BY <1>2, <1>3, <1>5, <1>6 DEF Shape
<1>8. Calls(c, w)
  BY <1>2
<1> HIDE DEF w
<1>9. Began(c, w)
  BY <1>6, <1>7, <1>8, CallBegins
<1> QED BY <1>2, <1>3, <1>4, <1>6, <1>9 DEF Began

LEMMA DeviceBegins ==
  ASSUME FleetRecords, NEW c \in Callers, DeviceCall(c)
  PROVE  /\ Began(c, caller'[c])
         /\ caller'[c].pc = "record"
         /\ \/ caller'[c].op \in RecordOps \ {"provision"} /\ caller'[c].code = "none"
            \/ /\ caller'[c].op = "provision"
               /\ caller'[c].code \in Codes /\ code[caller'[c].code].state = "open"
         /\ caller'[c].copy = unit[caller'[c].dev]
<1> DEFINE Held(d) == unit[d] \in UnitRecords \union {NoUnit, "none"}
<1>0. /\ \A d \in FleetDevices : unit[d] \in UnitRecords \union {NoUnit} /\ Held(d)
      /\ \A d \in FleetDevices : Keeper(d) \in Owners \union {"nobody"}
  BY DEF FleetRecords, FleetTypeOK, UnitRecords, Named, Keeper
<1>1. ASSUME NEW r \in CallRecords, r.pc = "record", r.op \in RecordOps \ {"provision"},
             r.code = "none", r.owner \in Owners \union {"nobody"}, r.dev \in FleetDevices,
             r.prod = "none" \/ (r.op = "describe" /\ r.prod \in Named),
             r.copy = unit[r.dev], Calls(c, r)
      PROVE  /\ Began(c, caller'[c])
             /\ caller'[c].pc = "record"
             /\ caller'[c].op \in RecordOps \ {"provision"} /\ caller'[c].code = "none"
             /\ caller'[c].copy = unit[caller'[c].dev]
  <2>1. Shape(r)
    BY <1>0, <1>1 DEF Shape
  <2>2. Began(c, r)
    BY <1>1, <2>1, CallBegins
  <2> QED BY <1>1, <2>2 DEF Began
<1>2. ASSUME NEW d \in FleetDevices, NEW k \in Codes, ProvisionDevice(c, d, k)
      PROVE  /\ Began(c, caller'[c])
             /\ caller'[c].pc = "record" /\ caller'[c].op = "provision"
             /\ caller'[c].code = k /\ code[k].state = "open"
             /\ caller'[c].copy = unit[caller'[c].dev]
  <2> DEFINE r == [NoCall EXCEPT !.pc = "record", !.op = "provision", !.owner = code[k].owner,
                                 !.dev = d, !.code = k, !.copy = unit[d]]
  <2>1. unit[d] \in UnitRecords \union {NoUnit}
    BY DEF FleetRecords, FleetTypeOK, UnitRecords, Named
  <2>2. code[k].state = "open" /\ code[k].owner \in Owners
    <3>1. code[k] \in CodeRecords /\ code[k].state = "open"
      BY <1>2 DEF FleetRecords, ProvisionDevice
    <3> QED BY <3>1 DEF CodeRecords
  <2>3. /\ r \in CallRecords /\ r.pc = "record" /\ r.op = "provision"
        /\ r.owner = code[k].owner /\ r.prod = "none"
        /\ r.dev = d /\ r.code = k /\ r.copy = unit[d]
    <3>1. unit[d] \in UnitRecords \union {NoUnit, "none"}
      BY <2>1
    <3>2. "record" \in CallLabels /\ "provision" \in CallOps
      BY DEF CallLabels, CallOps
    <3> QED BY <2>2, <3>1, <3>2 DEF NoCall, CallRecords
  <2>4. Shape(r)
    BY <2>1, <2>2, <2>3 DEF Shape
  <2> HIDE DEF r
  <2>5. Began(c, r)
    BY <1>2, <2>3, <2>4, CallBegins DEF r, ProvisionDevice
  <2> QED BY <2>2, <2>3, <2>5 DEF Began
<1>3. "record" \in CallLabels /\ "claim" \in CallOps /\ "touch" \in CallOps
      /\ "describe" \in CallOps
  BY DEF CallLabels, CallOps
<1>4. PICK d \in FleetDevices :
        \/ TouchDevice(c, d)
        \/ \E name \in Named \union {"none"} : DescribeDevice(c, d, name)
        \/ \E owner \in Owners : ClaimDevice(c, owner, d) \/ UnclaimDevice(c, owner, d)
        \/ \E k \in Codes : ProvisionDevice(c, d, k)
  BY DEF DeviceCall, Named
<1>5. CASE TouchDevice(c, d)
  <2> DEFINE r == [NoCall EXCEPT !.pc = "record", !.op = "touch", !.owner = Keeper(d),
                                 !.dev = d, !.copy = unit[d]]
  <2>1. /\ r \in CallRecords /\ r.pc = "record" /\ r.op = "touch" /\ r.owner = Keeper(d)
        /\ r.prod = "none" /\ r.dev = d /\ r.code = "none" /\ r.copy = unit[d]
    BY <1>0, <1>3 DEF NoCall, CallRecords
  <2>2. Calls(c, r)
    BY <1>5 DEF TouchDevice
  <2> HIDE DEF r
  <2> QED BY <1>0, <1>1, <2>1, <2>2 DEF RecordOps
<1>6. ASSUME NEW name \in Named \union {"none"}, DescribeDevice(c, d, name)
      PROVE  /\ Began(c, caller'[c])
             /\ caller'[c].pc = "record"
             /\ caller'[c].op \in RecordOps \ {"provision"} /\ caller'[c].code = "none"
             /\ caller'[c].copy = unit[caller'[c].dev]
  <2> DEFINE r == [NoCall EXCEPT !.pc = "record", !.op = "describe", !.owner = Keeper(d),
                                 !.prod = name, !.dev = d, !.copy = unit[d]]
  <2>1. /\ r \in CallRecords /\ r.pc = "record" /\ r.op = "describe" /\ r.owner = Keeper(d)
        /\ r.prod = name /\ r.dev = d /\ r.code = "none" /\ r.copy = unit[d]
    BY <1>0, <1>3 DEF NoCall, CallRecords
  <2>2. Calls(c, r)
    BY <1>6 DEF DescribeDevice
  <2> HIDE DEF r
  <2> QED BY <1>0, <1>1, <2>1, <2>2 DEF RecordOps
<1>7. ASSUME NEW owner \in Owners, ClaimDevice(c, owner, d) \/ UnclaimDevice(c, owner, d)
      PROVE  /\ Began(c, caller'[c])
             /\ caller'[c].pc = "record"
             /\ caller'[c].op \in RecordOps \ {"provision"} /\ caller'[c].code = "none"
             /\ caller'[c].copy = unit[caller'[c].dev]
  <2> DEFINE r(o) == [NoCall EXCEPT !.pc = "record", !.op = "claim", !.owner = o,
                                    !.dev = d, !.copy = unit[d]]
  <2>1. PICK o \in Owners \union {"nobody"} : Calls(c, r(o))
    BY <1>7 DEF ClaimDevice, UnclaimDevice
  <2>2. /\ r(o) \in CallRecords /\ r(o).pc = "record" /\ r(o).op = "claim" /\ r(o).owner = o
        /\ r(o).prod = "none" /\ r(o).dev = d /\ r(o).code = "none" /\ r(o).copy = unit[d]
    BY <1>0, <1>3 DEF NoCall, CallRecords
  <2> HIDE DEF r
  <2> QED BY <1>1, <2>1, <2>2 DEF RecordOps
<1> QED BY <1>2, <1>4, <1>5, <1>6, <1>7

-----------------------------------------------------------------------------
(* How each call goes on *)

\* A save or deletion fails, which ends the call.
Fails(c) ==
  /\ Ended(c) /\ failed' = failed + 1
  /\ UNCHANGED <<product, link, unit, code, claimed, deleted>>

LEMMA CallFailsEnds ==
  ASSUME FleetRecords, NEW c \in Callers, CallFails(c),
         UNCHANGED <<product, link, unit, code, claimed, deleted>>
  PROVE  Fails(c)
BY GoesIdle DEF CallFails, Fails

WritesProduct(c) ==
  LET w == caller[c] IN
  /\ w.op \in {"create", "update"}
  /\ w.prod \in ProductIds /\ w.slug \in Slugs /\ w.owner \in Owners
  /\ Ended(c)
  /\ \/ UNCHANGED product
     \/ product' = [product EXCEPT ![w.prod] = [slug |-> w.slug, owner |-> w.owner]]
  /\ UNCHANGED <<link, unit, code, failed, claimed, deleted>>

LEMMA ProductWritten ==
  ASSUME FleetRecords, NEW c \in Callers, StoreProduct(c) \/ SaveProduct(c)
  PROVE  Fails(c) \/ (caller[c].pc \in {"create", "update"} /\ WritesProduct(c))
<1>1. Shape(caller[c])
  BY DEF FleetRecords
<1>2. CASE StoreProduct(c)
  <2>1. caller[c].pc = "create"
    BY <1>2 DEF StoreProduct, Saving, CallerAt
  <2>2. CASE CallFails(c) /\ UNCHANGED <<product, link, unit, code, claimed, deleted>>
    BY <2>2, CallFailsEnds
  <2>3. CASE Goes(c, "idle") /\ UNCHANGED failed
             /\ product' = (IF Exists(caller[c].prod) THEN product
                            ELSE [product EXCEPT ![caller[c].prod] =
                                    [slug |-> caller[c].slug, owner |-> caller[c].owner]])
             /\ UNCHANGED <<link, unit, code, claimed, deleted>>
    BY <1>1, <2>1, <2>3, GoesIdle, AbsentRecords DEF WritesProduct, Shape
  <2> QED BY <1>2, <2>2, <2>3 DEF StoreProduct, Saving
<1>3. CASE SaveProduct(c)
  <2>1. caller[c].pc = "update"
    BY <1>3 DEF SaveProduct, Saving, CallerAt
  <2>2. CASE CallFails(c) /\ UNCHANGED <<product, link, unit, code, claimed, deleted>>
    BY <2>2, CallFailsEnds
  <2>3. CASE Goes(c, "idle") /\ UNCHANGED failed
             /\ product' = [product EXCEPT ![caller[c].prod] =
                              [slug |-> caller[c].slug, owner |-> caller[c].owner]]
             /\ UNCHANGED <<link, unit, code, claimed, deleted>>
    BY <1>1, <2>1, <2>3, GoesIdle, AbsentRecords DEF WritesProduct, Shape
  <2> QED BY <1>3, <2>2, <2>3 DEF SaveProduct, Saving
<1> QED BY <1>2, <1>3

\* A link of the product that is being deleted goes, or cannot be deleted.
Unlinks(c) ==
  LET w == caller[c] IN
  /\ w.pc = "unlinkAll" /\ w.op = "delete" /\ w.prod \in ProductIds
  /\ OnlyCall(c)
  /\ \E l \in w.todo :
       /\ l \in LinkIds
       /\ caller'[c].todo = w.todo \ {l}
       /\ \/ link' = [link EXCEPT ![l] = NoLink] /\ UNCHANGED failed
          \/ failed' = failed + 1 /\ UNCHANGED link
  /\ caller'[c].pc = w.pc /\ caller'[c].op = w.op /\ caller'[c].prod = w.prod
  /\ caller'[c].code = w.code
  /\ UNCHANGED <<product, unit, code, claimed, deleted>>

LEMMA LinksDeleted ==
  ASSUME FleetRecords, NEW c \in Callers, DeleteLinks(c)
  PROVE  Unlinks(c)
<1>1. Shape(caller[c]) /\ caller \in [Callers -> CallRecords] /\ caller[c].pc = "unlinkAll"
  BY DEF FleetRecords, DeleteLinks, CallerAt
<1>2. caller[c].op = "delete" /\ caller[c].prod \in ProductIds
  BY <1>1, AbsentRecords DEF Shape
<1>3. PICK l \in caller[c].todo :
        /\ \/ link' = [link EXCEPT ![l] = NoLink] /\ UNCHANGED failed
           \/ failed < FleetFaults /\ failed' = failed + 1 /\ UNCHANGED link
        /\ caller' = [caller EXCEPT ![c].todo = @ \ {l}]
  BY DEF DeleteLinks
<1>4. /\ caller' = [caller EXCEPT ![c] = caller'[c]]
      /\ caller'[c] = [pc |-> caller[c].pc, op |-> caller[c].op, prod |-> caller[c].prod,
                       owner |-> caller[c].owner, slug |-> caller[c].slug,
                       dev |-> caller[c].dev, link |-> caller[c].link,
                       code |-> caller[c].code, copy |-> caller[c].copy,
                       todo |-> caller[c].todo \ {l}]
  <2>1. caller[c] \in CallRecords
    BY <1>1
  <2>2. /\ caller' = [caller EXCEPT ![c] = caller'[c]]
        /\ caller'[c] = [caller[c] EXCEPT !.todo = @ \ {l}]
    BY <1>1, <1>3
  <2> QED BY <2>1, <2>2 DEF CallRecords
<1>5. caller[c].todo \subseteq LinkIds
  BY <1>1 DEF CallRecords
<1>6. caller'[c] \in CallRecords
  BY <1>1, <1>4, <1>5 DEF CallRecords
<1>7. Shape(caller'[c])
  BY <1>1, <1>2, <1>4 DEF Shape
<1> QED BY <1>1, <1>2, <1>3, <1>4, <1>5, <1>6, <1>7 DEF Unlinks, OnlyCall, DeleteLinks

RemovesProduct(c) ==
  LET p == caller[c].prod IN
  /\ caller[c].pc = "unlinkAll" /\ caller[c].op = "delete" /\ p \in ProductIds
  /\ caller[c].todo = {}
  /\ Ended(c)
  /\ product' = [product EXCEPT ![p] = NoProduct]
  /\ deleted' = deleted \union {p}
  /\ UNCHANGED <<link, unit, code, failed, claimed>>

LEMMA ProductRemoved ==
  ASSUME FleetRecords, NEW c \in Callers, RemoveProduct(c)
  PROVE  Fails(c) \/ RemovesProduct(c)
<1>1. Shape(caller[c]) /\ caller[c].pc = "unlinkAll" /\ caller[c].todo = {}
  BY DEF FleetRecords, RemoveProduct, Saving, CallerAt
<1>2. CASE CallFails(c) /\ UNCHANGED <<product, link, unit, code, claimed, deleted>>
  BY <1>2, CallFailsEnds
<1>3. CASE Goes(c, "idle") /\ UNCHANGED failed
           /\ product' = [product EXCEPT ![caller[c].prod] = NoProduct]
           /\ deleted' = deleted \union {caller[c].prod}
           /\ UNCHANGED <<link, unit, code, claimed>>
  BY <1>1, <1>3, GoesIdle, AbsentRecords DEF RemovesProduct, Shape
<1> QED BY <1>2, <1>3 DEF RemoveProduct, Saving

\* The link is created, with an id that no call holds.
AddsLink(c) ==
  LET w == caller[c] IN
  /\ w.pc = "link" /\ w.op = "add"
  /\ w.prod \in ProductIds /\ w.dev \in FleetDevices
  /\ OnlyCall(c)
  /\ caller'[c].pc = "saveUnit" /\ caller'[c].op = "add"
  /\ caller'[c].prod = w.prod /\ caller'[c].dev = w.dev /\ caller'[c].code = w.code
  /\ \E l \in LinkIds :
       /\ link[l] = NoLink
       /\ \A b \in Callers : caller[b].link # l /\ l \notin caller[b].todo
       /\ link' = [link EXCEPT ![l] = [product |-> w.prod, dev |-> w.dev, desired |-> 0]]
  /\ UNCHANGED <<product, unit, code, failed, claimed, deleted>>

LEMMA LinkAdded ==
  ASSUME FleetRecords, NEW c \in Callers, CreateLink(c)
  PROVE  Fails(c) \/ AddsLink(c)
<1>1. Shape(caller[c]) /\ caller[c].pc = "link"
  BY DEF FleetRecords, CreateLink, Saving, CallerAt
<1>2. /\ caller[c].op = "add" /\ caller[c].prod \in ProductIds
      /\ caller[c].dev \in FleetDevices /\ caller[c].copy \in UnitRecords
  BY <1>1, AbsentRecords DEF Shape
<1>3. PICK l \in LinkIds :
        /\ link[l] = NoLink
        /\ \A b \in Callers : caller[b].link # l /\ l \notin caller[b].todo
        /\ Saving(c, "link",
             /\ link' = [link EXCEPT ![l] = [product |-> caller[c].prod,
                                             dev |-> caller[c].dev, desired |-> 0]]
             /\ UNCHANGED <<product, unit, code, claimed, deleted>>, "saveUnit")
  BY DEF CreateLink
<1>4. CASE CallFails(c) /\ UNCHANGED <<product, link, unit, code, claimed, deleted>>
  BY <1>4, CallFailsEnds
<1>5. CASE Goes(c, "saveUnit") /\ UNCHANGED failed
           /\ link' = [link EXCEPT ![l] = [product |-> caller[c].prod,
                                           dev |-> caller[c].dev, desired |-> 0]]
           /\ UNCHANGED <<product, unit, code, claimed, deleted>>
  <2>1. "saveUnit" \in CallLabels /\ "saveUnit" # "idle"
    BY DEF CallLabels
  <2>2. /\ caller' \in [Callers -> CallRecords]
        /\ \A b \in Callers : b # c => caller'[b] = caller[b]
        /\ caller'[c].pc = "saveUnit" /\ caller'[c].op = "add"
        /\ caller'[c].prod = caller[c].prod /\ caller'[c].dev = caller[c].dev
        /\ caller'[c].copy = caller[c].copy /\ caller'[c].code = caller[c].code
    BY <1>2, <1>5, <2>1, GoesOn
  <2>3. Shape(caller'[c])
    BY <1>2, <2>2 DEF Shape
  <2> QED BY <1>1, <1>2, <1>3, <1>5, <2>2, <2>3 DEF AddsLink, OnlyCall
<1> QED BY <1>3, <1>4, <1>5 DEF Saving

SavesUnit(c) ==
  LET w == caller[c] IN
  /\ w.pc = "saveUnit"
  /\ \/ w.op = "add" /\ w.prod \in ProductIds
     \/ w.op = "remove" /\ w.prod = "none"
  /\ w.dev \in FleetDevices
  /\ Ended(c)
  /\ unit' \in [FleetDevices -> UnitRecords \union {NoUnit}]
  /\ unit'[w.dev] # NoUnit /\ unit'[w.dev].product = w.prod
  /\ \A d \in FleetDevices : d # w.dev => unit'[d] = unit[d]
  /\ UNCHANGED <<product, link, code, failed, claimed, deleted>>

LEMMA UnitSaved ==
  ASSUME FleetRecords, NEW c \in Callers, SaveUnit(c)
  PROVE  Fails(c) \/ SavesUnit(c)
<1>1. Shape(caller[c]) /\ caller[c].pc = "saveUnit"
  BY DEF FleetRecords, SaveUnit, Saving, CallerAt
<1>2. /\ \/ caller[c].op = "add" /\ caller[c].prod \in ProductIds
         \/ caller[c].op = "remove" /\ caller[c].prod = "none"
      /\ caller[c].dev \in FleetDevices /\ caller[c].copy \in UnitRecords
  BY <1>1, AbsentRecords DEF Shape
<1>3. CASE CallFails(c) /\ UNCHANGED <<product, link, unit, code, claimed, deleted>>
  BY <1>3, CallFailsEnds
<1>4. CASE Goes(c, "idle") /\ UNCHANGED failed
           /\ unit' = [unit EXCEPT ![caller[c].dev] =
                         [caller[c].copy EXCEPT !.product = caller[c].prod]]
           /\ UNCHANGED <<product, link, code, claimed, deleted>>
  <2> DEFINE u == [caller[c].copy EXCEPT !.product = caller[c].prod]
  <2>1. u \in UnitRecords /\ u.product = caller[c].prod
    BY <1>2 DEF UnitRecords, Named
  <2>2. u # NoUnit
    BY <2>1, AbsentRecords
  <2>3. unit \in [FleetDevices -> UnitRecords \union {NoUnit}]
    BY DEF FleetRecords, FleetTypeOK, UnitRecords, Named
  <2>4. unit' = [unit EXCEPT ![caller[c].dev] = u]
    BY <1>4
  <2> HIDE DEF u
  <2>5. /\ unit' \in [FleetDevices -> UnitRecords \union {NoUnit}]
        /\ unit'[caller[c].dev] = u
        /\ \A d \in FleetDevices : d # caller[c].dev => unit'[d] = unit[d]
    BY <1>2, <2>1, <2>3, <2>4
  <2> QED BY <1>1, <1>2, <1>4, <2>1, <2>2, <2>5, GoesIdle DEF SavesUnit
<1> QED BY <1>3, <1>4 DEF SaveUnit, Saving

SavesLink(c) ==
  LET w == caller[c] IN
  /\ w.pc = "desire" /\ w.op = "desire"
  /\ w.prod \in ProductIds /\ w.dev \in FleetDevices /\ w.link \in LinkIds
  /\ Ended(c)
  /\ link' = [link EXCEPT ![w.link] = [product |-> w.prod, dev |-> w.dev, desired |-> 1]]
  /\ UNCHANGED <<product, unit, code, failed, claimed, deleted>>

LEMMA LinkSaved ==
  ASSUME FleetRecords, NEW c \in Callers, SaveLink(c)
  PROVE  Fails(c) \/ SavesLink(c)
<1>1. Shape(caller[c]) /\ caller[c].pc = "desire"
  BY DEF FleetRecords, SaveLink, Saving, CallerAt
<1>2. CASE CallFails(c) /\ UNCHANGED <<product, link, unit, code, claimed, deleted>>
  BY <1>2, CallFailsEnds
<1>3. CASE Goes(c, "idle") /\ UNCHANGED failed
           /\ link' = [link EXCEPT ![caller[c].link] =
                         [product |-> caller[c].prod, dev |-> caller[c].dev, desired |-> 1]]
           /\ UNCHANGED <<product, unit, code, claimed, deleted>>
  BY <1>1, <1>3, GoesIdle, AbsentRecords DEF SavesLink, Shape
<1> QED BY <1>2, <1>3 DEF SaveLink, Saving

\* RemoveDevice deletes the link it found.
DropsLink(c) ==
  LET w == caller[c] IN
  /\ w.pc = "unlink" /\ w.op = "remove"
  /\ w.prod \in ProductIds /\ w.dev \in FleetDevices /\ w.link \in LinkIds
  /\ OnlyCall(c)
  /\ caller'[c].pc = "loadUnit" /\ caller'[c].op = "remove"
  /\ caller'[c].prod = w.prod /\ caller'[c].dev = w.dev /\ caller'[c].code = w.code
  /\ link' = [link EXCEPT ![w.link] = NoLink]
  /\ UNCHANGED <<product, unit, code, failed, claimed, deleted>>

LEMMA LinkDropped ==
  ASSUME FleetRecords, NEW c \in Callers, DeleteLink(c)
  PROVE  Fails(c) \/ DropsLink(c)
<1>1. Shape(caller[c]) /\ caller[c].pc = "unlink"
  BY DEF FleetRecords, DeleteLink, Saving, CallerAt
<1>2. /\ caller[c].op = "remove" /\ caller[c].prod \in ProductIds
      /\ caller[c].dev \in FleetDevices /\ caller[c].link \in LinkIds
  BY <1>1, AbsentRecords DEF Shape
<1>3. CASE CallFails(c) /\ UNCHANGED <<product, link, unit, code, claimed, deleted>>
  BY <1>3, CallFailsEnds
<1>4. CASE Goes(c, "loadUnit") /\ UNCHANGED failed
           /\ link' = [link EXCEPT ![caller[c].link] = NoLink]
           /\ UNCHANGED <<product, unit, code, claimed, deleted>>
  <2>1. "loadUnit" \in CallLabels /\ "loadUnit" # "idle"
    BY DEF CallLabels
  <2>2. /\ caller' \in [Callers -> CallRecords]
        /\ \A b \in Callers : b # c => caller'[b] = caller[b]
        /\ caller'[c].pc = "loadUnit" /\ caller'[c].op = "remove"
        /\ caller'[c].prod = caller[c].prod /\ caller'[c].dev = caller[c].dev
        /\ caller'[c].code = caller[c].code
    BY <1>2, <1>4, <2>1, GoesOn
  <2>3. Shape(caller'[c])
    BY <1>2, <2>2 DEF Shape
  <2> QED BY <1>1, <1>2, <1>4, <2>2, <2>3 DEF DropsLink, OnlyCall
<1> QED BY <1>3, <1>4 DEF DeleteLink, Saving

\* RemoveDevice looks whether the device still has the product it was removed from.
LoadsUnit(c) ==
  LET w == caller[c] IN
  /\ w.pc = "loadUnit" /\ w.op = "remove" /\ w.prod \in ProductIds /\ w.dev \in FleetDevices
  /\ \/ unit[w.dev].product # w.prod /\ Ended(c)
     \/ /\ OnlyCall(c)
        /\ caller'[c].pc = "saveUnit" /\ caller'[c].op = "remove"
        /\ caller'[c].dev = w.dev /\ caller'[c].prod = "none" /\ caller'[c].code = w.code
  /\ UNCHANGED <<product, link, unit, code, failed, claimed, deleted>>

LEMMA UnitLoaded ==
  ASSUME FleetRecords, NEW c \in Callers, LoadUnit(c)
  PROVE  LoadsUnit(c)
<1>1. /\ Shape(caller[c]) /\ caller[c].pc = "loadUnit" /\ caller \in [Callers -> CallRecords]
  BY DEF FleetRecords, LoadUnit, CallerAt
<1>2. /\ caller[c].op = "remove" /\ caller[c].prod \in ProductIds
      /\ caller[c].dev \in FleetDevices
  BY <1>1, AbsentRecords DEF Shape
<1>3. CASE unit[caller[c].dev].product # caller[c].prod
  <2>1. caller' = [caller EXCEPT ![c] = NoCall]
    BY <1>3 DEF LoadUnit
  <2> QED BY <1>1, <1>2, <1>3, <2>1, AbsentRecords
          DEF LoadUnit, LoadsUnit, Ended, OnlyCall, Shape
<1>4. CASE unit[caller[c].dev].product = caller[c].prod
  <2>1. unit[caller[c].dev] \in UnitRecords
    <3>1. unit[caller[c].dev] \in UnitRecords \union {NoUnit}
      BY <1>2 DEF FleetRecords, FleetTypeOK, UnitRecords, Named
    <3>2. unit[caller[c].dev] # NoUnit
      BY <1>2, <1>4, FleetAssumption DEF NoUnit
    <3> QED BY <3>1, <3>2
  <2>2. caller' = [caller EXCEPT ![c] = [@ EXCEPT !.pc = "saveUnit",
                                           !.copy = unit[caller[c].dev], !.prod = "none"]]
    BY <1>4 DEF LoadUnit
  <2>3. /\ caller' = [caller EXCEPT ![c] = caller'[c]]
        /\ caller'[c] = [pc |-> "saveUnit", op |-> caller[c].op, prod |-> "none",
                         owner |-> caller[c].owner, slug |-> caller[c].slug,
                         dev |-> caller[c].dev, link |-> caller[c].link,
                         code |-> caller[c].code, copy |-> unit[caller[c].dev],
                         todo |-> caller[c].todo]
    <3>1. caller \in [Callers -> CallRecords] /\ caller[c] \in CallRecords
      BY <1>1
    <3>2. /\ caller' = [caller EXCEPT ![c] = caller'[c]]
          /\ caller'[c] = [caller[c] EXCEPT !.pc = "saveUnit", !.copy = unit[caller[c].dev],
                                            !.prod = "none"]
      BY <2>2, <3>1
    <3> QED BY <3>1, <3>2 DEF CallRecords
  <2>4. caller'[c] \in CallRecords
    <3>1. "saveUnit" \in CallLabels
      BY DEF CallLabels
    <3>2. unit[caller[c].dev] \in UnitRecords \union {NoUnit, "none"}
      BY <2>1
    <3> QED BY <1>1, <2>3, <3>1, <3>2 DEF CallRecords
  <2>5. Shape(caller'[c])
    BY <1>2, <2>1, <2>3 DEF Shape
  <2> QED BY <1>1, <1>2, <2>3, <2>4, <2>5 DEF LoadUnit, LoadsUnit, OnlyCall
<1> QED BY <1>3, <1>4

\* The device gets its owner or the product it calls itself; the rest of the record is the
\* copy's.
Records(c) ==
  LET w == caller[c] IN
  /\ w.pc = "record" /\ w.op \in RecordOps /\ w.dev \in FleetDevices
  /\ w.prod # "none" => w.op = "describe"
  /\ w.op = "provision" <=> w.code \in Codes
  /\ unit' \in [FleetDevices -> UnitRecords \union {NoUnit}]
  /\ unit'[w.dev] # NoUnit
  /\ unit'[w.dev].product = IF w.prod = "none" THEN w.copy.product ELSE w.prod
  /\ \A d \in FleetDevices : d # w.dev => unit'[d] = unit[d]
  /\ \/ w.op # "provision" /\ Ended(c) /\ UNCHANGED claimed
     \/ /\ w.op = "provision"
        /\ claimed' = [claimed EXCEPT ![w.code] = @ \union {w.dev}]
        /\ OnlyCall(c)
        /\ caller'[c].pc = "useCode" /\ caller'[c].op = "provision"
        /\ caller'[c].code = w.code
  /\ UNCHANGED <<product, link, code, failed, deleted>>

\* A device that was unknown has got a record by now.
Refused(c) ==
  /\ caller[c].pc = "record"
  /\ Ended(c)
  /\ UNCHANGED <<product, link, unit, code, failed, claimed, deleted>>

LEMMA RecordSaved ==
  ASSUME FleetRecords, NEW c \in Callers, SaveRecord(c)
  PROVE  \/ Fails(c)
         \/ Refused(c)
         \/ Records(c)
<1> DEFINE w == caller[c]
           clash == w.copy = NoUnit /\ unit[w.dev] # NoUnit
<1>1. Shape(w) /\ w.pc = "record" /\ UNCHANGED <<product, link, code, deleted>>
  BY DEF FleetRecords, SaveRecord, CallerAt
<1>2. /\ \/ w.op \in RecordOps \ {"provision"} /\ w.code = "none"
         \/ w.op = "provision" /\ w.code \in Codes
      /\ w.prod = "none" \/ (w.op = "describe" /\ w.prod \in Named)
      /\ w.owner \in Owners \union {"nobody"} /\ w.dev \in FleetDevices
      /\ w.copy \in UnitRecords \union {NoUnit}
  BY <1>1, AbsentRecords DEF Shape
<1>3. CASE clash /\ Goes(c, "idle") /\ UNCHANGED <<unit, failed, claimed>>
  BY <1>1, <1>3, GoesIdle DEF Refused
<1>4. CASE CallFails(c) /\ UNCHANGED <<unit, claimed>>
  BY <1>1, <1>4, CallFailsEnds
<1>5. CASE /\ unit' = [unit EXCEPT ![w.dev] =
                [owner |-> w.owner,
                 product |-> IF w.prod = "none" THEN w.copy.product ELSE w.prod]]
           /\ claimed' = (IF w.code = "none" THEN claimed
                          ELSE [claimed EXCEPT ![w.code] = @ \union {w.dev}])
           /\ Goes(c, IF w.code = "none" THEN "idle" ELSE "useCode")
           /\ UNCHANGED failed
  <2> DEFINE u == [owner |-> w.owner,
                   product |-> IF w.prod = "none" THEN w.copy.product ELSE w.prod]
  <2>1. /\ u \in UnitRecords
        /\ u.product = IF w.prod = "none" THEN w.copy.product ELSE w.prod
    <3>1. w.copy.product \in Named \union {"none"}
      BY <1>2 DEF UnitRecords, NoUnit
    <3> QED BY <1>2, <3>1 DEF UnitRecords
  <2>2. u # NoUnit
    BY <2>1, AbsentRecords
  <2>3. unit \in [FleetDevices -> UnitRecords \union {NoUnit}]
    BY DEF FleetRecords, FleetTypeOK, UnitRecords, Named
  <2>4. unit' = [unit EXCEPT ![w.dev] = u]
    BY <1>5
  <2> HIDE DEF u
  <2>5. /\ unit' \in [FleetDevices -> UnitRecords \union {NoUnit}]
        /\ unit'[w.dev] = u
        /\ \A d \in FleetDevices : d # w.dev => unit'[d] = unit[d]
    BY <1>2, <2>1, <2>3, <2>4
  <2>6. CASE w.op \in RecordOps \ {"provision"} /\ w.code = "none"
    <3>1. Ended(c) /\ UNCHANGED claimed
      BY <1>5, <2>6, GoesIdle
    <3>2. w.code \notin Codes
      BY <2>6, FleetAssumption
    <3> QED BY <1>1, <1>2, <1>5, <2>1, <2>2, <2>5, <2>6, <3>1, <3>2 DEF Records, RecordOps
  <2>7. CASE w.op = "provision" /\ w.code \in Codes
    <3>1. w.code # "none"
      BY <2>7, FleetAssumption
    <3>2. "useCode" \in CallLabels /\ "useCode" # "idle"
      BY DEF CallLabels
    <3>3. /\ caller' \in [Callers -> CallRecords]
          /\ \A b \in Callers : b # c => caller'[b] = caller[b]
          /\ caller'[c].pc = "useCode" /\ caller'[c].op = "provision"
          /\ caller'[c].code = w.code
      BY <1>5, <2>7, <3>1, <3>2, GoesOn
    <3>4. Shape(caller'[c])
      BY <2>7, <3>3 DEF Shape
    <3> QED BY <1>1, <1>2, <1>5, <2>1, <2>2, <2>5, <2>7, <3>1, <3>3, <3>4
            DEF Records, RecordOps, OnlyCall
  <2> QED BY <1>2, <2>6, <2>7
<1> QED BY <1>3, <1>4, <1>5 DEF SaveRecord

UsesCode(c) ==
  LET k == caller[c].code IN
  /\ caller[c].pc = "useCode" /\ caller[c].op = "provision" /\ k \in Codes
  /\ Ended(c)
  /\ code' = [code EXCEPT ![k].state = "used"]
  /\ UNCHANGED <<product, link, unit, failed, claimed, deleted>>

LEMMA CodeUsed ==
  ASSUME FleetRecords, NEW c \in Callers, UseCode(c)
  PROVE  Fails(c) \/ UsesCode(c)
<1>1. Shape(caller[c]) /\ caller[c].pc = "useCode"
  BY DEF FleetRecords, UseCode, Saving, CallerAt
<1>2. CASE CallFails(c) /\ UNCHANGED <<product, link, unit, code, claimed, deleted>>
  BY <1>2, CallFailsEnds
<1>3. CASE Goes(c, "idle") /\ UNCHANGED failed
           /\ code' = [code EXCEPT ![caller[c].code].state = "used"]
           /\ UNCHANGED <<product, link, unit, claimed, deleted>>
  BY <1>1, <1>3, GoesIdle, AbsentRecords DEF UsesCode, Shape
<1> QED BY <1>2, <1>3 DEF UseCode, Saving

-----------------------------------------------------------------------------
(* All steps *)

\* A call begins with what it found.
Begins(c) ==
  LET w == caller'[c] IN
  /\ Began(c, w)
  /\ \/ /\ w.pc \in {"create", "update"} /\ w.op = w.pc
        /\ BySlug(w.slug) \subseteq {w.prod}
     \/ w.pc = "unlinkAll" /\ w.op = "delete" /\ w.todo = Links(w.prod)
     \/ /\ w.pc = "link" /\ w.op = "add"
        /\ Exists(w.prod) /\ unit[w.dev] # NoUnit
        /\ \A l \in Links(w.prod) : link[l].dev # w.dev
     \/ /\ w.pc = "desire" /\ w.op = "desire"
        /\ Exists(w.prod) /\ unit[w.dev] # NoUnit
        /\ w.link \in Links(w.prod) /\ link[w.link].dev = w.dev
     \/ /\ w.pc = "unlink" /\ w.op = "remove"
        /\ w.link \in Links(w.prod) /\ link[w.link].dev = w.dev
     \/ /\ w.pc = "record"
        /\ \/ w.op \in RecordOps \ {"provision"} /\ w.code = "none"
           \/ w.op = "provision" /\ w.code \in Codes /\ code[w.code].state = "open"
        /\ w.copy = unit[w.dev]

LEMMA CallsBegin ==
  ASSUME FleetRecords, NEW c \in Callers, ProductCall(c) \/ DeviceCall(c)
  PROVE  Begins(c)
<1>1. CASE DeviceCall(c)
  BY <1>1, DeviceBegins DEF Begins
<1>2. CASE ProductCall(c)
  <2>1. PICK owner \in Owners, name \in ProductIds \union Slugs :
          \/ \E slug \in Slugs :
               \/ \E p \in ProductIds : CreateProduct(c, owner, p, slug)
               \/ UpdateProduct(c, owner, name, slug)
          \/ DeleteProduct(c, owner, name)
          \/ \E d \in FleetDevices : AddDevice(c, owner, name, d) \/ RemoveDevice(c, owner, name, d)
          \/ \E l \in LinkIds : UpdateDevice(c, owner, name, l)
    BY <1>2 DEF ProductCall
  <2>2. ASSUME NEW slug \in Slugs, NEW p \in ProductIds, CreateProduct(c, owner, p, slug)
        PROVE  Begins(c)
    BY <2>2, CreateBegins DEF Begins
  <2>3. ASSUME NEW slug \in Slugs, UpdateProduct(c, owner, name, slug)
        PROVE  Begins(c)
    BY <2>3, UpdateBegins DEF Begins
  <2>4. CASE DeleteProduct(c, owner, name)
    BY <2>4, DeleteBegins DEF Begins
  <2>5. ASSUME NEW d \in FleetDevices, AddDevice(c, owner, name, d)
        PROVE  Begins(c)
    BY <2>5, AddBegins DEF Begins
  <2>6. CASE \/ \E l \in LinkIds : UpdateDevice(c, owner, name, l)
             \/ \E d \in FleetDevices : RemoveDevice(c, owner, name, d)
    BY <2>6, LinkBegins DEF Begins
  <2> QED BY <2>1, <2>2, <2>3, <2>4, <2>5, <2>6
<1> QED BY <1>1, <1>2

\* A call goes on, one way or another.
Proceeds(c) ==
  \/ Fails(c)
  \/ Refused(c)
  \/ WritesProduct(c)
  \/ Unlinks(c)
  \/ RemovesProduct(c)
  \/ AddsLink(c)
  \/ SavesUnit(c)
  \/ SavesLink(c)
  \/ DropsLink(c)
  \/ LoadsUnit(c)
  \/ Records(c)
  \/ UsesCode(c)

LEMMA CallsProceed ==
  ASSUME FleetRecords, NEW c \in Callers, CallStep(c)
  PROVE  Proceeds(c)
<1>1. CASE StoreProduct(c) \/ SaveProduct(c)
  BY <1>1, ProductWritten DEF Proceeds
<1>2. CASE DeleteLinks(c) \/ RemoveProduct(c) \/ CreateLink(c) \/ SaveUnit(c)
  BY <1>2, LinksDeleted, ProductRemoved, LinkAdded, UnitSaved DEF Proceeds
<1>3. CASE SaveLink(c) \/ DeleteLink(c) \/ LoadUnit(c) \/ SaveRecord(c) \/ UseCode(c)
  BY <1>3, LinkSaved, LinkDropped, UnitLoaded, RecordSaved, CodeUsed DEF Proceeds
<1> QED BY <1>1, <1>2, <1>3 DEF CallStep

\* A claim code is made, or expires.
CodeMoves(k) ==
  /\ \/ code[k].state = "none" /\ code'[k].state = "open"
     \/ code[k].state = "open" /\ code'[k].state = "expired"
  /\ \A i \in Codes : i # k => code'[i] = code[i]
  /\ code' \in [Codes -> CodeRecords]
  /\ UNCHANGED <<product, link, unit, caller, failed, claimed, deleted>>

LEMMA CodesMove ==
  ASSUME FleetRecords, NEW k \in Codes,
         ExpireClaimCode(k) \/ \E owner \in Owners : CreateClaimCode(owner, k)
  PROVE  CodeMoves(k)
<1>1. code \in [Codes -> CodeRecords]
  BY DEF FleetRecords
<1>2. CASE ExpireClaimCode(k)
  <2>1. code[k] \in [state : {"open"}, owner : Owners]
    BY <1>1, <1>2 DEF ExpireClaimCode, CodeRecords
  <2>2. code' = [code EXCEPT ![k] = code'[k]]
        /\ code'[k] = [state |-> "expired", owner |-> code[k].owner]
    BY <1>1, <1>2, <2>1, Zenon DEF ExpireClaimCode
  <2> QED BY <1>1, <1>2, <2>1, <2>2 DEF ExpireClaimCode, CodeMoves, CodeRecords
<1>3. ASSUME NEW owner \in Owners, CreateClaimCode(owner, k)
      PROVE  CodeMoves(k)
  BY <1>1, <1>3 DEF CreateClaimCode, CodeMoves, CodeRecords
<1> QED BY <1>2, <1>3

LEMMA FleetSteps ==
  ASSUME FleetRecords, FleetNext
  PROVE  /\ met' = met \union Met' /\ described' = described \union Described'
         /\ \/ \E c \in Callers : Begins(c) \/ Proceeds(c)
            \/ \E k \in Codes : CodeMoves(k)
BY CallsBegin, CallsProceed, CodesMove DEF FleetNext

LEMMA RecordsNext ==
  ASSUME FleetRecords, FleetNext
  PROVE  FleetRecords'
<1>0. /\ product \in [ProductIds -> ProductRecords \union {NoProduct}]
      /\ link \in [LinkIds -> LinkRecords \union {NoLink}]
      /\ unit \in [FleetDevices -> UnitRecords \union {NoUnit}]
      /\ code \in [Codes -> CodeRecords] /\ claimed \in [Codes -> SUBSET FleetDevices]
      /\ deleted \subseteq ProductIds /\ failed \in Nat /\ failed + 1 \in Nat
  BY DEF FleetRecords, FleetTypeOK, ProductRecords, LinkRecords, UnitRecords, Named
<1>1. met' = met \union Met' /\ described' = described \union Described'
  BY FleetSteps
<1>2. ASSUME NEW c \in Callers, Begins(c)
      PROVE  FleetRecords'
  <2>1. /\ OnlyCall(c) /\ UNCHANGED <<product, link, unit, code, failed, claimed, deleted>>
        /\ caller'[c].pc \in {"link", "desire"} => unit[caller'[c].dev] # NoUnit
    BY <1>2 DEF Begins, Began
  <2>2. caller'[c].pc \in {"link", "desire"} => caller'[c].dev \in FleetDevices
    BY <2>1, AbsentRecords DEF OnlyCall, Shape
  <2> QED BY <1>0, <1>1, <2>1, <2>2, RecordsStep
<1>3. ASSUME NEW c \in Callers, Proceeds(c)
      PROVE  FleetRecords'
  <2>1. CASE Fails(c) \/ Refused(c)
    <3>1. OnlyCall(c) /\ caller'[c].pc = "idle"
      BY <2>1, AbsentRecords DEF Fails, Refused, Ended
    <3> QED BY <1>0, <1>1, <2>1, <3>1, RecordsStep DEF Fails, Refused
  <2>2. CASE WritesProduct(c)
    <3>1. OnlyCall(c) /\ caller'[c].pc = "idle"
      BY <2>2, AbsentRecords DEF WritesProduct, Ended
    <3>2. product' \in [ProductIds -> ProductRecords \union {NoProduct}]
      BY <1>0, <2>2 DEF WritesProduct, ProductRecords
    <3> QED BY <1>0, <1>1, <2>2, <3>1, <3>2, RecordsStep DEF WritesProduct
  <2>3. CASE Unlinks(c)
    <3>1. /\ OnlyCall(c) /\ caller'[c].pc = "unlinkAll" /\ failed' \in Nat
          /\ UNCHANGED <<product, unit, code, claimed, deleted>>
      BY <1>0, <2>3 DEF Unlinks
    <3>2. /\ link' \in [LinkIds -> LinkRecords \union {NoLink}]
          /\ \A l \in LinkIds : link'[l] # NoLink => link'[l] = link[l]
      BY <1>0, <2>3 DEF Unlinks
    <3> QED BY <1>0, <1>1, <3>1, <3>2, RecordsStep
  <2>4. CASE RemovesProduct(c)
    <3>1. OnlyCall(c) /\ caller'[c].pc = "idle"
      BY <2>4, AbsentRecords DEF RemovesProduct, Ended
    <3>2. /\ product' \in [ProductIds -> ProductRecords \union {NoProduct}]
          /\ deleted' \subseteq ProductIds
      BY <1>0, <2>4 DEF RemovesProduct
    <3> QED BY <1>0, <1>1, <2>4, <3>1, <3>2, RecordsStep DEF RemovesProduct
  <2>5. CASE AddsLink(c)
    <3>1. /\ OnlyCall(c) /\ caller'[c].pc = "saveUnit"
          /\ UNCHANGED <<product, unit, code, failed, claimed, deleted>>
      BY <2>5 DEF AddsLink
    <3>2. /\ caller[c].prod \in ProductIds /\ caller[c].dev \in FleetDevices
          /\ unit[caller[c].dev] # NoUnit
      BY <2>5 DEF AddsLink, FleetRecords
    <3>3. PICK l \in LinkIds :
            link' = [link EXCEPT ![l] = [product |-> caller[c].prod, dev |-> caller[c].dev,
                                         desired |-> 0]]
      BY <2>5 DEF AddsLink
    <3>4. /\ link' \in [LinkIds -> LinkRecords \union {NoLink}]
          /\ \A i \in LinkIds : link'[i] # NoLink =>
               link'[i] = link[i] \/ unit[link'[i].dev] # NoUnit
      BY <1>0, <3>2, <3>3 DEF LinkRecords
    <3> QED BY <1>0, <1>1, <3>1, <3>4, RecordsStep
  <2>6. CASE SavesUnit(c)
    <3>1. OnlyCall(c) /\ caller'[c].pc = "idle"
      BY <2>6, AbsentRecords DEF SavesUnit, Ended
    <3>2. /\ unit' \in [FleetDevices -> UnitRecords \union {NoUnit}]
          /\ \A d \in FleetDevices : unit[d] # NoUnit => unit'[d] # NoUnit
          /\ UNCHANGED <<product, link, code, failed, claimed, deleted>>
      BY <2>6 DEF SavesUnit
    <3> QED BY <1>0, <1>1, <3>1, <3>2, RecordsStep
  <2>7. CASE SavesLink(c)
    <3>1. OnlyCall(c) /\ caller'[c].pc = "idle"
      BY <2>7, AbsentRecords DEF SavesLink, Ended
    <3>2. /\ UNCHANGED <<product, unit, code, failed, claimed, deleted>>
          /\ caller[c].prod \in ProductIds /\ caller[c].dev \in FleetDevices
          /\ unit[caller[c].dev] # NoUnit
      BY <2>7 DEF SavesLink, FleetRecords
    <3>3. /\ link' \in [LinkIds -> LinkRecords \union {NoLink}]
          /\ \A i \in LinkIds : link'[i] # NoLink =>
               link'[i] = link[i] \/ unit[link'[i].dev] # NoUnit
      BY <1>0, <2>7, <3>2 DEF SavesLink, LinkRecords
    <3> QED BY <1>0, <1>1, <3>1, <3>2, <3>3, RecordsStep
  <2>8. CASE DropsLink(c)
    <3>1. /\ OnlyCall(c) /\ caller'[c].pc = "loadUnit"
          /\ UNCHANGED <<product, unit, code, failed, claimed, deleted>>
      BY <2>8 DEF DropsLink
    <3>2. /\ link' \in [LinkIds -> LinkRecords \union {NoLink}]
          /\ \A l \in LinkIds : link'[l] # NoLink => link'[l] = link[l]
      BY <1>0, <2>8 DEF DropsLink
    <3> QED BY <1>0, <1>1, <3>1, <3>2, RecordsStep
  <2>9. CASE LoadsUnit(c)
    <3>1. /\ OnlyCall(c) /\ caller'[c].pc \in {"idle", "saveUnit"}
          /\ UNCHANGED <<product, link, unit, code, failed, claimed, deleted>>
      BY <2>9, AbsentRecords DEF LoadsUnit, Ended
    <3> QED BY <1>0, <1>1, <3>1, RecordsStep
  <2>10. CASE Records(c)
    <3>1. OnlyCall(c) /\ caller'[c].pc \in {"idle", "useCode"}
      BY <2>10, AbsentRecords DEF Records, Ended
    <3>2. /\ unit' \in [FleetDevices -> UnitRecords \union {NoUnit}]
          /\ \A d \in FleetDevices : unit[d] # NoUnit => unit'[d] # NoUnit
          /\ UNCHANGED <<product, link, code, failed, deleted>>
      BY <2>10 DEF Records
    <3>3. claimed' \in [Codes -> SUBSET FleetDevices]
      BY <1>0, <2>10 DEF Records
    <3> QED BY <1>0, <1>1, <3>1, <3>2, <3>3, RecordsStep
  <2>11. CASE UsesCode(c)
    <3>1. OnlyCall(c) /\ caller'[c].pc = "idle"
      BY <2>11, AbsentRecords DEF UsesCode, Ended
    <3>2. /\ UNCHANGED <<product, link, unit, failed, claimed, deleted>>
          /\ code' \in [Codes -> CodeRecords]
      <4>1. PICK k \in Codes : code' = [code EXCEPT ![k].state = "used"]
        BY <2>11 DEF UsesCode
      <4>2. /\ code' = [code EXCEPT ![k] = code'[k]]
            /\ code'[k] = [state |-> "used", owner |-> code[k].owner]
        <5>1. \/ code[k] \in [state : {"open"}, owner : Owners]
              \/ code[k] \in [state : {"none", "expired", "used"},
                               owner : Owners \union {"none"}]
          BY <1>0 DEF CodeRecords
        <5>2. CASE code[k] \in [state : {"open"}, owner : Owners]
          BY <1>0, <4>1, <5>2, Zenon
        <5>3. CASE code[k] \in [state : {"none", "expired", "used"},
                                owner : Owners \union {"none"}]
          BY <1>0, <4>1, <5>3, Zenon
        <5> QED BY <5>1, <5>2, <5>3
      <4>3. code[k].owner \in Owners \union {"none"}
        BY <1>0 DEF CodeRecords
      <4> QED BY <1>0, <2>11, <4>2, <4>3 DEF UsesCode, CodeRecords
    <3> QED BY <1>0, <1>1, <3>1, <3>2, RecordsStep
  <2> QED BY <1>3, <2>1, <2>2, <2>3, <2>4, <2>5, <2>6, <2>7, <2>8, <2>9, <2>10, <2>11
          DEF Proceeds
<1>4. ASSUME NEW k \in Codes, CodeMoves(k)
      PROVE  FleetRecords'
  <2>1. Met' = Met /\ Described' = Described
    BY <1>4 DEF CodeMoves, Met, Described
  <2>2. /\ UNCHANGED <<product, link, unit, caller, failed, claimed, deleted>>
        /\ code' \in [Codes -> CodeRecords]
    BY <1>4 DEF CodeMoves
  <2>3. FleetTypeOK'
    BY <2>2 DEF FleetRecords, FleetTypeOK
  <2> QED BY <1>1, <2>1, <2>2, <2>3, DescriptionsRecorded DEF FleetRecords
<1> QED BY <1>2, <1>3, <1>4, FleetSteps

-----------------------------------------------------------------------------
(* Slugs *)

\* No two calls that choose slugs have overlapped.
SlugsAlone == met \cap {{"create"}, {"update"}, {"create", "update"}} = {}

\* A slug names one product, and the slug a call has chosen no other than its own.
SlugInv ==
  SlugsAlone =>
    /\ \A p, q \in ProductIds : product[p].slug = product[q].slug => p = q \/ ~Exists(p)
    /\ \A c \in Callers :
         caller[c].pc \in {"create", "update"} =>
           BySlug(caller[c].slug) \subseteq {caller[c].prod}

\* Products that only go away leave the others' slugs alone.
LEMMA SlugsKept ==
  ASSUME SlugInv, FleetRecords, SlugsAlone' => SlugsAlone,
         \A p \in ProductIds : product'[p] = product[p] \/ product'[p] = NoProduct,
         \A c \in Callers :
           caller'[c].pc \in {"create", "update"} =>
             \/ caller'[c] = caller[c]
             \/ BySlug(caller'[c].slug) \subseteq {caller'[c].prod}
  PROVE  SlugInv'
<1> SUFFICES ASSUME SlugsAlone'
             PROVE  /\ \A p, q \in ProductIds :
                         product'[p].slug = product'[q].slug => p = q \/ product'[p] = NoProduct
                    /\ \A c \in Callers :
                         caller'[c].pc \in {"create", "update"} =>
                           BySlug(caller[c].slug)' \subseteq {caller'[c].prod}
  BY DEF SlugInv, Exists
<1>1. \A c \in Callers : BySlug(caller[c].slug)' \subseteq BySlug(caller'[c].slug)
  BY DEF BySlug, Exists
<1>2. \A p \in ProductIds : product[p] # NoProduct => product[p].slug # NoProduct.slug
  <2>1. \A p \in ProductIds : product[p] # NoProduct => product[p].slug \in Slugs
    BY DEF FleetRecords, FleetTypeOK
  <2> QED BY <2>1, FleetAssumption DEF NoProduct
<1>3. \A p, q \in ProductIds :
        product'[p].slug = product'[q].slug => p = q \/ product'[p] = NoProduct
  BY <1>2 DEF SlugInv, Exists
<1>4. \A c \in Callers :
        caller'[c].pc \in {"create", "update"} =>
          BySlug(caller[c].slug)' \subseteq {caller'[c].prod}
  <2>1. ASSUME NEW c \in Callers, caller'[c].pc \in {"create", "update"}
        PROVE  BySlug(caller'[c].slug) \subseteq {caller'[c].prod}
    BY <2>1 DEF SlugInv
  <2> QED BY <1>1, <2>1
<1> QED BY <1>3, <1>4

\* A call that chose a slug is alone, or nothing is promised.
LEMMA AloneSlug ==
  ASSUME FleetRecords, FleetRecords', met \subseteq met', SlugsAlone', NEW c \in Callers,
         caller[c].op \in {"create", "update"}, OnlyCall(c)
  PROVE  \A b \in Callers : b # c => caller'[b].op \notin {"create", "update"}
<1>1. ASSUME NEW b \in Callers, b # c, caller'[b].op \in {"create", "update"}
      PROVE  FALSE
  <2>1. caller'[b] = caller[b]
    BY <1>1 DEF OnlyCall
  <2>2. {caller[b].op, caller[c].op} \in met'
    BY <1>1, <2>1 DEF FleetRecords
  <2>3. {caller[b].op, caller[c].op} \in {{"create"}, {"update"}, {"create", "update"}}
    <3>1. caller[b].op \in {"create", "update"}
      BY <1>1, <2>1
    <3> QED BY <3>1
  <2> QED BY <2>2, <2>3 DEF SlugsAlone
<1> QED BY <1>1

LEMMA SlugNext ==
  ASSUME FleetRecords, FleetRecords', SlugInv, FleetNext
  PROVE  SlugInv'
<1>1. met \subseteq met' /\ (SlugsAlone' => SlugsAlone)
  BY FleetSteps, MetRecorded DEF SlugsAlone
<1>2. ASSUME NEW c \in Callers, Begins(c)
      PROVE  SlugInv'
  BY <1>1, <1>2, SlugsKept DEF Begins, Began, OnlyCall
<1>3. ASSUME NEW c \in Callers, Proceeds(c)
      PROVE  SlugInv'
  <2>1. CASE WritesProduct(c)
    <3> DEFINE w == caller[c]
    <3>1. /\ w.op \in {"create", "update"} /\ w.prod \in ProductIds /\ w.slug \in Slugs
          /\ OnlyCall(c) /\ caller'[c].pc = "idle" /\ caller'[c].op = "none"
      BY <2>1, AbsentRecords DEF WritesProduct, Ended
    <3>2. CASE UNCHANGED product
      BY <1>1, <3>1, <3>2, SlugsKept DEF OnlyCall
    <3>3. CASE product' = [product EXCEPT ![w.prod] = [slug |-> w.slug, owner |-> w.owner]]
      <4> SUFFICES ASSUME SlugsAlone'
                   PROVE  /\ \A p, q \in ProductIds :
                               product'[p].slug = product'[q].slug => p = q \/ ~Exists(p)'
                          /\ \A b \in Callers : caller'[b].pc \notin {"create", "update"}
        BY DEF SlugInv
      <4>1. \A b \in Callers : caller'[b].pc \notin {"create", "update"}
        <5>1. \A b \in Callers : caller'[b].op \notin {"create", "update"}
          BY <1>1, <3>1, AloneSlug
        <5>2. \A b \in Callers : Shape(caller'[b])
          BY DEF FleetRecords
        <5>3. ASSUME NEW b \in Callers, caller'[b].pc \in {"create", "update"}
              PROVE  caller'[b].op = caller'[b].pc
          BY <5>2, <5>3, AbsentRecords DEF Shape
        <5> QED BY <5>1, <5>3
      <4>2. BySlug(w.slug) \subseteq {w.prod}
        <5>1. w.pc \in {"create", "update"}
          <6>1. Shape(w)
            BY DEF FleetRecords
          <6> QED BY <3>1, <6>1, AbsentRecords DEF Shape, RecordOps
        <5> QED BY <1>1, <5>1 DEF SlugInv
      <4>3. \A p \in ProductIds : product'[p] =
              IF p = w.prod THEN [slug |-> w.slug, owner |-> w.owner] ELSE product[p]
        BY <3>1, <3>3 DEF FleetRecords, FleetTypeOK
      <4>4. ASSUME NEW p \in ProductIds, NEW q \in ProductIds,
                   product'[p].slug = product'[q].slug, p # q
            PROVE  product'[p] = NoProduct
        <5>1. \A x \in ProductIds : x # w.prod /\ product[x].slug = w.slug => product[x] = NoProduct
          BY <4>2 DEF BySlug, Exists
        <5>2. CASE q = w.prod
          BY <4>3, <4>4, <5>1, <5>2
        <5>3. CASE p = w.prod
          <6>1. product[q].slug = w.slug
            BY <4>3, <4>4, <5>3
          <6>2. product[q] = NoProduct
            BY <4>4, <5>1, <5>3, <6>1
          <6>3. w.slug # NoProduct.slug
            BY <3>1, FleetAssumption DEF NoProduct
          <6> QED BY <6>1, <6>2, <6>3
        <5>4. CASE p # w.prod /\ q # w.prod
          BY <1>1, <4>3, <4>4, <5>4 DEF SlugInv, Exists
        <5> QED BY <5>2, <5>3, <5>4
      <4> QED BY <4>1, <4>4 DEF Exists
    <3> QED BY <2>1, <3>2, <3>3 DEF WritesProduct
  <2>2. CASE RemovesProduct(c)
    <3>1. \A p \in ProductIds : product'[p] = product[p] \/ product'[p] = NoProduct
      BY <2>2 DEF RemovesProduct, FleetRecords, FleetTypeOK
    <3> QED BY <1>1, <2>2, <3>1, SlugsKept, AbsentRecords DEF RemovesProduct, Ended, OnlyCall
  <2>3. CASE UNCHANGED product /\ OnlyCall(c) /\ caller'[c].pc \notin {"create", "update"}
    BY <1>1, <2>3, SlugsKept DEF OnlyCall
  <2>4. \/ WritesProduct(c) \/ RemovesProduct(c)
        \/ UNCHANGED product /\ OnlyCall(c) /\ caller'[c].pc \notin {"create", "update"}
    BY <1>3, AbsentRecords DEF Proceeds, Fails, Refused, Unlinks, AddsLink, SavesUnit, SavesLink,
       DropsLink, LoadsUnit, Records, UsesCode, Ended
  <2> QED BY <2>1, <2>2, <2>3, <2>4
<1>4. ASSUME NEW k \in Codes, CodeMoves(k)
      PROVE  SlugInv'
  BY <1>1, <1>4, SlugsKept DEF CodeMoves
<1> QED BY <1>2, <1>3, <1>4, FleetSteps

-----------------------------------------------------------------------------
(* Links, once per product and device *)

\* The other calls at work have met a call that is at work.
LEMMA MetWith ==
  ASSUME FleetRecords, met \subseteq met', NEW c \in Callers, OnlyCall(c),
         caller[c].op # "none", NEW b \in Callers, b # c, caller'[b].op # "none"
  PROVE  {caller'[b].op, caller[c].op} \in met'
<1>1. caller'[b] = caller[b]
  BY DEF OnlyCall
<1> QED BY <1>1 DEF FleetRecords

\* Every operation of the calls at a label.
LEMMA OpsOfLabels ==
  ASSUME FleetRecords, NEW c \in Callers
  PROVE  /\ caller[c].pc = "link" => caller[c].op = "add"
         /\ caller[c].pc = "desire" => caller[c].op = "desire"
         /\ caller[c].pc = "unlinkAll" => caller[c].op = "delete"
         /\ caller[c].pc \in {"unlink", "loadUnit"} => caller[c].op = "remove"
         /\ caller[c].pc = "saveUnit" => caller[c].op \in {"add", "remove"}
         /\ caller[c].pc = "record" => caller[c].op \in RecordOps
         /\ caller[c].pc = "useCode" => caller[c].op = "provision"
         /\ caller[c].op = "delete" => caller[c].pc = "unlinkAll"
<1>1. Shape(caller[c])
  BY DEF FleetRecords
<1> QED BY <1>1, AbsentRecords DEF Shape, RecordOps

\* No two AddDevice calls have overlapped, and no link was saved while it was deleted.
LinksAlone == met \cap {{"add"}, {"desire", "remove"}, {"desire", "delete"}} = {}

OnceInv ==
  LinksAlone =>
    /\ \A k, l \in LinkIds :
         link[k].product = link[l].product /\ link[k].dev = link[l].dev
           => k = l \/ link[k] = NoLink
    /\ \A c \in Callers :
         caller[c].pc = "link" =>
           \A l \in Links(caller[c].prod) : link[l].dev # caller[c].dev
    /\ \A c \in Callers :
         caller[c].pc = "desire" =>
           LET l == caller[c].link IN
           link[l] # NoLink /\ link[l].product = caller[c].prod /\ link[l].dev = caller[c].dev

\* Steps that leave the links alone.
LEMMA OnceKept ==
  ASSUME OnceInv, UNCHANGED link, LinksAlone' => LinksAlone,
         \A c \in Callers :
           \/ caller'[c] = caller[c]
           \/ caller'[c].pc \notin {"link", "desire"}
           \/ /\ caller'[c].pc = "link"
              /\ \A l \in Links(caller'[c].prod) : link[l].dev # caller'[c].dev
           \/ /\ caller'[c].pc = "desire"
              /\ caller'[c].link \in Links(caller'[c].prod)
              /\ link[caller'[c].link].dev = caller'[c].dev
  PROVE  OnceInv'
<1> SUFFICES ASSUME LinksAlone'
             PROVE  /\ \A c \in Callers :
                         caller'[c].pc = "link" =>
                           \A l \in Links(caller[c].prod)' : link[l].dev # caller'[c].dev
                    /\ \A c \in Callers :
                         caller'[c].pc = "desire" =>
                           LET l == caller'[c].link IN
                           /\ link[l] # NoLink
                           /\ link[l].product = caller'[c].prod /\ link[l].dev = caller'[c].dev
  BY DEF OnceInv
<1>1. \A c \in Callers : Links(caller[c].prod)' = Links(caller'[c].prod)
  BY DEF Links
<1>2. ASSUME NEW c \in Callers, caller'[c].pc = "link"
      PROVE  \A l \in Links(caller'[c].prod) : link[l].dev # caller'[c].dev
  BY <1>2 DEF OnceInv
<1>3. ASSUME NEW c \in Callers, caller'[c].pc = "desire"
      PROVE  /\ link[caller'[c].link] # NoLink
             /\ link[caller'[c].link].product = caller'[c].prod
             /\ link[caller'[c].link].dev = caller'[c].dev
  BY <1>3 DEF OnceInv, Links
<1> QED BY <1>1, <1>2, <1>3

\* Links that are deleted while no call is about to save one.
LEMMA OnceShrinks ==
  ASSUME OnceInv, FleetRecords, LinksAlone' => LinksAlone,
         \A l \in LinkIds : link'[l] = link[l] \/ link'[l] = NoLink,
         LinksAlone' => \A c \in Callers : caller'[c].pc # "desire",
         \A c \in Callers : caller'[c] = caller[c] \/ caller'[c].pc # "link"
  PROVE  OnceInv'
<1> SUFFICES ASSUME LinksAlone'
             PROVE  /\ \A k, l \in LinkIds :
                         link'[k].product = link'[l].product /\ link'[k].dev = link'[l].dev
                           => k = l \/ link'[k] = NoLink
                    /\ \A c \in Callers :
                         caller'[c].pc = "link" =>
                           \A l \in Links(caller[c].prod)' : link'[l].dev # caller'[c].dev
  BY DEF OnceInv
<1>1. \A l \in LinkIds : link[l] # NoLink => link[l].product # NoLink.product
  <2>1. \A l \in LinkIds : link[l] # NoLink => link[l].product \in ProductIds
    BY DEF FleetRecords, FleetTypeOK
  <2> QED BY <2>1, FleetAssumption DEF NoLink
<1>2. \A k, l \in LinkIds :
        link'[k].product = link'[l].product /\ link'[k].dev = link'[l].dev
          => k = l \/ link'[k] = NoLink
  BY <1>1 DEF OnceInv
<1>3. ASSUME NEW c \in Callers, caller'[c].pc = "link", NEW l \in Links(caller[c].prod)'
      PROVE  link'[l].dev # caller'[c].dev
  <2>1. /\ l \in LinkIds /\ link'[l] # NoLink /\ link'[l] = link[l]
        /\ caller'[c] = caller[c] /\ link[l].product = caller[c].prod
    BY <1>3 DEF Links
  <2> QED BY <1>3, <2>1 DEF OnceInv, Links
<1> QED BY <1>2, <1>3

\* No other link than i joins what the record r joins.
SoleLink(i, r) ==
  \A l \in LinkIds :
    l # i /\ link[l] # NoLink => ~(link[l].product = r.product /\ link[l].dev = r.dev)

\* The calls that are about to make or save a link have not moved, and are about
\* another pair than the record r, unless the link they save is i.
CallsAgree(i, r) ==
  /\ \A c \in Callers :
       caller'[c].pc = "link" =>
         caller'[c] = caller[c] /\ ~(caller[c].prod = r.product /\ caller[c].dev = r.dev)
  /\ \A c \in Callers :
       caller'[c].pc = "desire" =>
         /\ caller'[c] = caller[c] /\ caller[c].link \in LinkIds
         /\ caller[c].link = i => caller[c].prod = r.product /\ caller[c].dev = r.dev

\* A link is written whose product and device no other has.
LEMMA OnceWritten ==
  ASSUME OnceInv, FleetRecords, LinksAlone', LinksAlone, NEW i \in LinkIds, NEW r \in LinkRecords,
         link' = [link EXCEPT ![i] = r], SoleLink(i, r), CallsAgree(i, r)
  PROVE  OnceInv'
<1> USE DEF SoleLink, CallsAgree
<1>0. r # NoLink /\ r.product # NoLink.product
  BY AbsentRecords, FleetAssumption DEF LinkRecords, NoLink
<1>1. \A l \in LinkIds : link'[l] = IF l = i THEN r ELSE link[l]
  BY DEF FleetRecords, FleetTypeOK
<1>2. ASSUME NEW k \in LinkIds, NEW l \in LinkIds, k # l,
             link'[k].product = link'[l].product, link'[k].dev = link'[l].dev
      PROVE  link'[k] = NoLink
  <2>1. CASE k # i /\ l # i
    BY <1>1, <1>2, <2>1 DEF OnceInv
  <2>2. CASE k = i
    <3>1. link[l] = NoLink /\ link'[l] = link[l]
      BY <1>1, <1>2, <2>2
    <3> QED BY <1>0, <1>1, <1>2, <2>2, <3>1
  <2>3. CASE l = i
    BY <1>1, <1>2, <2>3
  <2> QED BY <2>1, <2>2, <2>3
<1>3. ASSUME NEW c \in Callers, caller'[c].pc = "link", NEW l \in Links(caller[c].prod)'
      PROVE  link'[l].dev # caller'[c].dev
  <2>1. /\ l \in LinkIds /\ link'[l] # NoLink
        /\ caller'[c] = caller[c] /\ link'[l].product = caller[c].prod
    BY <1>3 DEF Links
  <2> QED BY <1>1, <1>3, <2>1 DEF OnceInv, Links
<1>4. ASSUME NEW c \in Callers, caller'[c].pc = "desire"
      PROVE  LET l == caller'[c].link IN
             link'[l] # NoLink /\ link'[l].product = caller'[c].prod
               /\ link'[l].dev = caller'[c].dev
  BY <1>0, <1>1, <1>4 DEF OnceInv
<1> QED BY <1>2, <1>3, <1>4 DEF OnceInv

LEMMA OnceNext ==
  ASSUME FleetRecords, FleetRecords', OnceInv, FleetNext
  PROVE  OnceInv'
<1>1. met \subseteq met' /\ (LinksAlone' => LinksAlone)
  BY FleetSteps, MetRecorded DEF LinksAlone
<1>2. ASSUME NEW c \in Callers, Begins(c)
      PROVE  OnceInv'
  <2>1. OnlyCall(c) /\ UNCHANGED link
    BY <1>2 DEF Begins, Began
  <2>2. \/ caller'[c].pc \notin {"link", "desire"}
        \/ /\ caller'[c].pc = "link"
           /\ \A l \in Links(caller'[c].prod) : link[l].dev # caller'[c].dev
        \/ /\ caller'[c].pc = "desire"
           /\ caller'[c].link \in Links(caller'[c].prod)
           /\ link[caller'[c].link].dev = caller'[c].dev
    BY <1>2 DEF Begins
  <2> QED BY <1>1, <2>1, <2>2, OnceKept DEF OnlyCall
<1>3. ASSUME NEW c \in Callers, Proceeds(c)
      PROVE  OnceInv'
  <2>1. CASE AddsLink(c)
    <3> SUFFICES ASSUME LinksAlone' PROVE OnceInv'
      BY DEF OnceInv
    <3> DEFINE r == [product |-> caller[c].prod, dev |-> caller[c].dev, desired |-> 0]
    <3>1. /\ caller[c].pc = "link" /\ caller[c].op = "add" /\ OnlyCall(c)
          /\ caller'[c].pc = "saveUnit"
      BY <2>1 DEF AddsLink
    <3>2. PICK i \in LinkIds : link[i] = NoLink /\ link' = [link EXCEPT ![i] = r]
      BY <2>1 DEF AddsLink
    <3>3. r \in LinkRecords /\ r.product = caller[c].prod /\ r.dev = caller[c].dev
      BY <2>1 DEF AddsLink, LinkRecords
    <3> HIDE DEF r
    <3>4. ASSUME NEW b \in Callers, caller'[b].pc = "link" PROVE FALSE
      <4>1. b # c /\ caller'[b] = caller[b]
        BY <3>1, <3>4 DEF OnlyCall
      <4>2. caller'[b].op = "add"
        BY <3>4, <4>1, OpsOfLabels
      <4>3. {"add", "add"} \in met'
        BY <1>1, <3>1, <4>1, <4>2, MetWith
      <4> QED BY <4>3 DEF LinksAlone
    <3>5. ASSUME NEW b \in Callers, caller'[b].pc = "desire"
          PROVE  caller'[b] = caller[b] /\ caller[b].link \in LinkIds /\ caller[b].link # i
      <4>1. caller'[b] = caller[b]
        BY <3>1, <3>5 DEF OnlyCall
      <4>2. link[caller[b].link] # NoLink
        BY <1>1, <3>5, <4>1 DEF OnceInv
      <4>3. caller[b].link \in LinkIds
        <5>1. Shape(caller[b])
          BY DEF FleetRecords
        <5> QED BY <3>5, <4>1, <5>1, AbsentRecords DEF Shape
      <4>4. caller[b].link # i
        BY <3>2, <4>2, Zenon
      <4> QED BY <4>1, <4>3, <4>4, Zenon
    <3>6. \A l \in LinkIds :
            link[l] # NoLink => ~(link[l].product = r.product /\ link[l].dev = r.dev)
      BY <1>1, <3>1, <3>3 DEF OnceInv, Links
    <3>7. SoleLink(i, r)
      BY <3>6 DEF SoleLink
    <3>8. CallsAgree(i, r)
      BY <3>4, <3>5 DEF CallsAgree
    <3>9. LinksAlone /\ link' = [link EXCEPT ![i] = r]
      BY <1>1, <3>2
    <3> QED BY <3>3, <3>7, <3>8, <3>9, OnceWritten
  <2>2. CASE SavesLink(c)
    <3> SUFFICES ASSUME LinksAlone' PROVE OnceInv'
      BY DEF OnceInv
    <3> DEFINE r == [product |-> caller[c].prod, dev |-> caller[c].dev, desired |-> 1]
               i == caller[c].link
    <3>1. /\ caller[c].pc = "desire" /\ OnlyCall(c) /\ caller'[c].pc = "idle"
          /\ i \in LinkIds /\ link' = [link EXCEPT ![i] = r]
      BY <2>2, AbsentRecords DEF SavesLink, Ended
    <3>2. r \in LinkRecords /\ r.product = caller[c].prod /\ r.dev = caller[c].dev
      BY <2>2 DEF SavesLink, LinkRecords
    <3> HIDE DEF r
    <3>3. link[i] # NoLink /\ link[i].product = r.product /\ link[i].dev = r.dev
      BY <1>1, <3>1, <3>2 DEF OnceInv
    <3>4. \A l \in LinkIds :
            l # i /\ link[l] # NoLink => ~(link[l].product = r.product /\ link[l].dev = r.dev)
      BY <1>1, <3>1, <3>3 DEF OnceInv
    <3>5. ASSUME NEW b \in Callers, caller'[b].pc = "link"
          PROVE  caller'[b] = caller[b] /\ ~(caller[b].prod = r.product /\ caller[b].dev = r.dev)
      <4>1. caller'[b] = caller[b]
        BY <3>1, <3>5 DEF OnlyCall
      <4> QED BY <1>1, <3>1, <3>3, <3>5, <4>1 DEF OnceInv, Links
    <3>6. ASSUME NEW b \in Callers, caller'[b].pc = "desire"
          PROVE  /\ caller'[b] = caller[b] /\ caller[b].link \in LinkIds
                 /\ caller[b].link = i => caller[b].prod = r.product /\ caller[b].dev = r.dev
      <4>1. caller'[b] = caller[b] /\ Shape(caller[b])
        BY <3>1, <3>6 DEF OnlyCall, FleetRecords
      <4>2. caller[b].link \in LinkIds
        BY <3>6, <4>1, AbsentRecords DEF Shape
      <4> QED BY <1>1, <3>3, <3>6, <4>1, <4>2 DEF OnceInv
    <3>7. SoleLink(i, r) /\ CallsAgree(i, r)
      BY <3>4, <3>5, <3>6 DEF SoleLink, CallsAgree
    <3> QED BY <1>1, <3>1, <3>2, <3>7, OnceWritten
  <2>3. CASE Unlinks(c) \/ DropsLink(c)
    <3>1. /\ OnlyCall(c) /\ caller[c].op \in {"delete", "remove"}
          /\ caller'[c].pc \in {"unlinkAll", "loadUnit"}
      BY <2>3 DEF Unlinks, DropsLink
    <3>2. \A l \in LinkIds : link'[l] = link[l] \/ link'[l] = NoLink
      BY <2>3 DEF Unlinks, DropsLink, FleetRecords, FleetTypeOK
    <3>3. ASSUME LinksAlone', NEW b \in Callers, caller'[b].pc = "desire"
          PROVE  FALSE
      <4>1. b # c /\ caller'[b] = caller[b]
        BY <3>1, <3>3 DEF OnlyCall
      <4>2. caller'[b].op = "desire"
        BY <3>3, <4>1, OpsOfLabels
      <4>3. {"desire", "delete"} \in met' \/ {"desire", "remove"} \in met'
        BY <1>1, <3>1, <4>1, <4>2, MetWith
      <4> QED BY <3>3, <4>3 DEF LinksAlone
    <3> QED BY <1>1, <3>1, <3>2, <3>3, OnceShrinks DEF OnlyCall
  <2>4. CASE UNCHANGED link /\ OnlyCall(c) /\ caller'[c].pc \notin {"link", "desire"}
    BY <1>1, <2>4, OnceKept DEF OnlyCall
  <2>5. \/ AddsLink(c) \/ SavesLink(c) \/ Unlinks(c) \/ DropsLink(c)
        \/ UNCHANGED link /\ OnlyCall(c) /\ caller'[c].pc \notin {"link", "desire"}
    BY <1>3, AbsentRecords DEF Proceeds, Fails, Refused, WritesProduct, RemovesProduct, SavesUnit,
       LoadsUnit, Records, UsesCode, Ended
  <2> QED BY <2>1, <2>2, <2>3, <2>4, <2>5
<1>4. ASSUME NEW k \in Codes, CodeMoves(k)
      PROVE  OnceInv'
  BY <1>1, <1>4, OnceKept DEF CodeMoves
<1> QED BY <1>2, <1>3, <1>4, FleetSteps

-----------------------------------------------------------------------------
(* Links and their products *)

\* No call that makes or saves links has met one that deletes their product.
LinksSafe == failed = 0 /\ met \cap {{"add", "delete"}, {"desire", "delete"}} = {}

Homed(p) == Exists(p) \/ \E c \in Callers : caller[c].op = "delete" /\ caller[c].prod = p

HomeInv ==
  LinksSafe =>
    /\ \A l \in LinkIds : link[l] # NoLink => Homed(link[l].product)
    /\ \A c \in Callers : caller[c].pc \in {"link", "desire"} => Exists(caller[c].prod)
    /\ \A c \in Callers :
         caller[c].pc = "unlinkAll" => Links(caller[c].prod) \subseteq caller[c].todo

\* Steps that remove neither a product nor the call that deletes it.
LEMMA HomeKept ==
  ASSUME HomeInv, LinksSafe' => LinksSafe,
         \A p \in ProductIds : product[p] # NoProduct => product'[p] # NoProduct,
         FleetRecords, FleetRecords',
         \A l \in LinkIds : link'[l] = link[l] \/ link'[l] = NoLink,
         \A c \in Callers : caller[c].op = "delete" =>
           caller'[c].op = "delete" /\ caller'[c].prod = caller[c].prod,
         LinksSafe' => \A c \in Callers :
           \/ caller'[c] = caller[c]
           \/ caller'[c].pc \notin {"link", "desire", "unlinkAll"}
           \/ caller'[c].pc \in {"link", "desire"} /\ product'[caller'[c].prod] # NoProduct
           \/ /\ caller'[c].pc = "unlinkAll"
              /\ \A l \in LinkIds :
                   link'[l] # NoLink /\ link'[l].product = caller'[c].prod
                     => l \in caller'[c].todo
  PROVE  HomeInv'
<1> SUFFICES ASSUME LinksSafe'
             PROVE  /\ \A l \in LinkIds : link'[l] # NoLink => Homed(link[l].product)'
                    /\ \A c \in Callers :
                         caller'[c].pc \in {"link", "desire"} => Exists(caller[c].prod)'
                    /\ \A c \in Callers :
                         caller'[c].pc = "unlinkAll" =>
                           Links(caller[c].prod)' \subseteq caller'[c].todo
  BY DEF HomeInv
<1>1. \A c \in Callers :
        caller[c].pc \in {"link", "desire"} =>
          caller[c].prod \in ProductIds /\ product[caller[c].prod] # NoProduct
  <2>1. \A c \in Callers : Shape(caller[c])
    BY DEF FleetRecords
  <2>2. \A c \in Callers :
          caller[c].pc \in {"link", "desire"} => caller[c].prod \in ProductIds
    BY <2>1, AbsentRecords DEF Shape
  <2> QED BY <2>2 DEF HomeInv, Exists
<1>2. ASSUME NEW l \in LinkIds, link'[l] # NoLink
      PROVE  Homed(link[l].product)'
  <2>1. link'[l] = link[l] /\ Homed(link[l].product)
    BY <1>2 DEF HomeInv
  <2>2. link[l].product \in ProductIds
    BY <1>2, <2>1 DEF FleetRecords, FleetTypeOK
  <2> QED BY <2>1, <2>2 DEF Homed, Exists
<1>3. ASSUME NEW c \in Callers, caller'[c].pc \in {"link", "desire"}
      PROVE  Exists(caller[c].prod)'
  BY <1>1, <1>3 DEF Exists
<1>4. ASSUME NEW c \in Callers, caller'[c].pc = "unlinkAll"
      PROVE  Links(caller[c].prod)' \subseteq caller'[c].todo
  <2>1. CASE caller'[c] = caller[c]
    <3>1. \A l \in LinkIds : link'[l] # NoLink => link'[l] = link[l]
      OBVIOUS
    <3>2. Links(caller[c].prod) \subseteq caller[c].todo
      BY <1>4, <2>1 DEF HomeInv
    <3> QED BY <2>1, <3>1, <3>2 DEF Links
  <2>2. CASE \A l \in LinkIds :
               link'[l] # NoLink /\ link'[l].product = caller'[c].prod => l \in caller'[c].todo
    BY <2>2 DEF Links
  <2> QED BY <1>4, <2>1, <2>2
<1> QED BY <1>2, <1>3, <1>4

\* A link of a product that exists is written while no call deletes a product.
LEMMA HomeWritten ==
  ASSUME HomeInv, LinksSafe, LinksSafe', FleetRecords, NEW c \in Callers, OnlyCall(c),
         caller[c].pc \in {"link", "desire"}, caller'[c].pc \in {"idle", "saveUnit"},
         \A b \in Callers : b # c => caller'[b].op # "delete",
         UNCHANGED product, NEW i \in LinkIds, NEW r \in LinkRecords,
         r.product = caller[c].prod, link' = [link EXCEPT ![i] = r]
  PROVE  HomeInv'
<1>1. \A l \in LinkIds : link'[l] = IF l = i THEN r ELSE link[l]
  BY DEF FleetRecords, FleetTypeOK
<1>2. \A b \in Callers : b # c => caller'[b] = caller[b]
  BY DEF OnlyCall
<1>3. Exists(r.product)
  BY DEF HomeInv
<1>4. caller[c].op # "delete"
  BY OpsOfLabels
<1>5. ASSUME NEW l \in LinkIds, link'[l] # NoLink
      PROVE  Homed(link[l].product)'
  <2>1. CASE l = i
    BY <1>1, <1>3, <2>1 DEF Homed, Exists
  <2>2. CASE l # i
    <3>1. link'[l] = link[l] /\ Homed(link[l].product)
      BY <1>1, <1>5, <2>2 DEF HomeInv
    <3>2. \A b \in Callers : caller[b].op = "delete" => caller'[b] = caller[b]
      BY <1>2, <1>4
    <3> QED BY <3>1, <3>2 DEF Homed, Exists
  <2> QED BY <2>1, <2>2
<1>6. ASSUME NEW b \in Callers, caller'[b].pc \in {"link", "desire"}
      PROVE  Exists(caller[b].prod)'
  <2>1. caller'[b] = caller[b]
    BY <1>2, <1>6
  <2> QED BY <1>6, <2>1 DEF HomeInv, Exists
<1>7. ASSUME NEW b \in Callers, caller'[b].pc = "unlinkAll"
      PROVE  FALSE
  <2>1. b # c /\ caller'[b] = caller[b]
    BY <1>2, <1>7
  <2> QED BY <1>7, <2>1, OpsOfLabels
<1> QED BY <1>5, <1>6, <1>7 DEF HomeInv

LEMMA HomeNext ==
  ASSUME FleetRecords, FleetRecords', HomeInv, FleetNext
  PROVE  HomeInv'
<1>1. met \subseteq met'
  BY FleetSteps, MetRecorded
<1>2. ASSUME NEW c \in Callers, Begins(c)
      PROVE  HomeInv'
  <2>1. /\ OnlyCall(c) /\ UNCHANGED <<product, link, failed>> /\ caller[c].op = "none"
    BY <1>2, AbsentRecords DEF Begins, Began
  <2>2. LinksSafe' => LinksSafe
    BY <1>1, <2>1 DEF LinksSafe
  <2>3. \A b \in Callers : caller[b].op = "delete" => caller'[b] = caller[b]
    BY <2>1 DEF OnlyCall
  <2>4. \/ caller'[c].pc \notin {"link", "desire", "unlinkAll"}
        \/ caller'[c].pc \in {"link", "desire"} /\ product'[caller'[c].prod] # NoProduct
        \/ /\ caller'[c].pc = "unlinkAll"
           /\ \A l \in LinkIds :
                link'[l] # NoLink /\ link'[l].product = caller'[c].prod
                  => l \in caller'[c].todo
    BY <1>2, <2>1 DEF Begins, Exists, Links
  <2> QED BY <2>1, <2>2, <2>3, <2>4, HomeKept DEF OnlyCall
<1>3. ASSUME NEW c \in Callers, Proceeds(c)
      PROVE  HomeInv'
  <2> SUFFICES ASSUME LinksSafe' PROVE HomeInv'
    BY DEF HomeInv
  <2>1. failed' = 0 /\ failed \in Nat
    BY DEF LinksSafe, FleetRecords
  <2>2. failed' = failed + 1 => FALSE
    BY <2>1
  <2>3. CASE Unlinks(c)
    <3>1. PICK l \in caller[c].todo :
            /\ l \in LinkIds
            /\ caller'[c].todo = caller[c].todo \ {l}
            /\ link' = [link EXCEPT ![l] = NoLink] /\ UNCHANGED failed
      BY <2>2, <2>3 DEF Unlinks
    <3>2. /\ OnlyCall(c) /\ UNCHANGED product
          /\ caller[c].pc = "unlinkAll" /\ caller'[c].pc = "unlinkAll"
          /\ caller'[c].op = caller[c].op /\ caller'[c].prod = caller[c].prod
      BY <2>3 DEF Unlinks
    <3>3. LinksSafe
      BY <1>1, <3>1 DEF LinksSafe
    <3>4. \A i \in LinkIds : link'[i] = IF i = l THEN NoLink ELSE link[i]
      BY <3>1 DEF FleetRecords, FleetTypeOK
    <3>5. \A i \in LinkIds :
            link'[i] # NoLink /\ link'[i].product = caller'[c].prod => i \in caller'[c].todo
      <4>1. Links(caller[c].prod) \subseteq caller[c].todo
        BY <3>2, <3>3 DEF HomeInv
      <4> QED BY <3>1, <3>2, <3>4, <4>1 DEF Links
    <3> QED BY <3>2, <3>3, <3>4, <3>5, HomeKept DEF OnlyCall
  <2>4. CASE RemovesProduct(c)
    <3> DEFINE p == caller[c].prod
    <3>1. /\ caller[c].pc = "unlinkAll" /\ caller[c].op = "delete" /\ caller[c].todo = {}
          /\ p \in ProductIds /\ OnlyCall(c) /\ caller'[c].pc = "idle"
          /\ UNCHANGED <<link, failed>>
      BY <2>4, AbsentRecords DEF RemovesProduct, Ended
    <3>2. LinksSafe
      BY <1>1, <3>1 DEF LinksSafe
    <3>3. Links(p) = {}
      BY <3>1, <3>2 DEF HomeInv
    <3>4. \A q \in ProductIds : q # p => product'[q] = product[q]
      BY <2>4 DEF RemovesProduct, FleetRecords, FleetTypeOK
    <3>5. \A b \in Callers : b # c => caller'[b] = caller[b]
      BY <3>1 DEF OnlyCall
    <3>6. ASSUME NEW l \in LinkIds, link'[l] # NoLink
          PROVE  Homed(link[l].product)'
      <4>1. link'[l] = link[l] /\ link[l].product \in ProductIds
        BY <3>1, <3>6 DEF FleetRecords, FleetTypeOK
      <4>2. link[l].product # p /\ Homed(link[l].product)
        BY <3>2, <3>3, <3>6, <4>1 DEF Links, HomeInv
      <4> QED BY <3>4, <3>5, <4>1, <4>2 DEF Homed, Exists
    <3>7. ASSUME NEW b \in Callers, caller'[b].pc \in {"link", "desire"}
          PROVE  FALSE
      <4>1. b # c /\ caller'[b] = caller[b]
        BY <3>1, <3>5, <3>7
      <4>2. caller'[b].op \in {"add", "desire"}
        BY <3>7, <4>1, OpsOfLabels
      <4>3. {caller'[b].op, "delete"} \in met'
        BY <1>1, <3>1, <4>1, <4>2, MetWith
      <4> QED BY <4>2, <4>3 DEF LinksSafe
    <3>8. ASSUME NEW b \in Callers, caller'[b].pc = "unlinkAll"
          PROVE  Links(caller[b].prod)' \subseteq caller'[b].todo
      <4>1. caller'[b] = caller[b]
        BY <3>1, <3>5, <3>8
      <4> QED BY <3>1, <3>2, <3>8, <4>1 DEF HomeInv, Links
    <3> QED BY <3>6, <3>7, <3>8 DEF HomeInv
  <2>5. CASE AddsLink(c) \/ SavesLink(c)
    <3>1. /\ OnlyCall(c) /\ UNCHANGED <<product, failed>>
          /\ caller[c].pc \in {"link", "desire"} /\ caller'[c].pc \in {"idle", "saveUnit"}
          /\ caller[c].op \in {"add", "desire"}
      BY <2>5, AbsentRecords DEF AddsLink, SavesLink, Ended
    <3>2. \E i \in LinkIds, r \in LinkRecords :
            r.product = caller[c].prod /\ link' = [link EXCEPT ![i] = r]
      <4>1. caller[c].prod \in ProductIds /\ caller[c].dev \in FleetDevices
        BY <2>5 DEF AddsLink, SavesLink
      <4>2. \A x \in {0, 1} :
              [product |-> caller[c].prod, dev |-> caller[c].dev, desired |-> x] \in LinkRecords
        BY <4>1 DEF LinkRecords
      <4> QED BY <2>5, <4>2 DEF AddsLink, SavesLink
    <3>3. LinksSafe
      BY <1>1, <3>1 DEF LinksSafe
    <3>4. ASSUME NEW b \in Callers, b # c, caller'[b].op = "delete" PROVE FALSE
      <4>1. {caller'[b].op, caller[c].op} \in met'
        BY <1>1, <3>1, <3>4, MetWith
      <4> QED BY <3>1, <3>4, <4>1 DEF LinksSafe
    <3> QED BY <3>1, <3>2, <3>3, <3>4, HomeWritten
  <2>6. CASE /\ OnlyCall(c) /\ UNCHANGED failed /\ caller[c].op # "delete"
             /\ caller'[c].pc \notin {"link", "desire", "unlinkAll"}
             /\ \A p \in ProductIds : product[p] # NoProduct => product'[p] # NoProduct
             /\ \A l \in LinkIds : link'[l] = link[l] \/ link'[l] = NoLink
    <3>1. LinksSafe
      BY <1>1, <2>6 DEF LinksSafe
    <3> QED BY <2>6, <3>1, HomeKept DEF OnlyCall
  <2>7. \/ Unlinks(c) \/ RemovesProduct(c) \/ AddsLink(c) \/ SavesLink(c)
        \/ /\ OnlyCall(c) /\ UNCHANGED failed /\ caller[c].op # "delete"
           /\ caller'[c].pc \notin {"link", "desire", "unlinkAll"}
           /\ \A p \in ProductIds : product[p] # NoProduct => product'[p] # NoProduct
           /\ \A l \in LinkIds : link'[l] = link[l] \/ link'[l] = NoLink
    <3>1. CASE WritesProduct(c)
      <4>1. \A p \in ProductIds : product[p] # NoProduct => product'[p] # NoProduct
        BY <3>1, AbsentRecords DEF WritesProduct, FleetRecords, FleetTypeOK, ProductRecords
      <4> QED BY <3>1, <4>1, AbsentRecords DEF WritesProduct, Ended
    <3>2. CASE DropsLink(c)
      <4>1. \A l \in LinkIds : link'[l] = link[l] \/ link'[l] = NoLink
        BY <3>2 DEF DropsLink, FleetRecords, FleetTypeOK
      <4> QED BY <3>2, <4>1 DEF DropsLink
    <3>3. CASE Refused(c)
      BY <3>3, OpsOfLabels, AbsentRecords DEF Refused, Ended, RecordOps
    <3>4. CASE SavesUnit(c) \/ LoadsUnit(c) \/ Records(c) \/ UsesCode(c)
      BY <3>4, AbsentRecords DEF SavesUnit, LoadsUnit, Records, UsesCode, Ended, RecordOps
    <3> QED BY <1>3, <2>2, <3>1, <3>2, <3>3, <3>4 DEF Proceeds, Fails
  <2> QED BY <2>3, <2>4, <2>5, <2>6, <2>7
<1>4. ASSUME NEW k \in Codes, CodeMoves(k)
      PROVE  HomeInv'
  <2>1. UNCHANGED <<product, link, caller, failed>> /\ (LinksSafe' => LinksSafe)
    BY <1>1, <1>4 DEF CodeMoves, LinksSafe
  <2> QED BY <2>1, HomeKept
<1> QED BY <1>2, <1>3, <1>4, FleetSteps

-----------------------------------------------------------------------------
(* Claim codes *)

\* No two Provision calls have overlapped, and no save has failed.
CodesSafe == failed = 0 /\ {"provision"} \notin met

CodeInv ==
  CodesSafe =>
    /\ \A k \in Codes : claimed[k] = {} \/ \E d \in FleetDevices : claimed[k] = {d}
    /\ \A k \in Codes :
         code[k].state = "open" /\ claimed[k] # {} =>
           \E c \in Callers : caller[c].pc = "useCode" /\ caller[c].code = k
    /\ \A k \in Codes :
         code[k].state = "none" =>
           claimed[k] = {} /\ \A c \in Callers : caller[c].op = "provision" => caller[c].code # k
    /\ \A c \in Callers :
         caller[c].pc = "record" /\ caller[c].op = "provision" => claimed[caller[c].code] = {}

\* Steps that have nothing to do with a claim code.
LEMMA CodesKept ==
  ASSUME CodeInv, CodesSafe' => CodesSafe, UNCHANGED <<code, claimed>>,
         \A c \in Callers : caller[c].pc = "useCode" => caller'[c] = caller[c],
         \A c \in Callers : caller'[c] = caller[c] \/ caller'[c].op # "provision"
  PROVE  CodeInv'
<1> SUFFICES ASSUME CodesSafe'
             PROVE  /\ \A k \in Codes :
                         claimed[k] = {} \/ \E d \in FleetDevices : claimed[k] = {d}
                    /\ \A k \in Codes :
                         code[k].state = "open" /\ claimed[k] # {} =>
                           \E c \in Callers : caller'[c].pc = "useCode" /\ caller'[c].code = k
                    /\ \A k \in Codes :
                         code[k].state = "none" =>
                           /\ claimed[k] = {}
                           /\ \A c \in Callers :
                                caller'[c].op = "provision" => caller'[c].code # k
                    /\ \A c \in Callers :
                         caller'[c].pc = "record" /\ caller'[c].op = "provision" =>
                           claimed[caller'[c].code] = {}
  BY DEF CodeInv
<1>1. \A k \in Codes : claimed[k] = {} \/ \E d \in FleetDevices : claimed[k] = {d}
  BY DEF CodeInv
<1>2. ASSUME NEW k \in Codes, code[k].state = "open", claimed[k] # {}
      PROVE  \E c \in Callers : caller'[c].pc = "useCode" /\ caller'[c].code = k
  <2>1. PICK c \in Callers : caller[c].pc = "useCode" /\ caller[c].code = k
    BY <1>2 DEF CodeInv
  <2>2. caller'[c] = caller[c]
    BY <2>1
  <2> QED BY <2>1, <2>2
<1>3. ASSUME NEW k \in Codes, code[k].state = "none"
      PROVE  /\ claimed[k] = {}
             /\ \A c \in Callers : caller'[c].op = "provision" => caller'[c].code # k
  BY <1>3 DEF CodeInv
<1>4. ASSUME NEW c \in Callers, caller'[c].pc = "record", caller'[c].op = "provision"
      PROVE  claimed[caller'[c].code] = {}
  BY <1>4 DEF CodeInv
<1> QED BY <1>1, <1>2, <1>3, <1>4

LEMMA CodeNext ==
  ASSUME FleetRecords, FleetRecords', CodeInv, FleetNext
  PROVE  CodeInv'
<1>1. met \subseteq met'
  BY FleetSteps, MetRecorded
<1>2. ASSUME NEW c \in Callers, Begins(c)
      PROVE  CodeInv'
  <2>1. /\ OnlyCall(c) /\ UNCHANGED <<code, claimed, failed>> /\ caller[c] = NoCall
        /\ (CodesSafe' => CodesSafe)
    BY <1>1, <1>2 DEF Begins, Began, CodesSafe
  <2>2. CASE caller'[c].op # "provision"
    BY <2>1, <2>2, AbsentRecords, CodesKept DEF OnlyCall
  <2>3. CASE caller'[c].op = "provision"
    <3> SUFFICES ASSUME CodesSafe' PROVE CodeInv'
      BY DEF CodeInv
    <3> DEFINE j == caller'[c].code
    <3>1. /\ caller'[c].pc = "record" /\ j \in Codes /\ code[j].state = "open"
      BY <1>2, <2>3 DEF Begins
    <3>2. \A b \in Callers : b # c => caller'[b] = caller[b]
      BY <2>1 DEF OnlyCall
    <3>3. ASSUME NEW b \in Callers, caller[b].op = "provision"
          PROVE  FALSE
      <4>1. b # c /\ caller'[b].op = "provision"
        BY <2>1, <3>2, <3>3, AbsentRecords
      <4>2. {"provision", "provision"} \in met'
        BY <2>3, <4>1 DEF FleetRecords
      <4> QED BY <4>2 DEF CodesSafe
    <3>4. \A b \in Callers : caller[b].pc # "useCode"
      BY <3>3, OpsOfLabels
    <3>5. claimed[j] = {}
      BY <2>1, <3>1, <3>4 DEF CodeInv
    <3>6. \A b \in Callers : caller'[b].op = "provision" => b = c
      BY <3>2, <3>3
    <3>7. /\ \A k \in Codes : claimed'[k] = {} \/ \E d \in FleetDevices : claimed'[k] = {d}
          /\ \A k \in Codes : code'[k].state = "open" => claimed'[k] = {}
          /\ \A k \in Codes : code'[k].state = "none" => claimed'[k] = {}
      BY <2>1, <3>4 DEF CodeInv
    <3>8. \A k \in Codes :
            code'[k].state = "none" =>
              \A b \in Callers : caller'[b].op = "provision" => caller'[b].code # k
      BY <2>1, <3>1, <3>6
    <3>9. \A b \in Callers :
            caller'[b].pc = "record" /\ caller'[b].op = "provision"
              => claimed'[caller'[b].code] = {}
      BY <2>1, <3>5, <3>6
    <3> QED BY <3>7, <3>8, <3>9 DEF CodeInv
  <2> QED BY <2>2, <2>3
<1>3. ASSUME NEW c \in Callers, Proceeds(c)
      PROVE  CodeInv'
  <2> SUFFICES ASSUME CodesSafe' PROVE CodeInv'
    BY DEF CodeInv
  <2>1. failed' = failed + 1 => FALSE
    BY DEF CodesSafe, FleetRecords
  <2>2. CASE caller[c].op = "provision" /\ Records(c)
    <3> DEFINE w == caller[c]
    <3>1. /\ w.pc = "record" /\ w.dev \in FleetDevices /\ w.code \in Codes
          /\ claimed' = [claimed EXCEPT ![w.code] = @ \union {w.dev}]
          /\ OnlyCall(c) /\ caller'[c].pc = "useCode" /\ caller'[c].op = "provision"
          /\ caller'[c].code = w.code
          /\ UNCHANGED <<code, failed>>
      BY <2>2 DEF Records
    <3>2. CodesSafe
      BY <1>1, <3>1 DEF CodesSafe
    <3>3. claimed[w.code] = {}
      BY <2>2, <3>1, <3>2 DEF CodeInv
    <3>4. \A k \in Codes : claimed'[k] = IF k = w.code THEN {w.dev} ELSE claimed[k]
      BY <3>1, <3>3 DEF FleetRecords
    <3>5. \A b \in Callers : b # c => caller'[b] = caller[b]
      BY <3>1 DEF OnlyCall
    <3>6. ASSUME NEW b \in Callers, b # c, caller'[b].op = "provision"
          PROVE  FALSE
      <4>1. {caller'[b].op, caller[c].op} \in met'
        BY <1>1, <2>2, <3>1, <3>6, MetWith
      <4> QED BY <2>2, <3>6, <4>1 DEF CodesSafe
    <3>7. \A k \in Codes : claimed'[k] = {} \/ \E d \in FleetDevices : claimed'[k] = {d}
      BY <3>1, <3>2, <3>4 DEF CodeInv
    <3>8. ASSUME NEW k \in Codes, code'[k].state = "open", claimed'[k] # {}
          PROVE  \E b \in Callers : caller'[b].pc = "useCode" /\ caller'[b].code = k
      <4>1. CASE k = w.code
        BY <3>1, <4>1
      <4>2. CASE k # w.code
        <5>1. PICK b \in Callers : caller[b].pc = "useCode" /\ caller[b].code = k
          BY <3>1, <3>2, <3>4, <3>8, <4>2 DEF CodeInv
        <5>2. b # c
          BY <3>1, <5>1
        <5> QED BY <3>5, <5>1, <5>2
      <4> QED BY <4>1, <4>2
    <3>9. ASSUME NEW k \in Codes, code'[k].state = "none"
          PROVE  /\ claimed'[k] = {}
                 /\ \A b \in Callers : caller'[b].op = "provision" => caller'[b].code # k
      <4>1. /\ claimed[k] = {}
            /\ \A b \in Callers : caller[b].op = "provision" => caller[b].code # k
        BY <3>1, <3>2, <3>9 DEF CodeInv
      <4>2. k # w.code
        BY <2>2, <4>1
      <4> QED BY <3>1, <3>4, <3>5, <4>1, <4>2
    <3>10. \A b \in Callers :
             ~(caller'[b].pc = "record" /\ caller'[b].op = "provision")
      BY <3>1, <3>6
    <3> QED BY <3>7, <3>8, <3>9, <3>10 DEF CodeInv
  <2>3. CASE UsesCode(c)
    <3> DEFINE j == caller[c].code
    <3>1. /\ caller[c].pc = "useCode" /\ j \in Codes /\ OnlyCall(c)
          /\ caller'[c] = NoCall /\ UNCHANGED <<claimed, failed>>
      BY <2>3 DEF UsesCode, Ended
    <3>2. CodesSafe
      BY <1>1, <3>1 DEF CodesSafe
    <3>3. /\ \A k \in Codes : k # j => code'[k] = code[k]
          /\ code'[j].state = "used"
      <4>1. code[j] \in CodeRecords
        BY <3>1 DEF FleetRecords
      <4>2. code' = [code EXCEPT ![j] = [@ EXCEPT !.state = "used"]]
        BY <2>3 DEF UsesCode
      <4> QED BY <3>1, <4>1, <4>2 DEF FleetRecords, CodeRecords
    <3>4. \A b \in Callers : b # c => caller'[b] = caller[b]
      BY <3>1 DEF OnlyCall
    <3>5. ASSUME NEW k \in Codes, code'[k].state = "open", claimed'[k] # {}
          PROVE  \E b \in Callers : caller'[b].pc = "useCode" /\ caller'[b].code = k
      <4>1. k # j /\ code[k].state = "open"
        BY <3>3, <3>5
      <4>2. PICK b \in Callers : caller[b].pc = "useCode" /\ caller[b].code = k
        BY <3>1, <3>2, <3>5, <4>1 DEF CodeInv
      <4>3. b # c
        BY <4>1, <4>2
      <4> QED BY <3>4, <4>2, <4>3
    <3>6. ASSUME NEW k \in Codes, code'[k].state = "none"
          PROVE  /\ claimed'[k] = {}
                 /\ \A b \in Callers : caller'[b].op = "provision" => caller'[b].code # k
      <4>1. code[k].state = "none"
        BY <3>3, <3>6
      <4>2. /\ claimed[k] = {}
            /\ \A b \in Callers : caller[b].op = "provision" => caller[b].code # k
        BY <3>2, <4>1 DEF CodeInv
      <4> QED BY <3>1, <3>4, <4>2, AbsentRecords
    <3>7. /\ \A k \in Codes : claimed'[k] = {} \/ \E d \in FleetDevices : claimed'[k] = {d}
          /\ \A b \in Callers :
               caller'[b].pc = "record" /\ caller'[b].op = "provision"
                 => claimed'[caller'[b].code] = {}
      BY <3>1, <3>2, <3>4, AbsentRecords DEF CodeInv
    <3> QED BY <3>5, <3>6, <3>7 DEF CodeInv
  <2>4. CASE /\ OnlyCall(c) /\ UNCHANGED <<code, claimed, failed>>
             /\ caller[c].pc # "useCode" /\ caller'[c].op # "provision"
    <3>1. CodesSafe
      BY <1>1, <2>4 DEF CodesSafe
    <3> QED BY <2>4, <3>1, CodesKept DEF OnlyCall
  <2>5. \/ caller[c].op = "provision" /\ Records(c)
        \/ UsesCode(c)
        \/ /\ OnlyCall(c) /\ UNCHANGED <<code, claimed, failed>>
           /\ caller[c].pc # "useCode" /\ caller'[c].op # "provision"
    <3>1. CASE Refused(c) \/ WritesProduct(c) \/ RemovesProduct(c) \/ SavesUnit(c) \/ SavesLink(c)
      BY <3>1, OpsOfLabels, AbsentRecords
         DEF Refused, WritesProduct, RemovesProduct, SavesUnit, SavesLink, Ended
    <3>2. CASE Unlinks(c) \/ AddsLink(c) \/ DropsLink(c) \/ LoadsUnit(c)
      BY <2>1, <3>2, AbsentRecords DEF Unlinks, AddsLink, DropsLink, LoadsUnit, Ended
    <3>3. CASE Records(c)
      BY <3>3, AbsentRecords DEF Records, Ended
    <3> QED BY <1>3, <2>1, <3>1, <3>2, <3>3 DEF Proceeds, Fails
  <2> QED BY <2>2, <2>3, <2>4, <2>5
<1>4. ASSUME NEW j \in Codes, CodeMoves(j)
      PROVE  CodeInv'
  <2> SUFFICES ASSUME CodesSafe' PROVE CodeInv'
    BY DEF CodeInv
  <2>1. /\ UNCHANGED <<caller, claimed, failed>>
        /\ \A k \in Codes : k # j => code'[k] = code[k]
        /\ \/ code[j].state = "none" /\ code'[j].state = "open"
           \/ code[j].state = "open" /\ code'[j].state = "expired"
    BY <1>4 DEF CodeMoves
  <2>2. CodesSafe
    BY <1>1, <2>1 DEF CodesSafe
  <2>3. \A k \in Codes : code'[k].state = "none" => code[k].state = "none"
    BY <2>1
  <2>4. \A k \in Codes :
          code'[k].state = "open" /\ claimed[k] # {} => code[k].state = "open"
    BY <2>1, <2>2 DEF CodeInv
  <2> QED BY <2>1, <2>2, <2>3, <2>4 DEF CodeInv
<1> QED BY <1>2, <1>3, <1>4, FleetSteps

-----------------------------------------------------------------------------
(* The links that calls hold *)

Holds(c, l) ==
  \/ caller[c].pc \in {"desire", "unlink"} /\ caller[c].link = l
  \/ caller[c].pc = "unlinkAll" /\ l \in caller[c].todo

\* A link that a call holds is of the call's product and device as long as it exists, and
\* the calls that hold it agree on them.
HeldInv ==
  /\ \A c \in Callers, l \in LinkIds :
       Holds(c, l) /\ link[l] # NoLink =>
         /\ link[l].product = caller[c].prod
         /\ caller[c].pc # "unlinkAll" => link[l].dev = caller[c].dev
  /\ \A b, c \in Callers, l \in LinkIds :
       Holds(b, l) /\ Holds(c, l) =>
         /\ caller[b].prod = caller[c].prod
         /\ caller[b].pc # "unlinkAll" /\ caller[c].pc # "unlinkAll"
              => caller[b].dev = caller[c].dev

\* Steps in which no call takes a link.
LEMMA HeldKept ==
  ASSUME HeldInv,
         \A l \in LinkIds :
           \/ link'[l] = link[l]
           \/ link'[l] = NoLink
           \/ \A b \in Callers : Holds(b, l) =>
                /\ link'[l].product = caller[b].prod
                /\ caller[b].pc # "unlinkAll" => link'[l].dev = caller[b].dev,
         \A c \in Callers :
           \/ caller'[c] = caller[c]
           \/ caller'[c].pc \notin {"desire", "unlink", "unlinkAll"}
           \/ /\ caller[c].pc = "unlinkAll" /\ caller'[c].pc = "unlinkAll"
              /\ caller'[c].todo \subseteq caller[c].todo /\ caller'[c].prod = caller[c].prod
  PROVE  HeldInv'
<1>1. ASSUME NEW c \in Callers, NEW l \in LinkIds, Holds(c, l)'
      PROVE  /\ Holds(c, l) /\ caller'[c].pc = caller[c].pc
             /\ caller'[c].prod = caller[c].prod
             /\ caller'[c].pc # "unlinkAll" => caller'[c].dev = caller[c].dev
  BY <1>1 DEF Holds
<1>2. ASSUME NEW c \in Callers, NEW l \in LinkIds, Holds(c, l)', link'[l] # NoLink
      PROVE  /\ link'[l].product = caller'[c].prod
             /\ caller'[c].pc # "unlinkAll" => link'[l].dev = caller'[c].dev
  BY <1>1, <1>2 DEF HeldInv
<1>3. ASSUME NEW b \in Callers, NEW c \in Callers, NEW l \in LinkIds, Holds(b, l)', Holds(c, l)'
      PROVE  /\ caller'[b].prod = caller'[c].prod
             /\ caller'[b].pc # "unlinkAll" /\ caller'[c].pc # "unlinkAll"
                  => caller'[b].dev = caller'[c].dev
  <2>1. /\ caller[b].prod = caller[c].prod
        /\ caller[b].pc # "unlinkAll" /\ caller[c].pc # "unlinkAll"
             => caller[b].dev = caller[c].dev
    BY <1>1, <1>3 DEF HeldInv
  <2> QED BY <1>1, <1>3, <2>1
<1> QED BY <1>2, <1>3 DEF HeldInv

\* A call takes links as they are.
LEMMA HeldTaken ==
  ASSUME HeldInv, UNCHANGED link, NEW c \in Callers, OnlyCall(c),
         \A l \in LinkIds : Holds(c, l)' =>
           /\ link[l] # NoLink /\ link[l].product = caller'[c].prod
           /\ caller'[c].pc # "unlinkAll" => link[l].dev = caller'[c].dev
  PROVE  HeldInv'
<1>1. \A b \in Callers : b # c => caller'[b] = caller[b]
  BY DEF OnlyCall
<1>2. ASSUME NEW b \in Callers, NEW l \in LinkIds, Holds(b, l)', link'[l] # NoLink
      PROVE  /\ link'[l].product = caller'[b].prod
             /\ caller'[b].pc # "unlinkAll" => link'[l].dev = caller'[b].dev
  <2>1. CASE b = c
    BY <1>2, <2>1
  <2>2. CASE b # c
    <3>1. caller'[b] = caller[b] /\ Holds(b, l)
      BY <1>1, <1>2, <2>2 DEF Holds
    <3> QED BY <1>2, <3>1 DEF HeldInv
  <2> QED BY <2>1, <2>2
<1>3. ASSUME NEW a \in Callers, NEW b \in Callers, NEW l \in LinkIds, Holds(a, l)', Holds(b, l)'
      PROVE  /\ caller'[a].prod = caller'[b].prod
             /\ caller'[a].pc # "unlinkAll" /\ caller'[b].pc # "unlinkAll"
                  => caller'[a].dev = caller'[b].dev
  <2>1. CASE a = c \/ b = c
    <3>1. link'[l] # NoLink
      BY <1>3, <2>1
    <3> QED BY <1>2, <1>3, <3>1
  <2>2. CASE a # c /\ b # c
    <3>1. caller'[a] = caller[a] /\ caller'[b] = caller[b] /\ Holds(a, l) /\ Holds(b, l)
      BY <1>1, <1>3, <2>2 DEF Holds
    <3> QED BY <3>1 DEF HeldInv
  <2> QED BY <2>1, <2>2
<1> QED BY <1>2, <1>3 DEF HeldInv

LEMMA HeldNext ==
  ASSUME FleetRecords, FleetRecords', HeldInv, FleetNext
  PROVE  HeldInv'
<1>1. ASSUME NEW c \in Callers, Begins(c)
      PROVE  HeldInv'
  <2>1. OnlyCall(c) /\ UNCHANGED link
    BY <1>1 DEF Begins, Began
  <2>2. \A l \in LinkIds : Holds(c, l)' =>
          /\ link[l] # NoLink /\ link[l].product = caller'[c].prod
          /\ caller'[c].pc # "unlinkAll" => link[l].dev = caller'[c].dev
    BY <1>1 DEF Begins, Holds, Links
  <2> QED BY <2>1, <2>2, HeldTaken
<1>2. ASSUME NEW c \in Callers, Proceeds(c)
      PROVE  HeldInv'
  <2>1. CASE AddsLink(c) \/ SavesLink(c)
    <3>1. OnlyCall(c) /\ caller'[c].pc \in {"saveUnit", "idle"}
      BY <2>1, AbsentRecords DEF AddsLink, SavesLink, Ended
    <3>2. ASSUME NEW l \in LinkIds
          PROVE  \/ link'[l] = link[l]
                 \/ \A b \in Callers : Holds(b, l) =>
                      /\ link'[l].product = caller[b].prod
                      /\ caller[b].pc # "unlinkAll" => link'[l].dev = caller[b].dev
      <4>1. CASE AddsLink(c)
        <5>1. PICK i \in LinkIds, r \in [product : {caller[c].prod}, dev : {caller[c].dev},
                                         desired : {0}] :
                /\ \A b \in Callers : caller[b].link # i /\ i \notin caller[b].todo
                /\ link' = [link EXCEPT ![i] = r]
          BY <4>1 DEF AddsLink
        <5>2. \A b \in Callers : ~Holds(b, i)
          BY <5>1 DEF Holds
        <5>3. l # i => link'[l] = link[l]
          BY <5>1 DEF FleetRecords, FleetTypeOK
        <5> QED BY <5>2, <5>3
      <4>2. CASE SavesLink(c)
        <5> DEFINE i == caller[c].link
                   r == [product |-> caller[c].prod, dev |-> caller[c].dev, desired |-> 1]
        <5>1. i \in LinkIds /\ link' = [link EXCEPT ![i] = r] /\ Holds(c, i)
              /\ caller[c].pc = "desire"
          BY <4>2 DEF SavesLink, Holds
        <5>2. r.product = caller[c].prod /\ r.dev = caller[c].dev
          OBVIOUS
        <5> HIDE DEF r
        <5>3. link'[l] = IF l = i THEN r ELSE link[l]
          BY <5>1 DEF FleetRecords, FleetTypeOK
        <5>4. \A b \in Callers : Holds(b, i) =>
                /\ r.product = caller[b].prod
                /\ caller[b].pc # "unlinkAll" => r.dev = caller[b].dev
          BY <5>1, <5>2 DEF HeldInv
        <5> QED BY <5>3, <5>4
      <4> QED BY <2>1, <4>1, <4>2
    <3> QED BY <3>1, <3>2, HeldKept DEF OnlyCall
  <2>2. CASE Unlinks(c)
    <3>1. /\ OnlyCall(c) /\ caller[c].pc = "unlinkAll" /\ caller'[c].pc = "unlinkAll"
          /\ caller'[c].todo \subseteq caller[c].todo /\ caller'[c].prod = caller[c].prod
      BY <2>2 DEF Unlinks
    <3>2. \A l \in LinkIds : link'[l] = link[l] \/ link'[l] = NoLink
      BY <2>2 DEF Unlinks, FleetRecords, FleetTypeOK
    <3> QED BY <3>1, <3>2, HeldKept DEF OnlyCall
  <2>3. CASE DropsLink(c)
    <3>1. OnlyCall(c) /\ caller'[c].pc = "loadUnit"
      BY <2>3 DEF DropsLink
    <3>2. \A l \in LinkIds : link'[l] = link[l] \/ link'[l] = NoLink
      BY <2>3 DEF DropsLink, FleetRecords, FleetTypeOK
    <3> QED BY <3>1, <3>2, HeldKept DEF OnlyCall
  <2>4. CASE /\ OnlyCall(c) /\ UNCHANGED link
             /\ caller'[c].pc \notin {"desire", "unlink", "unlinkAll"}
    BY <2>4, HeldKept DEF OnlyCall
  <2>5. \/ AddsLink(c) \/ SavesLink(c) \/ Unlinks(c) \/ DropsLink(c)
        \/ /\ OnlyCall(c) /\ UNCHANGED link
           /\ caller'[c].pc \notin {"desire", "unlink", "unlinkAll"}
    BY <1>2, AbsentRecords DEF Proceeds, Fails, Refused, WritesProduct, RemovesProduct,
       SavesUnit, LoadsUnit, Records, UsesCode, Ended
  <2> QED BY <2>1, <2>2, <2>3, <2>4, <2>5
<1>3. ASSUME NEW k \in Codes, CodeMoves(k)
      PROVE  HeldInv'
  BY <1>3, HeldKept DEF CodeMoves
<1> QED BY <1>1, <1>2, <1>3, FleetSteps

-----------------------------------------------------------------------------
(* The products that the devices' records name *)

\* No removal of a device has met a call that saves the device's record.
UnitsSafe ==
  /\ failed = 0
  /\ \A op \in {"add", "claim", "provision", "touch", "describe"} : {op, "remove"} \notin met

\* The product p of the device d is what the device calls itself, has a link to it, or has
\* been or is being deleted.
Accounted(d, p) ==
  \/ p \in deleted \/ <<d, p>> \in described
  \/ \E l \in LinkIds : link[l] # NoLink /\ link[l].product = p /\ link[l].dev = d
  \/ \E c \in Callers : caller[c].op = "delete" /\ caller[c].prod = p

\* A removal is going to clear the product p of the device d.
Clearing(c, d, p) ==
  /\ caller[c].op = "remove" /\ caller[c].dev = d
  /\ \/ caller[c].pc = "loadUnit" /\ caller[c].prod = p
     \/ caller[c].pc = "saveUnit"

UnitInv ==
  UnitsSafe =>
    /\ \A d \in FleetDevices, p \in Named :
         unit[d].product = p => Accounted(d, p) \/ \E c \in Callers : Clearing(c, d, p)
    /\ \A c \in Callers, d \in FleetDevices, p \in Named :
         caller[c].pc = "saveUnit" /\ caller[c].op = "add" /\ caller[c].dev = d /\ caller[c].prod = p
           => Accounted(d, p)
    /\ \A c \in Callers, d \in FleetDevices, p \in Named :
         caller[c].pc = "record" /\ caller[c].dev = d /\ caller[c].copy.product = p
           => Accounted(d, p)

\* Links go with the products that are deleted, and deletions end with the product.
KeepsLinks ==
  /\ deleted \subseteq deleted' /\ described \subseteq described'
  /\ \A c \in Callers : caller[c].op = "delete" =>
       \/ caller'[c].op = "delete" /\ caller'[c].prod = caller[c].prod
       \/ caller[c].prod \in deleted'
  /\ \A l \in LinkIds : link[l] # NoLink =>
       \/ /\ link'[l] # NoLink
          /\ link'[l].product = link[l].product /\ link'[l].dev = link[l].dev
       \/ \E c \in Callers :
            caller'[c].op = "delete" /\ caller'[c].prod = link[l].product

LEMMA AccountedKept ==
  ASSUME KeepsLinks, NEW d \in FleetDevices, NEW p \in Named, Accounted(d, p)
  PROVE  Accounted(d, p)'
<1>1. CASE p \in deleted \/ <<d, p>> \in described
  BY <1>1 DEF KeepsLinks, Accounted
<1>2. CASE \E l \in LinkIds : link[l] # NoLink /\ link[l].product = p /\ link[l].dev = d
  BY <1>2 DEF KeepsLinks, Accounted
<1>3. CASE \E c \in Callers : caller[c].op = "delete" /\ caller[c].prod = p
  BY <1>3 DEF KeepsLinks, Accounted
<1> QED BY <1>1, <1>2, <1>3 DEF Accounted

\* Steps that keep the links of products that are not deleted.
LEMMA UnitKept ==
  ASSUME UnitInv, UnitsSafe, KeepsLinks,
         \A d \in FleetDevices, p \in Named :
           unit'[d].product = p => unit[d].product = p \/ Accounted(d, p),
         \A c \in Callers, d \in FleetDevices, p \in Named :
           Clearing(c, d, p) => Clearing(c, d, p)' \/ unit'[d].product # p,
         \A c \in Callers, d \in FleetDevices, p \in Named :
           caller'[c].pc = "saveUnit" /\ caller'[c].op = "add" /\ caller'[c].dev = d /\ caller'[c].prod = p
             => caller'[c] = caller[c] \/ Accounted(d, p)',
         \A c \in Callers, d \in FleetDevices, p \in Named :
           caller'[c].pc = "record" /\ caller'[c].dev = d /\ caller'[c].copy.product = p
             => caller'[c] = caller[c] \/ Accounted(d, p)
  PROVE  UnitInv'
<1>1. ASSUME NEW d \in FleetDevices, NEW p \in Named, unit'[d].product = p
      PROVE  Accounted(d, p)' \/ \E c \in Callers : Clearing(c, d, p)'
  <2>1. Accounted(d, p) \/ \E c \in Callers : Clearing(c, d, p)
    BY <1>1 DEF UnitInv
  <2> QED BY <1>1, <2>1, AccountedKept
<1>2. ASSUME NEW c \in Callers, NEW d \in FleetDevices, NEW p \in Named,
             caller'[c].pc = "saveUnit", caller'[c].op = "add",
             caller'[c].dev = d, caller'[c].prod = p
      PROVE  Accounted(d, p)'
  <2>1. CASE caller'[c] = caller[c]
    <3>1. Accounted(d, p)
      BY <1>2, <2>1 DEF UnitInv
    <3> QED BY <3>1, AccountedKept
  <2> QED BY <1>2, <2>1
<1>3. ASSUME NEW c \in Callers, NEW d \in FleetDevices, NEW p \in Named,
             caller'[c].pc = "record", caller'[c].dev = d, caller'[c].copy.product = p
      PROVE  Accounted(d, p)'
  <2>1. Accounted(d, p)
    <3>1. CASE caller'[c] = caller[c]
      BY <1>3, <3>1 DEF UnitInv
    <3> QED BY <1>3, <3>1
  <2> QED BY <2>1, AccountedKept
<1> QED BY <1>1, <1>2, <1>3 DEF UnitInv

\* A removal has deleted the link it holds, and is going to clear the device.
LEMMA UnitDropped ==
  ASSUME FleetRecords, HeldInv, UnitInv, UnitsSafe, met \subseteq met', UnitsSafe',
         described \subseteq described',
         NEW c \in Callers, DropsLink(c)
  PROVE  UnitInv'
<1>1. /\ caller[c].pc = "unlink" /\ caller[c].op = "remove" /\ caller[c].link \in LinkIds
      /\ OnlyCall(c)
      /\ caller'[c].pc = "loadUnit" /\ caller'[c].op = "remove"
      /\ caller'[c].prod = caller[c].prod /\ caller'[c].dev = caller[c].dev
      /\ UNCHANGED <<unit, deleted>>
  BY DEF DropsLink
<1>2. \A l \in LinkIds : l # caller[c].link => link'[l] = link[l]
  BY DEF DropsLink, FleetRecords, FleetTypeOK
<1>3. \A b \in Callers : b # c => caller'[b] = caller[b]
  BY <1>1 DEF OnlyCall
<1>4. ASSUME NEW d \in FleetDevices, NEW p \in Named, unit'[d].product = p
      PROVE  Accounted(d, p)' \/ \E b \in Callers : Clearing(b, d, p)'
  <2>1. Accounted(d, p) \/ \E b \in Callers : Clearing(b, d, p)
    BY <1>1, <1>4 DEF UnitInv
  <2>2. CASE p \in deleted \/ <<d, p>> \in described
    BY <1>1, <2>2 DEF Accounted
  <2>3. ASSUME NEW l \in LinkIds, link[l] # NoLink, link[l].product = p, link[l].dev = d
        PROVE  Accounted(d, p)' \/ Clearing(c, d, p)'
    <3>1. CASE l = caller[c].link
      <4>1. Holds(c, l)
        BY <1>1, <3>1 DEF Holds
      <4>2. caller[c].prod = p /\ caller[c].dev = d
        BY <1>1, <2>3, <4>1 DEF HeldInv
      <4> QED BY <1>1, <4>2 DEF Clearing
    <3>2. CASE l # caller[c].link
      BY <1>2, <2>3, <3>2 DEF Accounted
    <3> QED BY <3>1, <3>2
  <2>4. ASSUME NEW b \in Callers, caller[b].op = "delete", caller[b].prod = p
        PROVE  Accounted(d, p)'
    <3>1. caller'[b] = caller[b]
      BY <1>1, <1>3, <2>4
    <3> QED BY <2>4, <3>1 DEF Accounted
  <2>5. ASSUME NEW b \in Callers, Clearing(b, d, p)
        PROVE  Clearing(b, d, p)'
    <3>1. caller'[b] = caller[b]
      BY <1>1, <1>3, <2>5 DEF Clearing
    <3> QED BY <2>5, <3>1 DEF Clearing
  <2> QED BY <2>1, <2>2, <2>3, <2>4, <2>5 DEF Accounted
<1>5. ASSUME NEW b \in Callers,
             \/ caller'[b].pc = "saveUnit" /\ caller'[b].op = "add"
             \/ caller'[b].pc = "record"
      PROVE  FALSE
  <2>1. b # c /\ caller'[b] = caller[b]
    BY <1>1, <1>3, <1>5
  <2>2. caller'[b].op \in {"add"} \union RecordOps
    BY <1>5, <2>1, OpsOfLabels
  <2>3. {caller'[b].op, "remove"} \in met'
    BY <1>1, <2>1, <2>2, MetWith DEF RecordOps
  <2> QED BY <2>2, <2>3 DEF UnitsSafe, RecordOps
<1>6. ASSUME NEW b \in Callers, NEW d \in FleetDevices, NEW p \in Named,
             caller'[b].pc = "saveUnit", caller'[b].op = "add",
             caller'[b].dev = d, caller'[b].prod = p
      PROVE  Accounted(d, p)'
  BY <1>5, <1>6
<1>7. ASSUME NEW b \in Callers, NEW d \in FleetDevices, NEW p \in Named,
             caller'[b].pc = "record", caller'[b].dev = d, caller'[b].copy.product = p
      PROVE  Accounted(d, p)'
  BY <1>5, <1>7
<1> QED BY <1>4, <1>6, <1>7 DEF UnitInv

LEMMA UnitNext ==
  ASSUME FleetRecords, FleetRecords', HeldInv, UnitInv, FleetNext
  PROVE  UnitInv'
<1>1. met \subseteq met' /\ described \subseteq described'
  BY FleetSteps, MetRecorded, DescriptionsRecorded
<1>2. ASSUME NEW c \in Callers, Begins(c)
      PROVE  UnitInv'
  <2> SUFFICES ASSUME UnitsSafe' PROVE UnitInv'
    BY DEF UnitInv
  <2>1. /\ OnlyCall(c) /\ UNCHANGED <<link, unit, deleted, failed>>
        /\ caller[c].op = "none" /\ caller[c].pc = "idle"
        /\ caller'[c].pc # "saveUnit"
    BY <1>2, AbsentRecords DEF Begins, Began
  <2>2. UnitsSafe
    BY <1>1, <2>1 DEF UnitsSafe, RecordOps
  <2>3. \A b \in Callers : b # c => caller'[b] = caller[b]
    BY <2>1 DEF OnlyCall
  <2>4. KeepsLinks
    BY <1>1, <2>1, <2>3 DEF KeepsLinks
  <2>5. ASSUME NEW d \in FleetDevices, NEW p \in Named, caller'[c].pc = "record",
               caller'[c].dev = d, caller'[c].copy.product = p
        PROVE  Accounted(d, p)
    <3>1. unit[d].product = p /\ caller'[c].op \in RecordOps
      BY <1>2, <2>5 DEF Begins, RecordOps
    <3>2. ASSUME NEW b \in Callers, Clearing(b, d, p) PROVE FALSE
      <4>1. b # c /\ caller'[b].op = "remove"
        BY <2>1, <2>3, <3>2 DEF Clearing
      <4>2. {caller'[c].op, "remove"} \in met'
        BY <3>1, <4>1 DEF FleetRecords, RecordOps
      <4> QED BY <3>1, <4>2 DEF UnitsSafe, RecordOps
    <3> QED BY <2>2, <3>1, <3>2 DEF UnitInv
  <2>6. ASSUME NEW b \in Callers, NEW d \in FleetDevices, NEW p \in Named,
               Clearing(b, d, p)
        PROVE  Clearing(b, d, p)'
    <3>1. caller'[b] = caller[b]
      BY <2>1, <2>3, <2>6 DEF Clearing
    <3> QED BY <2>6, <3>1 DEF Clearing
  <2>7. \A d \in FleetDevices, p \in Named :
          unit'[d].product = p => unit[d].product = p \/ Accounted(d, p)
    BY <2>1
  <2>8. \A b \in Callers, d \in FleetDevices, p \in Named :
          Clearing(b, d, p) => Clearing(b, d, p)' \/ unit'[d].product # p
    BY <2>6
  <2>9. \A b \in Callers, d \in FleetDevices, p \in Named :
          caller'[b].pc = "saveUnit" /\ caller'[b].op = "add" /\ caller'[b].dev = d /\ caller'[b].prod = p
            => caller'[b] = caller[b] \/ Accounted(d, p)'
    BY <2>1, <2>3
  <2>10. \A b \in Callers, d \in FleetDevices, p \in Named :
           caller'[b].pc = "record" /\ caller'[b].dev = d /\ caller'[b].copy.product = p
             => caller'[b] = caller[b] \/ Accounted(d, p)
    BY <2>3, <2>5
  <2> QED BY <2>2, <2>4, <2>7, <2>8, <2>9, <2>10, UnitKept
<1>3. ASSUME NEW c \in Callers, Proceeds(c)
      PROVE  UnitInv'
  <2> SUFFICES ASSUME UnitsSafe' PROVE UnitInv'
    BY DEF UnitInv
  <2>1. failed' = failed + 1 => FALSE
    BY DEF UnitsSafe, FleetRecords
  <2>2. OnlyCall(c) /\ UNCHANGED failed
    BY <1>3, <2>1 DEF Proceeds, Fails, Refused, WritesProduct, Unlinks, RemovesProduct, AddsLink,
       SavesUnit, SavesLink, DropsLink, LoadsUnit, Records, UsesCode, Ended
  <2>3. UnitsSafe
    BY <1>1, <2>2 DEF UnitsSafe, RecordOps
  <2>4. \A b \in Callers : b # c => caller'[b] = caller[b]
    BY <2>2 DEF OnlyCall
  <2>5. KeepsLinks \/ DropsLink(c)
    <3>1. CASE Unlinks(c)
      <4>1. PICK l \in caller[c].todo :
              l \in LinkIds /\ link' = [link EXCEPT ![l] = NoLink]
        BY <2>1, <3>1 DEF Unlinks
      <4>2. /\ caller[c].pc = "unlinkAll" /\ caller[c].op = "delete"
            /\ caller'[c].op = "delete" /\ caller'[c].prod = caller[c].prod
            /\ UNCHANGED deleted
        BY <3>1 DEF Unlinks
      <4>3. link[l] # NoLink => link[l].product = caller'[c].prod
        <5>1. Holds(c, l)
          BY <4>1, <4>2 DEF Holds
        <5> QED BY <4>1, <4>2, <5>1 DEF HeldInv
      <4>4. \A i \in LinkIds : i # l => link'[i] = link[i]
        BY <4>1 DEF FleetRecords, FleetTypeOK
      <4> QED BY <1>1, <2>4, <4>2, <4>3, <4>4 DEF KeepsLinks
    <3>2. CASE RemovesProduct(c)
      BY <1>1, <2>4, <3>2 DEF RemovesProduct, KeepsLinks
    <3>3. CASE AddsLink(c) \/ SavesLink(c)
      <4>1. caller[c].op # "delete" /\ UNCHANGED deleted
        BY <3>3 DEF AddsLink, SavesLink
      <4>2. ASSUME NEW l \in LinkIds, link[l] # NoLink
            PROVE  /\ link'[l] # NoLink
                   /\ link'[l].product = link[l].product /\ link'[l].dev = link[l].dev
        <5>1. CASE AddsLink(c)
          BY <4>2, <5>1 DEF AddsLink, FleetRecords, FleetTypeOK
        <5>2. CASE SavesLink(c)
          <6> DEFINE r == [product |-> caller[c].prod, dev |-> caller[c].dev, desired |-> 1]
          <6>1. r # NoLink /\ r.product = caller[c].prod /\ r.dev = caller[c].dev
            BY <5>2, FleetAssumption DEF SavesLink, NoLink
          <6>2. caller[c].pc = "desire" /\ link' = [link EXCEPT ![caller[c].link] = r]
            BY <5>2 DEF SavesLink
          <6> HIDE DEF r
          <6>3. link'[l] = IF l = caller[c].link THEN r ELSE link[l]
            BY <6>2 DEF FleetRecords, FleetTypeOK
          <6>4. l = caller[c].link =>
                  link[l].product = caller[c].prod /\ link[l].dev = caller[c].dev
            BY <4>2, <6>2 DEF HeldInv, Holds
          <6> QED BY <4>2, <6>1, <6>3, <6>4
        <5> QED BY <3>3, <5>1, <5>2
      <4> QED BY <1>1, <2>4, <4>1, <4>2 DEF KeepsLinks
    <3>4. CASE UNCHANGED <<link, deleted>> /\ caller[c].op # "delete"
      BY <1>1, <2>4, <3>4 DEF KeepsLinks
    <3>5. CASE Refused(c) \/ WritesProduct(c) \/ SavesUnit(c) \/ LoadsUnit(c) \/ Records(c)
               \/ UsesCode(c)
      BY <3>4, <3>5, OpsOfLabels
         DEF Refused, WritesProduct, SavesUnit, LoadsUnit, Records, UsesCode
    <3> QED BY <1>3, <2>1, <3>1, <3>2, <3>3, <3>5 DEF Proceeds, Fails
  <2>6. CASE DropsLink(c)
    BY <1>1, <2>3, <2>6, UnitDropped
  <2>7. CASE KeepsLinks /\ ~DropsLink(c)
    <3>1. ASSUME NEW d \in FleetDevices, NEW p \in Named, unit'[d].product = p
          PROVE  unit[d].product = p \/ Accounted(d, p)
      <4>1. CASE SavesUnit(c)
        <5>1. /\ caller[c].pc = "saveUnit" /\ unit'[caller[c].dev].product = caller[c].prod
              /\ \/ caller[c].op = "add"
                 \/ caller[c].op = "remove" /\ caller[c].prod = "none"
              /\ d # caller[c].dev => unit'[d] = unit[d]
          BY <4>1 DEF SavesUnit
        <5>2. p # "none"
          BY FleetAssumption DEF Named
        <5> QED BY <2>3, <3>1, <5>1, <5>2 DEF UnitInv
      <4>2. CASE Records(c)
        <5>1. /\ caller[c].pc = "record"
              /\ d # caller[c].dev => unit'[d] = unit[d]
              /\ unit'[caller[c].dev].product = IF caller[c].prod = "none"
                                                THEN caller[c].copy.product ELSE caller[c].prod
              /\ caller[c].prod # "none" => <<caller[c].dev, caller[c].prod>> \in described
          BY <4>2 DEF Records, FleetRecords
        <5>2. CASE caller[c].prod = "none"
          BY <2>3, <3>1, <5>1, <5>2 DEF UnitInv
        <5>3. CASE caller[c].prod # "none"
          BY <3>1, <5>1, <5>3 DEF Accounted
        <5> QED BY <5>2, <5>3
      <4>3. CASE UNCHANGED unit
        BY <3>1, <4>3
      <4> QED BY <1>3, <4>1, <4>2, <4>3 DEF Proceeds, Fails, Refused, WritesProduct, Unlinks,
              RemovesProduct, AddsLink, SavesLink, DropsLink, LoadsUnit, UsesCode
    <3>2. ASSUME NEW b \in Callers, NEW d \in FleetDevices, NEW p \in Named,
                 Clearing(b, d, p)
          PROVE  Clearing(b, d, p)' \/ unit'[d].product # p
      <4>1. CASE b # c
        <5>1. caller'[b] = caller[b]
          BY <2>4, <4>1
        <5> QED BY <3>2, <5>1 DEF Clearing
      <4>2. CASE b = c
        <5>1. /\ caller[c].op = "remove" /\ caller[c].dev = d
              /\ caller[c].pc \in {"loadUnit", "saveUnit"}
              /\ caller[c].pc = "loadUnit" => caller[c].prod = p
          BY <3>2, <4>2 DEF Clearing
        <5>2. CASE LoadsUnit(c)
          BY <4>2, <5>1, <5>2 DEF LoadsUnit, Clearing
        <5>3. CASE SavesUnit(c)
          <6>1. p # "none"
            BY FleetAssumption DEF Named
          <6> QED BY <5>1, <5>3, <6>1 DEF SavesUnit
        <5> QED BY <1>3, <2>1, <5>1, <5>2, <5>3 DEF Proceeds, Fails, Refused, WritesProduct,
                Unlinks, RemovesProduct, AddsLink, SavesLink, DropsLink, Records, UsesCode
      <4> QED BY <4>1, <4>2
    <3>3. ASSUME NEW b \in Callers, NEW d \in FleetDevices, NEW p \in Named,
                 caller'[b].pc = "saveUnit", caller'[b].op = "add",
                 caller'[b].dev = d, caller'[b].prod = p
          PROVE  caller'[b] = caller[b] \/ Accounted(d, p)'
      <4>1. CASE b # c
        BY <2>4, <4>1
      <4>2. CASE b = c /\ AddsLink(c)
        <5>1. /\ caller[c].prod = p /\ caller[c].dev = d
              /\ p \in Named
          BY <3>3, <4>2 DEF AddsLink
        <5> DEFINE r == [product |-> p, dev |-> d, desired |-> 0]
        <5>2. PICK l \in LinkIds : link' = [link EXCEPT ![l] = r]
          BY <4>2, <5>1 DEF AddsLink
        <5>3. r # NoLink /\ r.product = p /\ r.dev = d
          BY <5>1, FleetAssumption DEF NoLink
        <5> HIDE DEF r
        <5>4. link'[l] = r
          BY <5>2 DEF FleetRecords, FleetTypeOK
        <5> QED BY <5>3, <5>4 DEF Accounted
      <4>3. AddsLink(c) \/ ~(caller'[c].pc = "saveUnit" /\ caller'[c].op = "add")
        BY <1>3, <2>1, AbsentRecords DEF Proceeds, Fails, Refused, WritesProduct, Unlinks,
           RemovesProduct, SavesUnit, SavesLink, DropsLink, LoadsUnit, Records, UsesCode, Ended
      <4> QED BY <3>3, <4>1, <4>2, <4>3
    <3>4. caller'[c].pc # "record"
      BY <1>3, <2>1, AbsentRecords DEF Proceeds, Fails, Refused, WritesProduct, Unlinks,
         RemovesProduct, AddsLink, SavesUnit, SavesLink, DropsLink, LoadsUnit, Records, UsesCode,
         Ended
    <3>5. \A d \in FleetDevices, p \in Named :
            unit'[d].product = p => unit[d].product = p \/ Accounted(d, p)
      BY <3>1
    <3>6. \A b \in Callers, d \in FleetDevices, p \in Named :
            Clearing(b, d, p) => Clearing(b, d, p)' \/ unit'[d].product # p
      BY <3>2
    <3>7. \A b \in Callers, d \in FleetDevices, p \in Named :
            caller'[b].pc = "saveUnit" /\ caller'[b].op = "add" /\ caller'[b].dev = d /\ caller'[b].prod = p
              => caller'[b] = caller[b] \/ Accounted(d, p)'
      BY <3>3
    <3>8. \A b \in Callers, d \in FleetDevices, p \in Named :
            caller'[b].pc = "record" /\ caller'[b].dev = d /\ caller'[b].copy.product = p
              => caller'[b] = caller[b] \/ Accounted(d, p)
      BY <2>4, <3>4
    <3> QED BY <2>3, <2>7, <3>5, <3>6, <3>7, <3>8, UnitKept
  <2> QED BY <2>5, <2>6, <2>7
<1>4. ASSUME NEW k \in Codes, CodeMoves(k)
      PROVE  UnitInv'
  <2> SUFFICES ASSUME UnitsSafe' PROVE UnitInv'
    BY DEF UnitInv
  <2>1. UNCHANGED <<link, unit, deleted, caller, failed>>
    BY <1>4 DEF CodeMoves
  <2>2. UnitsSafe
    BY <1>1, <2>1 DEF UnitsSafe, RecordOps
  <2>3. KeepsLinks
    BY <1>1, <2>1 DEF KeepsLinks
  <2>4. \A c \in Callers, d \in FleetDevices, p \in Named :
          Clearing(c, d, p) => Clearing(c, d, p)'
    BY <2>1 DEF Clearing
  <2>5. \A d \in FleetDevices, p \in Named :
          unit'[d].product = p => unit[d].product = p \/ Accounted(d, p)
    BY <2>1
  <2>6. \A c \in Callers, d \in FleetDevices, p \in Named :
          Clearing(c, d, p) => Clearing(c, d, p)' \/ unit'[d].product # p
    BY <2>4
  <2>7. \A c \in Callers, d \in FleetDevices, p \in Named :
          caller'[c].pc = "saveUnit" /\ caller'[c].op = "add" /\ caller'[c].dev = d /\ caller'[c].prod = p
            => caller'[c] = caller[c] \/ Accounted(d, p)'
    BY <2>1
  <2>8. \A c \in Callers, d \in FleetDevices, p \in Named :
          caller'[c].pc = "record" /\ caller'[c].dev = d /\ caller'[c].copy.product = p
            => caller'[c] = caller[c] \/ Accounted(d, p)
    BY <2>1
  <2> QED BY <2>2, <2>3, <2>5, <2>6, <2>7, <2>8, UnitKept
<1> QED BY <1>2, <1>3, <1>4, FleetSteps

-----------------------------------------------------------------------------
(* The invariants from the first state on *)

FleetInv == FleetRecords /\ SlugInv /\ OnceInv /\ HomeInv /\ HeldInv /\ UnitInv /\ CodeInv

LEMMA FleetBegins ==
  ASSUME FleetInit
  PROVE  FleetInv
<1>1. /\ \A p \in ProductIds : product[p] = NoProduct
      /\ \A l \in LinkIds : link[l] = NoLink
      /\ \A d \in FleetDevices : unit[d] = NoUnit
      /\ \A k \in Codes : code[k].state = "none" /\ claimed[k] = {}
      /\ \A c \in Callers : caller[c] = NoCall
      /\ failed = 0 /\ met = {} /\ deleted = {}
  BY DEF FleetInit
<1>2. FleetRecords
  <2>1. FleetTypeOK
    BY <1>1 DEF FleetInit, FleetTypeOK
  <2>2. code \in [Codes -> CodeRecords]
    BY DEF FleetInit, CodeRecords
  <2>3. caller \in [Callers -> CallRecords] /\ \A c \in Callers : Shape(caller[c])
    BY <1>1, AbsentRecords DEF FleetInit, Shape
  <2> QED BY <1>1, <2>1, <2>2, <2>3, AbsentRecords DEF FleetInit, FleetRecords
<1>3. \A c \in Callers : caller[c].pc = "idle" /\ caller[c].op = "none"
  BY <1>1, AbsentRecords
<1>4. SlugInv /\ OnceInv
  BY <1>1, <1>3 DEF SlugInv, OnceInv, Exists
<1>5. HomeInv /\ HeldInv
  BY <1>1, <1>3 DEF HomeInv, HeldInv, Holds
<1>6. UnitInv
  <2>1. \A d \in FleetDevices : unit[d].product \notin Named
    BY <1>1, FleetAssumption DEF NoUnit, Named
  <2> QED BY <1>3, <2>1 DEF UnitInv
<1>7. CodeInv
  BY <1>1, <1>3 DEF CodeInv
<1> QED BY <1>2, <1>4, <1>5, <1>6, <1>7 DEF FleetInv

LEMMA FleetGoesOn ==
  ASSUME FleetInv, [FleetNext]_fleetVars
  PROVE  FleetInv'
<1>1. CASE FleetNext
  <2>1. FleetRecords'
    BY <1>1, RecordsNext DEF FleetInv
  <2> QED BY <1>1, <2>1, SlugNext, OnceNext, HomeNext, HeldNext, UnitNext, CodeNext DEF FleetInv
<1>2. CASE UNCHANGED fleetVars
  <2>1. FleetRecords'
    BY <1>2 DEF FleetInv, FleetRecords, FleetTypeOK, fleetVars
  <2>2. SlugInv' /\ OnceInv'
    BY <1>2 DEF FleetInv, SlugInv, SlugsAlone, OnceInv, LinksAlone, Links, Exists,
       BySlug, fleetVars
  <2>3. HomeInv' /\ HeldInv'
    BY <1>2 DEF FleetInv, HomeInv, HeldInv, LinksSafe, Homed, Exists, Links, Holds, fleetVars
  <2>4. UnitInv'
    BY <1>2 DEF FleetInv, UnitInv, UnitsSafe, Accounted, Clearing, fleetVars
  <2>5. CodeInv'
    BY <1>2 DEF FleetInv, CodeInv, CodesSafe, fleetVars
  <2> QED BY <2>1, <2>2, <2>3, <2>4, <2>5 DEF FleetInv
<1> QED BY <1>1, <1>2

\* Whatever calls overlap and whichever saves fail, records and what calls hold of them
\* stay related as long as the circumstances that each part names have not occurred.
THEOREM FleetInvariant == FleetSpec => []FleetInv
<1>1. FleetInit => FleetInv
  BY FleetBegins
<1>2. FleetInv /\ [FleetNext]_fleetVars => FleetInv'
  BY FleetGoesOn
<1> QED BY <1>1, <1>2, PTL DEF FleetSpec

\* Create, Update, AddDevice: a slug names one product as long as no two calls that choose
\* slugs overlap, and a device is linked to a product once as long as no two AddDevice calls
\* overlap and no link is saved while it is deleted: the uniqueness checks of
\* products/service.go are good for calls one after the other, and only for those.
THEOREM OneProductOneLink == FleetSpec => []CreatedOnce
<1>1. FleetInv => CreatedOnce
  BY DEF FleetInv, SlugInv, SlugsAlone, OnceInv, LinksAlone, CreatedOnce
<1> QED BY <1>1, FleetInvariant, PTL

\* Delete: while nothing fails and no call makes or saves a link while its product is being
\* deleted, every link is of a product that exists or that is being deleted; and the records
\* have their types, whatever overlaps.
THEOREM LinksOfProducts == FleetSpec => []LinksHaveProducts
<1>1. FleetInv => LinksHaveProducts
  BY DEF FleetInv, HomeInv, LinksSafe, Homed, FleetRecords, LinksHaveProducts
<1> QED BY <1>1, FleetInvariant, PTL

\* AddDevice, RemoveDevice, UpdateDescription, MarkConnected: while nothing fails and no
\* removal overlaps a call that saves the device, the product that a device's record names is
\* one the device has called itself, has a link to the device, has been deleted, or is being
\* deleted or removed from the device.
THEOREM UnitsOfLinks == FleetSpec => []UnitIsLinked
<1>1. FleetInv => UnitIsLinked
  <2> SUFFICES ASSUME FleetInv, UnitsSafe, NEW d \in FleetDevices,
                      unit[d].product \notin deleted \union {"none"}
               PROVE  \/ <<d, unit[d].product>> \in described
                      \/ \E l \in Links(unit[d].product) : link[l].dev = d
                      \/ \E c \in Callers : caller[c].op \in {"remove", "delete"}
    BY DEF UnitIsLinked, UnitsSafe
  <2>1. unit[d].product \in Named
    <3>1. unit[d] \in UnitRecords \union {NoUnit}
      BY DEF FleetInv, FleetRecords, FleetTypeOK, UnitRecords, Named
    <3> QED BY <3>1 DEF UnitRecords, NoUnit
  <2> DEFINE p == unit[d].product
  <2>2. Accounted(d, p) \/ \E c \in Callers : Clearing(c, d, p)
    BY <2>1 DEF FleetInv, UnitInv
  <2> QED BY <2>1, <2>2 DEF Accounted, Clearing, Links
<1> QED BY <1>1, FleetInvariant, PTL

\* Provision: a claim code claims at most one device as long as no two Provision calls
\* overlap and the save that marks the code as used does not fail.
THEOREM CodesClaimOnce == FleetSpec => []CodeClaimsOnce
<1>1. FleetInv => CodeClaimsOnce
  <2> SUFFICES ASSUME FleetInv, CodesSafe, NEW k \in Codes
               PROVE  Cardinality(claimed[k]) <= 1
    BY DEF CodeClaimsOnce, CodesSafe
  <2>1. claimed[k] = {} \/ \E d \in FleetDevices : claimed[k] = {d}
    BY DEF FleetInv, CodeInv
  <2>2. CASE claimed[k] = {}
    BY <2>2, FS_EmptySet
  <2>3. CASE \E d \in FleetDevices : claimed[k] = {d}
    <3>1. PICK d \in FleetDevices : claimed[k] = {d}
      BY <2>3
    <3>2. Cardinality({d}) = 1
      BY FS_Singleton
    <3> QED BY <3>1, <3>2
  <2> QED BY <2>1, <2>2, <2>3
<1> QED BY <1>1, FleetInvariant, PTL
=============================================================================
