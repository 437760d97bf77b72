------------------------------- MODULE Fleet -------------------------------
(***************************************************************************)
(* Products, the devices linked to them and their owners: the product      *)
(* service (internal/products/service.go), called by HTTP handlers, and    *)
(* the device service (internal/devices/service.go), called by them and by *)
(* the devices' sessions, which save the same records.                     *)
(*                                                                         *)
(* A call loads records, checks them and saves what it made of its copies; *)
(* each access to a repository is a step of its own, two that only read    *)
(* are one.  Calls of all users overlap, and nothing but the repositories' *)
(* own locks keeps them apart.                                             *)
(***************************************************************************)
EXTENDS Naturals, FiniteSets

CONSTANTS
  ProductIds,     \* ids given to new products
  Slugs,          \* slugs; one may equal a product's id
  LinkIds,        \* ids of the links between products and devices
  FleetDevices,   \* device ids
  Owners,         \* users
  Codes,          \* claim codes
  Callers,        \* goroutines of HTTP requests and of devices' sessions
  FleetCalls,     \* bound of the calls
  FleetFaults     \* bound of the failing saves

\* "none" stands for what is absent.
ASSUME FleetAssumption ==
  "none" \notin ProductIds \union Slugs \union LinkIds \union FleetDevices
                \union Owners \union Codes

VARIABLES
  product,   \* the products: slug and owner
  link,      \* the links: product, device, desired firmware version
  unit,      \* the device records: owner and product
  code,      \* the claim codes
  caller,    \* the calls: label, operation, arguments, copies
  calls,     \* how many calls have begun
  failed,    \* how many saves have failed
  met,       \* history: the pairs of operations that have overlapped
  claimed,   \* history: the devices each code has claimed
  deleted,   \* history: the products that have been deleted
  described  \* history: the devices and the products they have called themselves

fleetVars ==
  <<product, link, unit, code, caller, calls, failed, met, claimed, deleted, described>>

NoProduct == [slug |-> "none", owner |-> "none"]
NoLink == [product |-> "none", dev |-> "none", desired |-> 0]
NoUnit == [owner |-> "none", product |-> "none"]

Exists(p) == product[p] # NoProduct
Links(p) == {l \in LinkIds : link[l] # NoLink /\ link[l].product = p}

\* GetBySlug.
BySlug(slug) == {p \in ProductIds : Exists(p) /\ product[p].slug = slug}

\* Get: the product with that id, or else one with that slug, if the caller owns it.
GetProduct(owner, name) ==
  {p \in IF name \in ProductIds /\ Exists(name) THEN {name} ELSE BySlug(name) :
     product[p].owner = owner}

NoCall ==
  [pc |-> "idle", op |-> "none", prod |-> "none", owner |-> "none", slug |-> "none",
   dev |-> "none", link |-> "none", code |-> "none", copy |-> "none", todo |-> {}]

CallerAt(c, label) == caller[c].pc = label

Goes(c, label) ==
  caller' = [caller EXCEPT ![c] = IF label = "idle" THEN NoCall ELSE [@ EXCEPT !.pc = label]]

CallFails(c) == failed < FleetFaults /\ failed' = failed + 1 /\ Goes(c, "idle")

Calls(c, r) ==
  /\ CallerAt(c, "idle")
  /\ calls < FleetCalls
  /\ calls' = calls + 1
  /\ caller' = [caller EXCEPT ![c] = r]
  /\ UNCHANGED <<product, link, unit, code, failed, claimed, deleted>>

\* A save or deletion that may fail, which ends the call.
Saving(c, label, effect, next) ==
  /\ CallerAt(c, label)
  /\ \/ effect /\ Goes(c, next) /\ UNCHANGED failed
     \/ CallFails(c) /\ UNCHANGED <<product, link, unit, code, claimed, deleted>>
  /\ UNCHANGED calls

-----------------------------------------------------------------------------
(***************************************************************************)
(* Products                                                                *)
(***************************************************************************)
\* Mutant: the slug is not looked up.
CreateUnchecked(c, owner, p, slug) ==
  /\ ~Exists(p)
  /\ Calls(c, [NoCall EXCEPT !.pc = "create", !.op = "create", !.owner = owner,
                             !.prod = p, !.slug = slug])

\* Create: neither the id nor the slug is taken.
CreateProduct(c, owner, p, slug) ==
  /\ ~Exists(p) /\ BySlug(slug) = {}
  /\ Calls(c, [NoCall EXCEPT !.pc = "create", !.op = "create", !.owner = owner,
                             !.prod = p, !.slug = slug])

\* The repository's Create refuses an id that exists by now.
StoreProduct(c) ==
  LET r == caller[c] IN
  Saving(c, "create",
    /\ product' = IF Exists(r.prod) THEN product
                  ELSE [product EXCEPT ![r.prod] = [slug |-> r.slug, owner |-> r.owner]]
    /\ UNCHANGED <<link, unit, code, claimed, deleted>>, "idle")

\* Update with a new slug, which nobody else has.
UpdateProduct(c, owner, name, slug) ==
  \E p \in GetProduct(owner, name) :
    /\ BySlug(slug) \subseteq {p}
    /\ Calls(c, [NoCall EXCEPT !.pc = "update", !.op = "update", !.prod = p,
                               !.slug = slug, !.owner = owner])

\* Save writes the record whether it still exists or not.
SaveProduct(c) ==
  LET r == caller[c] IN
  Saving(c, "update",
    /\ product' = [product EXCEPT ![r.prod] = [slug |-> r.slug, owner |-> r.owner]]
    /\ UNCHANGED <<link, unit, code, claimed, deleted>>, "idle")

\* Delete lists the links ...
DeleteProduct(c, owner, name) ==
  \E p \in GetProduct(owner, name) :
    Calls(c, [NoCall EXCEPT !.pc = "unlinkAll", !.op = "delete", !.prod = p,
                            !.todo = Links(p)])

\* ... deletes them one by one, ignoring errors, ...
DeleteLinks(c) ==
  /\ CallerAt(c, "unlinkAll")
  /\ \E l \in caller[c].todo :
       /\ \/ link' = [link EXCEPT ![l] = NoLink] /\ UNCHANGED failed
          \/ failed < FleetFaults /\ failed' = failed + 1 /\ UNCHANGED link
       /\ caller' = [caller EXCEPT ![c].todo = @ \ {l}]
  /\ UNCHANGED <<product, unit, code, calls, claimed, deleted>>

\* Mutant: the links stay.
RemoveProductOnly(c) ==
  LET p == caller[c].prod IN
  /\ CallerAt(c, "unlinkAll")
  /\ product' = [product EXCEPT ![p] = NoProduct]
  /\ deleted' = deleted \union {p}
  /\ Goes(c, "idle")
  /\ UNCHANGED <<link, unit, code, calls, failed, claimed>>

\* ... and then the product; the devices' records still name it.
RemoveProduct(c) ==
  LET p == caller[c].prod IN
  /\ caller[c].todo = {}
  /\ Saving(c, "unlinkAll",
       /\ product' = [product EXCEPT ![p] = NoProduct]
       /\ deleted' = deleted \union {p}
       /\ UNCHANGED <<link, unit, code, claimed>>, "idle")

-----------------------------------------------------------------------------
(***************************************************************************)
(* The devices of a product                                                *)
(***************************************************************************)
\* Mutant: whose device it is, if anybody's, is not asked.
AddAnyDevice(c, owner, name, d) ==
  \E p \in GetProduct(owner, name) :
    /\ \A l \in Links(p) : link[l].dev # d
    /\ Calls(c, [NoCall EXCEPT !.pc = "link", !.op = "add", !.prod = p, !.dev = d,
                               !.copy = unit[d]])

\* Mutant: a link that exists is not looked for.
AddDeviceAgain(c, owner, name, d) ==
  \E p \in GetProduct(owner, name) :
    /\ unit[d].owner = owner
    /\ Calls(c, [NoCall EXCEPT !.pc = "link", !.op = "add", !.prod = p, !.dev = d,
                               !.copy = unit[d]])

\* AddDevice loads the product, the device and the product's links; a device that
\* is linked already is left as it is.
AddDevice(c, owner, name, d) ==
  \E p \in GetProduct(owner, name) :
    /\ unit[d].owner = owner
    /\ \A l \in Links(p) : link[l].dev # d
    /\ Calls(c, [NoCall EXCEPT !.pc = "link", !.op = "add", !.prod = p, !.dev = d,
                               !.copy = unit[d]])

\* The link's id is a new one: no record has it, and no call still holds it.
CreateLink(c) ==
  LET r == caller[c] IN
  \E l \in LinkIds :
    /\ link[l] = NoLink
    /\ \A b \in Callers : caller[b].link # l /\ l \notin caller[b].todo
    /\ Saving(c, "link",
         /\ link' = [link EXCEPT ![l] = [product |-> r.prod, dev |-> r.dev, desired |-> 0]]
         /\ UNCHANGED <<product, unit, code, claimed, deleted>>, "saveUnit")

\* The device's copy is saved with its new product.
SaveUnit(c) ==
  LET r == caller[c] IN
  Saving(c, "saveUnit",
    /\ unit' = [unit EXCEPT ![r.dev] = [r.copy EXCEPT !.product = r.prod]]
    /\ UNCHANGED <<product, link, code, claimed, deleted>>, "idle")

\* UpdateDevice with a desired version: load the link, save it whole.
UpdateDevice(c, owner, name, l) ==
  \E p \in GetProduct(owner, name) :
    /\ l \in Links(p)
    /\ unit[link[l].dev].owner = owner
    /\ Calls(c, [NoCall EXCEPT !.pc = "desire", !.op = "desire", !.prod = p, !.link = l,
                               !.dev = link[l].dev])

SaveLink(c) ==
  LET r == caller[c] IN
  Saving(c, "desire",
    /\ link' = [link EXCEPT ![r.link] = [product |-> r.prod, dev |-> r.dev, desired |-> 1]]
    /\ UNCHANGED <<product, unit, code, claimed, deleted>>, "idle")

\* RemoveDevice finds the link ...
RemoveDevice(c, owner, name, d) ==
  \E p \in GetProduct(owner, name), l \in LinkIds :
    /\ l \in Links(p) /\ link[l].dev = d
    /\ Calls(c, [NoCall EXCEPT !.pc = "unlink", !.op = "remove", !.prod = p, !.dev = d,
                               !.link = l])

DeleteLink(c) ==
  LET r == caller[c] IN
  Saving(c, "unlink",
    /\ link' = [link EXCEPT ![r.link] = NoLink]
    /\ UNCHANGED <<product, unit, code, claimed, deleted>>, "loadUnit")

\* Mutant: the device keeps its product.
LeaveUnit(c) ==
  /\ CallerAt(c, "loadUnit")
  /\ Goes(c, "idle")
  /\ UNCHANGED <<product, link, unit, code, calls, failed, claimed, deleted>>

\* ... and loads the device, which may have another product by now.
LoadUnit(c) ==
  LET r == caller[c] IN
  /\ CallerAt(c, "loadUnit")
  /\ caller' = [caller EXCEPT ![c] =
       IF unit[r.dev].product = r.prod
       THEN [@ EXCEPT !.pc = "saveUnit", !.copy = unit[r.dev], !.prod = "none"]
       ELSE NoCall]
  /\ UNCHANGED <<product, link, unit, code, calls, failed, claimed, deleted>>

-----------------------------------------------------------------------------
(***************************************************************************)
(* Claims, and what the device service writes of a device besides          *)
(***************************************************************************)
CreateClaimCode(owner, k) ==
  /\ code[k].state = "none"
  /\ code' = [code EXCEPT ![k] = [state |-> "open", owner |-> owner]]
  /\ UNCHANGED <<product, link, unit, caller, calls, failed, claimed, deleted>>

ExpireClaimCode(k) ==
  /\ code[k].state = "open"
  /\ code' = [code EXCEPT ![k].state = "expired"]
  /\ UNCHANGED <<product, link, unit, caller, calls, failed, claimed, deleted>>

\* Claim: the device gets its owner, whoever it had, and a record if it had none.
ClaimDevice(c, owner, d) ==
  Calls(c, [NoCall EXCEPT !.pc = "record", !.op = "claim", !.owner = owner, !.dev = d,
                          !.copy = unit[d]])

\* Mutant: a used code is accepted.
ProvisionAgain(c, d, k) ==
  /\ code[k].state \in {"open", "used"}
  /\ Calls(c, [NoCall EXCEPT !.pc = "record", !.op = "provision", !.owner = code[k].owner,
                             !.dev = d, !.code = k, !.copy = unit[d]])

\* Provision: a code that is neither used nor expired, then Claim.
ProvisionDevice(c, d, k) ==
  /\ code[k].state = "open"
  /\ Calls(c, [NoCall EXCEPT !.pc = "record", !.op = "provision", !.owner = code[k].owner,
                             !.dev = d, !.code = k, !.copy = unit[d]])

\* The owner that a call leaves as it is: a record that it makes has none.
Keeper(d) == IF unit[d] = NoUnit THEN "nobody" ELSE unit[d].owner

\* MarkConnected, MarkDisconnected and Update (a new name): flags, times and the name
\* change, in the copy of a record or in a new one, which is saved with all the rest.
TouchDevice(c, d) ==
  Calls(c, [NoCall EXCEPT !.pc = "record", !.op = "touch", !.owner = Keeper(d), !.dev = d,
                          !.copy = unit[d]])

\* UpdateDescription: an attribute may say of what product the device is.
DescribeDevice(c, d, name) ==
  Calls(c, [NoCall EXCEPT !.pc = "record", !.op = "describe", !.owner = Keeper(d),
                          !.prod = name, !.dev = d, !.copy = unit[d]])

\* The save, or a Create, which refuses a record that exists by now.
SaveRecord(c) ==
  LET r == caller[c]
      clash == r.copy = NoUnit /\ unit[r.dev] # NoUnit
  IN
  /\ CallerAt(c, "record")
  /\ \/ /\ clash
        /\ Goes(c, "idle")
        /\ UNCHANGED <<unit, failed, claimed>>
     \/ /\ ~clash
        /\ unit' = [unit EXCEPT ![r.dev] =
             [owner |-> r.owner,
              product |-> IF r.prod = "none" THEN r.copy.product ELSE r.prod]]
        /\ claimed' = IF r.code = "none" THEN claimed
                      ELSE [claimed EXCEPT ![r.code] = @ \union {r.dev}]
        /\ Goes(c, IF r.code = "none" THEN "idle" ELSE "useCode")
        /\ UNCHANGED failed
     \/ CallFails(c) /\ UNCHANGED <<unit, claimed>>
  /\ UNCHANGED <<product, link, code, calls, deleted>>

UseCode(c) ==
  Saving(c, "useCode",
    /\ code' = [code EXCEPT ![caller[c].code].state = "used"]
    /\ UNCHANGED <<product, link, unit, claimed, deleted>>, "idle")

\* Unclaim: the owner gives the device up; its product and links stay.
UnclaimDevice(c, owner, d) ==
  /\ unit[d].owner = owner
  /\ Calls(c, [NoCall EXCEPT !.pc = "record", !.op = "claim", !.owner = "nobody", !.dev = d,
                             !.copy = unit[d]])

-----------------------------------------------------------------------------
\* The operations at work, in pairs of two calls.
Met ==
  UNION {{{caller[a].op, caller[b].op} : b \in {b \in Callers \ {a} : caller[b].op # "none"}} :
           a \in {a \in Callers : caller[a].op # "none"}}

\* The products that devices call themselves in the descriptions at work.
Described ==
  {<<caller[c].dev, caller[c].prod>> : c \in {c \in Callers : caller[c].op = "describe"}}

FleetInit ==
  /\ product = [p \in ProductIds |-> NoProduct]
  /\ link = [l \in LinkIds |-> NoLink]
  /\ unit = [d \in FleetDevices |-> NoUnit]
  /\ code = [k \in Codes |-> [state |-> "none", owner |-> "none"]]
  /\ caller = [c \in Callers |-> NoCall]
  /\ calls = 0 /\ failed = 0 /\ met = {} /\ deleted = {} /\ described = {}
  /\ claimed = [k \in Codes |-> {}]

ProductCall(c) ==
  \E owner \in Owners, name \in ProductIds \union Slugs :
    \/ \E slug \in Slugs :
         \/ \E p \in ProductIds : CreateProduct(c, owner, p, slug)
         \/ UpdateProduct(c, owner, name, slug)
    \/ DeleteProduct(c, owner, name)
    \/ \E d \in FleetDevices : AddDevice(c, owner, name, d) \/ RemoveDevice(c, owner, name, d)
    \/ \E l \in LinkIds : UpdateDevice(c, owner, name, l)

DeviceCall(c) ==
  \E d \in FleetDevices :
    \/ TouchDevice(c, d)
    \/ \E name \in ProductIds \union Slugs \union {"none"} : DescribeDevice(c, d, name)
    \/ \E owner \in Owners : ClaimDevice(c, owner, d) \/ UnclaimDevice(c, owner, d)
    \/ \E k \in Codes : ProvisionDevice(c, d, k)

CallStep(c) ==
  \/ StoreProduct(c) \/ SaveProduct(c) \/ DeleteLinks(c) \/ RemoveProduct(c)
  \/ CreateLink(c) \/ SaveUnit(c) \/ SaveLink(c) \/ DeleteLink(c) \/ LoadUnit(c)
  \/ SaveRecord(c) \/ UseCode(c)

FleetNext ==
  /\ \/ \E c \in Callers : ProductCall(c) \/ DeviceCall(c) \/ CallStep(c)
     \/ \E k \in Codes : ExpireClaimCode(k) \/ \E owner \in Owners : CreateClaimCode(owner, k)
  /\ met' = met \union Met'
  /\ described' = described \union Described'

FleetSpec == FleetInit /\ [][FleetNext]_fleetVars

-----------------------------------------------------------------------------
\* Types of the records.  A link is between a product id and a device with a record.
FleetTypeOK ==
  /\ product \in [ProductIds -> [slug : Slugs, owner : Owners] \union {NoProduct}]
  /\ link \in [LinkIds -> [product : ProductIds, dev : FleetDevices, desired : {0, 1}]
                          \union {NoLink}]
  /\ \A l \in LinkIds : link[l] # NoLink => unit[link[l].dev] # NoUnit
  /\ unit \in [FleetDevices -> [owner : Owners \union {"nobody"},
                                product : ProductIds \union Slugs \union {"none"}]
                               \union {NoUnit}]

\* Create, Update, AddDevice: a slug names one product, unless two calls that choose
\* slugs have overlapped; a device is linked to a product once, unless two AddDevice
\* calls have overlapped or a link was saved while it was deleted, which brings it back.
CreatedOnce ==
  /\ met \cap {{"create"}, {"update"}, {"create", "update"}} = {} =>
       \A p, q \in ProductIds : product[p].slug = product[q].slug => p = q \/ ~Exists(p)
  /\ met \cap {{"add"}, {"desire", "remove"}, {"desire", "delete"}} = {} =>
       \A k, l \in LinkIds :
         link[k].product = link[l].product /\ link[k].dev = link[l].dev
           => k = l \/ link[k] = NoLink

\* Types; and links are between a device and a product that exists, unless a link was
\* saved while its product was deleted or a link could not be deleted.
LinksHaveProducts ==
  /\ FleetTypeOK
  /\ failed = 0 /\ met \cap {{"add", "delete"}, {"desire", "delete"}} = {} =>
       \A l \in LinkIds : link[l] # NoLink =>
         \/ Exists(link[l].product)
         \/ \E c \in Callers : caller[c].op = "delete" /\ caller[c].prod = link[l].product

\* The product a device's record names, which is what its firmware is chosen by, has
\* a link to the device, unless the device has called itself that in a description (which
\* UpdateDescription takes as it comes), that product has been deleted meanwhile or the
\* record was saved by another call while a removal cleared it.
UnitIsLinked ==
  /\ failed = 0
  /\ \A op \in {"add", "claim", "provision", "touch", "describe"} : {op, "remove"} \notin met
  =>
    \A d \in FleetDevices :
      LET p == unit[d].product IN
      \/ p \in deleted \union {"none"}
      \/ <<d, p>> \in described
      \/ \E l \in Links(p) : link[l].dev = d
      \/ \E c \in Callers : caller[c].op \in {"remove", "delete"}

\* A claim code claims one device, unless two Provision calls have overlapped or the
\* save that marks the code has failed.
CodeClaimsOnce ==
  failed = 0 /\ {"provision"} \notin met =>
    \A k \in Codes : Cardinality(claimed[k]) <= 1
=============================================================================
