----------------------- MODULE FirmwareCatalogProofs -----------------------
(***************************************************************************)
(* What FirmwareCatalog promises for any number of firmwares, requests,    *)
(* flashes and faults.                                                     *)
(*                                                                         *)
(* A product has one current firmware at most: CatalogInv, inductive as it *)
(* stands.  Binaries go with their records: MatchInv, which says of each   *)
(* request what it has done to the binaries so far.  No firmware is        *)
(* deleted under a flash, and a device gets one image: FlashesOK and       *)
(* KeptInv.  No update is repeated: FlashesOK and FreshInv.                *)
(***************************************************************************)
EXTENDS FirmwareCatalog, Integers, TLAPS

\* The missing record is none of them: it has no version.
LEMMA PresentRecords ==
  ASSUME NEW r \in Records
  PROVE  r \in FirmwareRecords <=> r # NoFirmware
<1>1. NoFirmware.version \notin 1 .. MaxVersion
  BY DEF NoFirmware
<1>2. \A x \in FirmwareRecords : x.version \in 1 .. MaxVersion
  BY DEF FirmwareRecords
<1> QED BY <1>1, <1>2 DEF Records

\* What requests make of a record is a record of the same product.
LEMMA RecordShapes ==
  ASSUME NEW r \in FirmwareRecords
  PROVE  /\ Promoted(r) \in FirmwareRecords /\ Promoted(r).product = r.product
         /\ Promoted(r).current
         /\ [r EXCEPT !.released = TRUE] \in FirmwareRecords
         /\ [r EXCEPT !.released = TRUE].product = r.product
         /\ [r EXCEPT !.released = TRUE].current = r.current
BY DEF Promoted, FirmwareRecords

\* A record that is cleared is a record of the same product, and not current.
LEMMA ClearedShape ==
  ASSUME NEW r \in FirmwareRecords
  PROVE  /\ Cleared(r) \in FirmwareRecords /\ ~Cleared(r).current
         /\ Cleared(r).product = r.product
BY DEF Cleared, FirmwareRecords

\* So is what an update makes of one; it takes the flag of the current firmware along
\* only when it was there.
LEMMA UpdatedShape ==
  ASSUME NEW r \in FirmwareRecords, NEW u \in Updates
  PROVE  /\ Updated(r, u) \in FirmwareRecords /\ Updated(r, u).product = r.product
         /\ Updated(r, u).current /\ u.current # "yes" => r.current
<1> DEFINE version == IF u.version = 0 THEN r.version ELSE u.version
           ext == IF u.image = "none" THEN r.ext ELSE u.ext
           sum == IF u.image = "none" THEN r.sum ELSE u.image
           released == Given(u.released, r.released)
           default == Given(u.default, r.default)
           current == Given(u.current, r.current)
<1>1. /\ u.version \in 0 .. MaxVersion /\ u.ext \in Extensions
      /\ u.image \in Images \union {"none"}
  BY CatalogAssumption
<1>2. /\ r.version \in 1 .. MaxVersion /\ r.ext \in Extensions /\ r.sum \in Images
      /\ r.released \in BOOLEAN /\ r.default \in BOOLEAN /\ r.current \in BOOLEAN
  BY DEF FirmwareRecords
<1>3. version \in 1 .. MaxVersion /\ ext \in Extensions /\ sum \in Images
  BY <1>1, <1>2
<1>4. released \in BOOLEAN /\ default \in BOOLEAN /\ current \in BOOLEAN
  BY <1>2 DEF Given
<1>5. current /\ u.current # "yes" => r.current
  BY DEF Given
<1>6. Updated(r, u) = [r EXCEPT !.version = version, !.released = released,
                                !.default = default, !.current = current,
                                !.ext = ext, !.sum = sum]
  BY DEF Updated
<1> HIDE DEF version, ext, sum, released, default, current
<1> QED BY <1>3, <1>4, <1>5, <1>6 DEF FirmwareRecords

-----------------------------------------------------------------------------
\* Two requests at work are recorded.
LEMMA AloneRecorded ==
  ASSUME overlap' = overlap \union Overlaps'
  PROVE  /\ "admins" \notin overlap' =>
              /\ "admins" \notin overlap
              /\ \A a, b \in Admins : Busy(a)' /\ Busy(b)' => a = b
         /\ overlap \subseteq {"admins", "starters", "both"}
              => overlap' \subseteq {"admins", "starters", "both"}
BY DEF Overlaps

\* A step that leaves the records alone leaves them with one current firmware.
LEMMA SameRecords ==
  ASSUME OneCurrent, UNCHANGED firmware, overlap' = overlap \union Overlaps'
  PROVE  OneCurrent'
BY AloneRecorded DEF OneCurrent

\* What remains to be shown of a step of one request: the other requests are idle, or
\* nothing is promised any more.
LEMMA AloneStep ==
  ASSUME CatalogInv, NEW a \in Admins,
         firmware' \in [Firmwares -> Records], admin' \in [Admins -> Requests],
         \A b \in Admins : b # a => admin'[b] = admin[b],
         Busy(a) \/ Busy(a)',
         Busy(a)' => admin'[a].fw \in Firmwares /\ admin'[a].copy # NoFirmware,
         \A f \in admin'[a].clear : admin'[a].list[f] # NoFirmware,
         overlap' = overlap \union Overlaps',
         "admins" \notin overlap' => ClearsOthers(a)',
         OneCurrent'
  PROVE  CatalogInv'
<1>1. CatalogTypeOK'
  <2>1. overlap' \subseteq {"admins", "starters", "both"}
    BY AloneRecorded DEF CatalogInv, CatalogTypeOK
  <2> QED BY <2>1 DEF CatalogInv, CatalogTypeOK, Busy, AdminAt
<1>2. ASSUME "admins" \notin overlap', NEW b \in Admins, b # a
      PROVE  ~Busy(b)'
  <2>1. Busy(b) <=> Busy(b)'
    BY <1>2 DEF Busy, AdminAt
  <2>2. ~(Busy(a)' /\ Busy(b)') /\ ~(Busy(a) /\ Busy(b))
    BY <1>2, AloneRecorded DEF CatalogInv
  <2> QED BY <2>1, <2>2
<1>3. ASSUME "admins" \notin overlap', NEW b \in Admins, b # a
      PROVE  ClearsOthers(b)'
  BY <1>2, <1>3 DEF ClearsOthers, Busy, AdminAt
<1>4. "admins" \notin overlap' => \A b \in Admins : ClearsOthers(b)'
  BY <1>3
<1> QED BY <1>1, <1>4, AloneRecorded DEF CatalogInv

\* A request begins with a record and is alone, or nothing is promised.
LEMMA BeginStep ==
  ASSUME CatalogInv, overlap' = overlap \union Overlaps',
         NEW a \in Admins, NEW f \in Firmwares,
         NEW op \in {"upload", "default", "release", "update", "delete"},
         NEW label \in {"write", "list", "save", "check"},
         NEW r \in FirmwareRecords, NEW promote \in BOOLEAN,
         NEW image \in Images \union {"none"},
         BeginRequest(a, f, op, label, r, promote, image),
         label = "list" => promote,
         label = "save" => ~promote,
         label \in {"write", "save"} /\ ~promote /\ r.current
           => firmware[f].current /\ r.product = firmware[f].product /\ Stored(f)
  PROVE  CatalogInv'
<1> DEFINE next == [pc |-> label, op |-> op, fw |-> f, copy |-> r, promote |-> promote,
                    image |-> image, clear |-> {}, list |-> firmware]
<1>1. /\ admin \in [Admins -> Requests] /\ firmware \in [Firmwares -> Records]
      /\ UNCHANGED firmware /\ OneCurrent
  BY DEF CatalogInv, CatalogTypeOK, BeginRequest, records
<1>2. r \in Records /\ r # NoFirmware
  BY PresentRecords DEF Records
<1>3. next \in Requests
  BY <1>1, <1>2 DEF Requests, AdminLabels
<1>4. admin' = [admin EXCEPT ![a] = next]
  BY DEF BeginRequest
<1>5. /\ next.pc = label /\ next.fw = f /\ next.copy = r /\ next.promote = promote
      /\ next.clear = {}
  OBVIOUS
<1> HIDE DEF next
<1>6. admin'[a] = next /\ admin' \in [Admins -> Requests]
  BY <1>1, <1>3, <1>4
<1>7. ClearsOthers(a)'
  <2>1. r.current /\ label \in {"write", "save"} /\ ~promote => f \in CurrentOf(r.product)'
    BY <1>1 DEF CurrentOf, OfProduct, Stored
  <2> QED BY <1>5, <1>6, <2>1 DEF ClearsOthers, AdminAt
<1>8. Busy(a)'
  BY <1>5, <1>6 DEF Busy, AdminAt
<1>9. OneCurrent'
  BY <1>1, SameRecords
<1>10. \A b \in Admins : b # a => admin'[b] = admin[b]
  BY <1>1, <1>4
<1> QED BY <1>1, <1>2, <1>5, <1>6, <1>7, <1>8, <1>9, <1>10, AloneStep

\* Every request begins as BeginStep asks.
LEMMA RequestsBegin ==
  ASSUME CatalogInv, overlap' = overlap \union Overlaps',
         NEW a \in Admins, NEW f \in Firmwares, NEW name \in ProductNames
  PROVE  /\ \A u \in Uploads : UploadFirmware(a, f, name, u) => CatalogInv'
         /\ SetDefaultFirmware(a, f, name) => CatalogInv'
         /\ ReleaseFirmware(a, f, name) => CatalogInv'
         /\ \A u \in Updates : UpdateFirmware(a, f, name, u) => CatalogInv'
         /\ DeleteFirmware(a, f, name) => CatalogInv'
<1>1. f \in OfProduct(name) => Stored(f) /\ firmware[f] \in FirmwareRecords
  BY PresentRecords DEF CatalogInv, CatalogTypeOK, OfProduct, Stored
<1>2. ASSUME NEW u \in Uploads, UploadFirmware(a, f, name, u)
      PROVE  CatalogInv'
  <2>1. /\ u.version \in 0 .. MaxVersion /\ u.released \in BOOLEAN /\ u.promote \in BOOLEAN
        /\ u.image \in Images /\ u.ext \in Extensions
    BY CatalogAssumption
  <2>2. PICK version \in IF u.version = 0 THEN NextVersion(name) ELSE {u.version} :
          BeginRequest(a, f, "upload", "write",
                       [product |-> name, version |-> version, released |-> u.released,
                        default |-> FALSE, current |-> FALSE, ext |-> u.ext,
                        sum |-> u.image], u.promote, u.image)
    BY <1>2 DEF UploadFirmware
  <2>3. version \in 1 .. MaxVersion
    BY <2>1 DEF NextVersion
  <2> DEFINE r == [product |-> name, version |-> version, released |-> u.released,
                   default |-> FALSE, current |-> FALSE, ext |-> u.ext, sum |-> u.image]
  <2>4. r \in FirmwareRecords /\ ~r.current
    BY <2>1, <2>3 DEF FirmwareRecords
  <2> HIDE DEF r
  <2>5. BeginRequest(a, f, "upload", "write", r, u.promote, u.image)
    BY <2>2 DEF r
  <2> QED BY <2>1, <2>4, <2>5, BeginStep
<1>3. ASSUME SetDefaultFirmware(a, f, name)
      PROVE  CatalogInv'
  BY <1>1, <1>3, BeginStep DEF SetDefaultFirmware
<1>4. ASSUME ReleaseFirmware(a, f, name)
      PROVE  CatalogInv'
  <2> DEFINE r == [firmware[f] EXCEPT !.released = TRUE]
  <2>1. /\ r \in FirmwareRecords /\ r.product = firmware[f].product
        /\ r.current = firmware[f].current /\ Stored(f)
    BY <1>1, <1>4, RecordShapes DEF ReleaseFirmware
  <2>2. BeginRequest(a, f, "release", "save", r, FALSE, "none")
    BY <1>4 DEF ReleaseFirmware
  <2> HIDE DEF r
  <2> QED BY <2>1, <2>2, BeginStep
<1>5. ASSUME NEW u \in Updates, UpdateFirmware(a, f, name, u)
      PROVE  CatalogInv'
  <2> DEFINE r == Updated(firmware[f], u)
             promote == "yes" \in {u.default, u.current}
             label == IF u.image = "none" THEN AfterBinary(promote) ELSE "write"
  <2>1. /\ r \in FirmwareRecords /\ r.product = firmware[f].product /\ Stored(f)
        /\ r.current /\ u.current # "yes" => firmware[f].current
    BY <1>1, <1>5, UpdatedShape DEF UpdateFirmware
  <2>2. BeginRequest(a, f, "update", label, r, promote, u.image)
    BY <1>5 DEF UpdateFirmware
  <2>3. /\ label \in {"write", "list", "save"} /\ promote \in BOOLEAN
        /\ label = "list" => promote
        /\ label = "save" => ~promote
        /\ ~promote => u.current # "yes"
    BY DEF AfterBinary
  <2>4. u.image \in Images \union {"none"}
    BY CatalogAssumption
  <2> HIDE DEF r, promote, label
  <2> QED BY <2>1, <2>2, <2>3, <2>4, BeginStep
<1>6. ASSUME DeleteFirmware(a, f, name)
      PROVE  CatalogInv'
  BY <1>1, <1>6, BeginStep DEF DeleteFirmware
<1> QED BY <1>2, <1>3, <1>4, <1>5, <1>6

\* A request ends, maybe with a change of the records.
LEMMA EndStep ==
  ASSUME CatalogInv, overlap' = overlap \union Overlaps',
         NEW a \in Admins, Busy(a), EndRequest(a),
         firmware' \in [Firmwares -> Records], OneCurrent'
  PROVE  CatalogInv'
<1>1. NoRequest \in Requests /\ NoRequest.pc = "idle" /\ NoRequest.clear = {}
  BY DEF NoRequest, Requests, AdminLabels, CatalogInv, CatalogTypeOK, Records
<1>2. admin \in [Admins -> Requests]
  BY DEF CatalogInv, CatalogTypeOK
<1>3. /\ admin' \in [Admins -> Requests] /\ admin'[a] = NoRequest
      /\ \A b \in Admins : b # a => admin'[b] = admin[b]
  BY <1>1, <1>2 DEF EndRequest
<1>4. ~Busy(a)' /\ ClearsOthers(a)'
  BY <1>1, <1>3 DEF Busy, AdminAt, ClearsOthers
<1> QED BY <1>1, <1>3, <1>4, AloneStep

\* A request moves on and changes no record.
LEMMA MoveStep ==
  ASSUME CatalogInv, overlap' = overlap \union Overlaps', UNCHANGED firmware,
         NEW a \in Admins, Busy(a),
         NEW label \in {"removeOld", "list", "save", "delete", "remove"},
         admin' = [admin EXCEPT ![a].pc = label],
         label = "list" => admin[a].promote,
         label = "save" => ~admin[a].promote,
         label \in {"removeOld", "save"} => admin[a].pc \in {"write", "removeOld"}
  PROVE  CatalogInv'
<1>1. /\ admin \in [Admins -> Requests] /\ firmware \in [Firmwares -> Records]
      /\ OneCurrent
      /\ \A f \in admin[a].clear : admin[a].list[f] # NoFirmware
      /\ admin[a].fw \in Firmwares /\ admin[a].copy # NoFirmware
  BY DEF CatalogInv, CatalogTypeOK
<1>2. admin[a] \in Requests
  BY <1>1
<1> DEFINE next == [admin[a] EXCEPT !.pc = label]
<1>3. /\ next \in Requests /\ next.pc = label /\ next.fw = admin[a].fw
      /\ next.copy = admin[a].copy /\ next.promote = admin[a].promote
      /\ next.clear = admin[a].clear /\ next.list = admin[a].list
  BY <1>2 DEF Requests, AdminLabels
<1>4. admin' = [admin EXCEPT ![a] = next]
  OBVIOUS
<1> HIDE DEF next
<1>5. /\ admin'[a] = next /\ admin' \in [Admins -> Requests]
      /\ \A b \in Admins : b # a => admin'[b] = admin[b]
  BY <1>1, <1>3, <1>4
<1>6. ASSUME "admins" \notin overlap'
      PROVE  ClearsOthers(a)'
  <2>1. ClearsOthers(a)
    BY <1>6, AloneRecorded DEF CatalogInv
  <2>2. \A name : CurrentOf(name)' = CurrentOf(name)
    BY DEF CurrentOf, OfProduct, Stored
  <2> QED BY <1>3, <1>5, <2>1, <2>2 DEF ClearsOthers, AdminAt
<1>7. OneCurrent'
  BY <1>1, SameRecords
<1> QED BY <1>1, <1>3, <1>5, <1>6, <1>7, AloneStep

\* A step that fails ends the request, with the records as they are.
LEMMA RefusedStep ==
  ASSUME CatalogInv, overlap' = overlap \union Overlaps', UNCHANGED firmware,
         NEW a \in Admins, Busy(a), EndRequest(a)
  PROVE  CatalogInv'
<1>1. firmware' \in [Firmwares -> Records] /\ OneCurrent'
  BY SameRecords DEF CatalogInv, CatalogTypeOK
<1> QED BY <1>1, EndStep

\* The steps on binaries and the check for flash jobs leave the records alone.
LEMMA BinarySteps ==
  ASSUME CatalogInv, overlap' = overlap \union Overlaps', NEW a \in Admins,
         \/ WriteBinary(a) \/ RemoveOldBinary(a) \/ CheckFlashJobs(a) \/ RemoveBinary(a)
  PROVE  CatalogInv'
<1>1. admin[a] \in Requests
  BY DEF CatalogInv, CatalogTypeOK
<1>2. admin[a].promote \in BOOLEAN
  BY <1>1 DEF Requests
<1>3. CASE WriteBinary(a)
  <2>1. Busy(a) /\ AdminAt(a, "write") /\ UNCHANGED firmware
    BY <1>3 DEF WriteBinary, Busy, AdminAt
  <2>2. CASE Refuse(a)
    BY <2>1, <2>2, RefusedStep DEF Refuse
  <2>3. CASE AdminGoto(a, "removeOld")
    BY <2>1, <2>3, MoveStep DEF AdminGoto, AdminAt
  <2>4. CASE AdminGoto(a, AfterBinary(admin[a].promote))
    <3>1. CASE admin[a].promote
      BY <2>1, <2>4, <3>1, MoveStep DEF AdminGoto, AfterBinary
    <3>2. CASE ~admin[a].promote
      BY <2>1, <2>4, <3>2, MoveStep DEF AdminGoto, AfterBinary, AdminAt
    <3> QED BY <3>1, <3>2
  <2> QED BY <1>3, <2>2, <2>3, <2>4 DEF WriteBinary
<1>4. CASE RemoveOldBinary(a)
  <2>1. /\ Busy(a) /\ AdminAt(a, "removeOld") /\ UNCHANGED firmware
        /\ admin' = [admin EXCEPT ![a].pc = AfterBinary(admin[a].promote)]
    BY <1>4 DEF RemoveOldBinary, Busy, AdminAt
  <2>2. CASE admin[a].promote
    BY <2>1, <2>2, MoveStep DEF AfterBinary
  <2>3. CASE ~admin[a].promote
    BY <2>1, <2>3, MoveStep DEF AfterBinary, AdminAt
  <2> QED BY <2>2, <2>3
<1>5. CASE CheckFlashJobs(a)
  <2>1. Busy(a) /\ UNCHANGED firmware
    BY <1>5 DEF CheckFlashJobs, Busy, AdminAt, records
  <2>2. CASE EndRequest(a)
    BY <2>1, <2>2, RefusedStep
  <2>3. CASE admin' = [admin EXCEPT ![a].pc = "delete"]
    BY <2>1, <2>3, MoveStep
  <2> QED BY <1>5, <2>2, <2>3 DEF CheckFlashJobs, AdminGoto
<1>6. CASE RemoveBinary(a)
  <2>1. Busy(a) /\ UNCHANGED firmware /\ EndRequest(a)
    BY <1>6 DEF RemoveBinary, Busy, AdminAt, Refuse, AdminGoto
  <2> QED BY <2>1, RefusedStep
<1> QED BY <1>3, <1>4, <1>5, <1>6

\* Listing finds all records that have the flag.
LEMMA ListStep ==
  ASSUME CatalogInv, overlap' = overlap \union Overlaps', NEW a \in Admins, ListCurrent(a)
  PROVE  CatalogInv'
<1>1. /\ Busy(a) /\ AdminAt(a, "list") /\ UNCHANGED firmware
  BY DEF ListCurrent, Busy, AdminAt, records
<1> DEFINE found == CurrentOf(admin[a].copy.product)
           label == IF found = {} THEN "save" ELSE "clear"
           next == [admin[a] EXCEPT !.clear = found, !.list = firmware, !.pc = label]
<1>2. CASE Refuse(a)
  BY <1>1, <1>2, RefusedStep DEF Refuse
<1>3. CASE admin' = [admin EXCEPT ![a].clear = found, ![a].list = firmware,
                                  ![a].pc = label]
  <2>1. /\ admin \in [Admins -> Requests] /\ firmware \in [Firmwares -> Records]
        /\ OneCurrent /\ admin[a] \in Requests
        /\ admin[a].fw \in Firmwares /\ admin[a].copy # NoFirmware
    BY <1>1 DEF CatalogInv, CatalogTypeOK
  <2>2. /\ found \in SUBSET Firmwares
        /\ \A f \in found : firmware[f] # NoFirmware
    BY DEF CurrentOf, OfProduct, Stored
  <2>3. /\ label \in {"save", "clear"}
        /\ label = "save" => found = {}
    OBVIOUS
  <2>4. admin' = [admin EXCEPT ![a] = next]
    BY <1>3
  <2> HIDE DEF found, label
  <2>5. /\ next \in Requests /\ next.pc = label /\ next.fw = admin[a].fw
        /\ next.copy = admin[a].copy /\ next.promote = admin[a].promote
        /\ next.clear = found /\ next.list = firmware
    BY <2>1, <2>2, <2>3 DEF Requests, AdminLabels
  <2> HIDE DEF next
  <2>6. /\ admin'[a] = next /\ admin' \in [Admins -> Requests]
        /\ \A b \in Admins : b # a => admin'[b] = admin[b]
    BY <2>1, <2>4, <2>5
  <2>7. ASSUME "admins" \notin overlap'
        PROVE  ClearsOthers(a)'
    <3>1. admin[a].promote
      BY <1>1, <2>7, AloneRecorded DEF CatalogInv, ClearsOthers
    <3>2. \A name : CurrentOf(name)' = CurrentOf(name)
      BY <1>1 DEF CurrentOf, OfProduct, Stored
    <3>3. CurrentOf(admin'[a].copy.product) = found
      BY <2>5, <2>6 DEF found
    <3> QED BY <2>3, <2>5, <2>6, <3>1, <3>2, <3>3 DEF ClearsOthers, AdminAt
  <2>8. OneCurrent'
    BY <1>1, <2>1, SameRecords
  <2> QED BY <1>1, <2>1, <2>2, <2>5, <2>6, <2>7, <2>8, AloneStep
<1> QED BY <1>2, <1>3 DEF ListCurrent, CurrentOf

\* A record saved without the flag leaves the others as they are.
LEMMA SavedNotCurrent ==
  ASSUME CatalogInv, overlap' = overlap \union Overlaps',
         NEW f \in Firmwares, NEW r \in Records, ~r.current,
         firmware' = [firmware EXCEPT ![f] = r]
  PROVE  /\ firmware' \in [Firmwares -> Records]
         /\ OneCurrent'
         /\ \A name : CurrentOf(name)' \subseteq CurrentOf(name) \ {f}
<1>1. firmware \in [Firmwares -> Records]
  BY DEF CatalogInv, CatalogTypeOK
<1>2. firmware' \in [Firmwares -> Records]
  BY <1>1
<1>3. \A g \in Firmwares : firmware'[g].current => firmware'[g] = firmware[g] /\ g # f
  BY <1>1
<1>4. OneCurrent'
  BY <1>3, AloneRecorded DEF CatalogInv, OneCurrent
<1> QED BY <1>2, <1>3, <1>4 DEF CurrentOf, OfProduct, Stored

\* Clearing takes the flag from one record of the list.
LEMMA ClearStep ==
  ASSUME CatalogInv, overlap' = overlap \union Overlaps', NEW a \in Admins, ClearCurrent(a)
  PROVE  CatalogInv'
<1>1. Busy(a) /\ AdminAt(a, "clear")
  BY DEF ClearCurrent, Busy, AdminAt
<1>2. CASE UNCHANGED firmware /\ Refuse(a)
  BY <1>1, <1>2, RefusedStep DEF Refuse
<1>3. ASSUME NEW f \in admin[a].clear,
             firmware' = [firmware EXCEPT ![f] = Cleared(admin[a].list[f])],
             admin' = [admin EXCEPT ![a].clear = @ \ {f},
                                    ![a].pc = IF admin[a].clear = {f} THEN "save" ELSE @]
      PROVE  CatalogInv'
  <2>1. /\ admin \in [Admins -> Requests] /\ admin[a] \in Requests
        /\ admin[a].fw \in Firmwares /\ admin[a].copy # NoFirmware
        /\ \A g \in admin[a].clear : admin[a].list[g] # NoFirmware
    BY <1>1 DEF CatalogInv, CatalogTypeOK
  <2>2. admin[a].clear \subseteq Firmwares /\ admin[a].list \in [Firmwares -> Records]
    BY <2>1 DEF Requests
  <2>3. f \in Firmwares /\ admin[a].list[f] \in FirmwareRecords
    BY <2>1, <2>2, PresentRecords
  <2>4. Cleared(admin[a].list[f]) \in Records /\ ~Cleared(admin[a].list[f]).current
    BY <2>3, ClearedShape DEF Records
  <2>5. /\ firmware' \in [Firmwares -> Records] /\ OneCurrent'
        /\ \A name : CurrentOf(name)' \subseteq CurrentOf(name) \ {f}
    BY <1>3, <2>3, <2>4, SavedNotCurrent
  <2> DEFINE label == IF admin[a].clear = {f} THEN "save" ELSE "clear"
             next == [admin[a] EXCEPT !.clear = admin[a].clear \ {f}, !.pc = label]
  <2>6. admin' = [admin EXCEPT ![a] = next]
    BY <1>1, <1>3, <2>1 DEF AdminAt
  <2>7. label \in {"save", "clear"} /\ (label = "save" => admin[a].clear = {f})
    OBVIOUS
  <2> HIDE DEF label
  <2>8. /\ next \in Requests /\ next.pc = label /\ next.fw = admin[a].fw
        /\ next.copy = admin[a].copy /\ next.promote = admin[a].promote
        /\ next.clear = admin[a].clear \ {f} /\ next.list = admin[a].list
    BY <2>1, <2>2, <2>7 DEF Requests, AdminLabels
  <2> HIDE DEF next
  <2>9. /\ admin'[a] = next /\ admin' \in [Admins -> Requests]
        /\ \A b \in Admins : b # a => admin'[b] = admin[b]
    BY <2>1, <2>6, <2>8
  <2>10. ASSUME "admins" \notin overlap'
         PROVE  ClearsOthers(a)'
    <3>1. admin[a].promote /\ CurrentOf(admin[a].copy.product) \subseteq admin[a].clear
      BY <1>1, <2>10, AloneRecorded DEF CatalogInv, ClearsOthers
    <3>2. \A name : name = admin[a].copy.product
                      => CurrentOf(name)' \subseteq admin[a].clear \ {f}
      BY <2>5, <3>1
    <3> QED BY <2>7, <2>8, <2>9, <3>1, <3>2 DEF ClearsOthers, AdminAt
  <2> QED BY <1>1, <2>1, <2>5, <2>8, <2>9, <2>10, AloneStep
<1> QED BY <1>2, <1>3 DEF ClearCurrent

\* What is saved is current alone: a promoted record when all others have been
\* cleared, a copy with the flag when its record has it.
LEMMA SaveStep ==
  ASSUME CatalogInv, overlap' = overlap \union Overlaps', NEW a \in Admins, SaveFirmware(a)
  PROVE  CatalogInv'
<1>1. Busy(a) /\ AdminAt(a, "save")
  BY DEF SaveFirmware, Busy, AdminAt
<1>2. CASE Refuse(a) /\ UNCHANGED firmware
  BY <1>1, <1>2, RefusedStep DEF Refuse
<1> DEFINE f == admin[a].fw
           r == IF admin[a].promote THEN Promoted(admin[a].copy) ELSE admin[a].copy
<1>3. CASE firmware' = [firmware EXCEPT ![f] = r] /\ AdminGoto(a, "idle")
  <2>1. /\ firmware \in [Firmwares -> Records] /\ admin[a] \in Requests
        /\ f \in Firmwares /\ admin[a].copy # NoFirmware
    BY <1>1 DEF CatalogInv, CatalogTypeOK
  <2>2. admin[a].copy \in FirmwareRecords
    BY <2>1, PresentRecords DEF Requests
  <2>3. r \in FirmwareRecords /\ r.product = admin[a].copy.product
    BY <2>2, RecordShapes
  <2>4. r \in Records
    BY <2>3 DEF Records
  <2>5. CASE ~r.current
    BY <1>1, <1>3, <2>1, <2>4, <2>5, SavedNotCurrent, EndStep DEF AdminGoto
  <2>6. CASE r.current
    <3>1. "admins" \notin overlap' =>
            \/ CurrentOf(r.product) = {}
            \/ f \in CurrentOf(r.product)
      BY <1>1, <2>3, <2>6, AloneRecorded DEF CatalogInv, ClearsOthers, AdminAt
    <3> HIDE DEF f, r
    <3>2. firmware' \in [Firmwares -> Records]
      BY <1>3, <2>1, <2>4
    <3>3. /\ firmware'[f] = r
          /\ \A g \in Firmwares : g # f => firmware'[g] = firmware[g]
      BY <1>3, <2>1
    <3>4. NoFirmware.current = FALSE
      BY DEF NoFirmware
    <3>5. \A g \in Firmwares : firmware[g].current /\ firmware[g].product = r.product
                                 => g \in CurrentOf(r.product)
      BY <2>1, <3>4 DEF CurrentOf, OfProduct, Stored
    <3>6. OneCurrent /\ "admins" \notin overlap =>
            \A g \in Firmwares : f \in CurrentOf(r.product) /\ g \in CurrentOf(r.product)
                                   => g = f
      BY <2>1 DEF OneCurrent, CurrentOf, OfProduct
    <3>7. "admins" \notin overlap' =>
            \A g \in Firmwares :
              g # f /\ firmware'[g].current => firmware'[g].product # r.product
      BY <3>1, <3>3, <3>5, <3>6, AloneRecorded DEF CatalogInv
    <3>8. OneCurrent'
      BY <3>3, <3>7, AloneRecorded DEF OneCurrent, CatalogInv
    <3> QED BY <1>1, <1>3, <3>2, <3>8, EndStep DEF AdminGoto
  <2> QED BY <2>5, <2>6
<1> QED BY <1>2, <1>3 DEF SaveFirmware

\* A record that is deleted is not current.
LEMMA DeleteStep ==
  ASSUME CatalogInv, overlap' = overlap \union Overlaps', NEW a \in Admins, DeleteRecord(a)
  PROVE  CatalogInv'
<1>1. Busy(a) /\ AdminAt(a, "delete")
  BY DEF DeleteRecord, Busy, AdminAt
<1>2. CASE Refuse(a) /\ UNCHANGED firmware
  BY <1>1, <1>2, RefusedStep DEF Refuse
<1>3. CASE /\ firmware' = [firmware EXCEPT ![admin[a].fw] = NoFirmware]
           /\ AdminGoto(a, IF Stored(admin[a].fw) THEN "remove" ELSE "idle")
  <2>1. /\ admin \in [Admins -> Requests] /\ admin[a] \in Requests
        /\ admin[a].fw \in Firmwares /\ admin[a].copy # NoFirmware
        /\ \A g \in admin[a].clear : admin[a].list[g] # NoFirmware
    BY <1>1 DEF CatalogInv, CatalogTypeOK
  <2>2. NoFirmware \in Records /\ ~NoFirmware.current
    BY DEF Records, NoFirmware
  <2>3. firmware' \in [Firmwares -> Records] /\ OneCurrent'
    BY <1>3, <2>1, <2>2, SavedNotCurrent
  <2>4. CASE EndRequest(a)
    BY <1>1, <2>3, <2>4, EndStep
  <2>5. CASE admin' = [admin EXCEPT ![a].pc = "remove"]
    <3> DEFINE next == [admin[a] EXCEPT !.pc = "remove"]
    <3>1. /\ next \in Requests /\ next.pc = "remove" /\ next.fw = admin[a].fw
          /\ next.copy = admin[a].copy
          /\ next.clear = admin[a].clear /\ next.list = admin[a].list
      BY <2>1 DEF Requests, AdminLabels
    <3>2. admin' = [admin EXCEPT ![a] = next]
      BY <2>5
    <3> HIDE DEF next
    <3>3. /\ admin'[a] = next /\ admin' \in [Admins -> Requests]
          /\ \A b \in Admins : b # a => admin'[b] = admin[b]
      BY <2>1, <3>1, <3>2
    <3>4. ClearsOthers(a)'
      BY <3>1, <3>3 DEF ClearsOthers, AdminAt
    <3> QED BY <1>1, <2>1, <2>3, <3>1, <3>3, <3>4, AloneStep
  <2> QED BY <1>3, <2>4, <2>5 DEF AdminGoto
<1> QED BY <1>2, <1>3 DEF DeleteRecord

\* Steps of devices and of flashes leave the records and the requests alone.
LEMMA OtherSteps ==
  ASSUME CatalogInv, overlap' = overlap \union Overlaps', UNCHANGED <<firmware, admin>>
  PROVE  CatalogInv'
<1>1. CatalogTypeOK'
  BY AloneRecorded DEF CatalogInv, CatalogTypeOK, Busy, AdminAt
<1>2. OneCurrent'
  BY SameRecords DEF CatalogInv
<1>3. ASSUME "admins" \notin overlap', NEW a \in Admins
      PROVE  ClearsOthers(a)'
  <2>1. ClearsOthers(a)
    BY <1>3, AloneRecorded DEF CatalogInv
  <2> QED BY <2>1 DEF ClearsOthers, AdminAt, CurrentOf, OfProduct, Stored
<1>4. "admins" \notin overlap' => \A a \in Admins : ClearsOthers(a)'
  BY <1>3
<1> QED BY <1>1, <1>2, <1>4, AloneRecorded DEF CatalogInv

\* A crash ends all requests.
LEMMA CrashStep ==
  ASSUME CatalogInv, overlap' = overlap \union Overlaps', CatalogCrash
  PROVE  CatalogInv'
<1>1. NoRequest \in Requests /\ NoRequest.pc = "idle" /\ NoRequest.clear = {}
  BY DEF NoRequest, Requests, AdminLabels, CatalogInv, CatalogTypeOK, Records
<1>2. /\ admin' \in [Admins -> Requests]
      /\ \A a \in Admins : admin'[a].pc = "idle" /\ admin'[a].clear = {}
  BY <1>1 DEF CatalogCrash
<1>3. UNCHANGED firmware
  BY DEF CatalogCrash, records
<1>4. CatalogTypeOK'
  BY <1>2, <1>3, AloneRecorded DEF CatalogInv, CatalogTypeOK, Busy, AdminAt
<1>5. OneCurrent'
  BY <1>3, SameRecords DEF CatalogInv
<1>6. \A a \in Admins : ClearsOthers(a)'
  BY <1>2 DEF ClearsOthers, AdminAt
<1> QED BY <1>4, <1>5, <1>6, AloneRecorded DEF CatalogInv

LEMMA CatalogInvInit == CatalogInit => CatalogInv
<1> SUFFICES ASSUME CatalogInit PROVE CatalogInv
  OBVIOUS
<1>1. NoFirmware \in Records /\ ~NoFirmware.current
  BY DEF NoFirmware, Records
<1>2. firmware \in [Firmwares -> Records] /\ \A f \in Firmwares : ~firmware[f].current
  BY <1>1 DEF CatalogInit
<1>3. NoRequest \in Requests /\ NoRequest.pc = "idle" /\ NoRequest.clear = {}
  BY <1>1 DEF NoRequest, Requests, AdminLabels
<1>4. /\ admin \in [Admins -> Requests]
      /\ \A a \in Admins : admin[a].pc = "idle" /\ admin[a].clear = {}
  BY <1>3 DEF CatalogInit
<1> QED
  BY <1>2, <1>4 DEF CatalogInv, CatalogTypeOK, OneCurrent, ClearsOthers, Busy, AdminAt,
                    CatalogInit

\* A step of a flash leaves the catalog alone, and counts its failures.
LEMMA StarterFrame ==
  ASSUME NEW s \in Starters, StarterStep(s)
  PROVE  /\ UNCHANGED <<firmware, binary, admin>>
         /\ broken' = broken \/ broken' = broken + 1
<1>1. CASE CheckForUpdate(s) \/ SelectFirmware(s) \/ BuildManifest(s) \/ BeginFlash(s)
  BY <1>1 DEF CheckForUpdate, SelectFirmware, BuildManifest, BeginFlash, records
<1>2. CASE HasFlashJob(s) \/ CreateFlashJob(s)
  BY <1>2 DEF HasFlashJob, CreateFlashJob, Breaks, records
<1>3. CASE LoadChunk(s) \/ MarkChunk(s)
  BY <1>3 DEF LoadChunk, MarkChunk, Breaks, records
<1>4. CASE SendChunk(s) \/ CompleteDeviceFlash(s)
  BY <1>4 DEF SendChunk, CompleteDeviceFlash, records
<1>5. CASE \/ \E f \in Firmwares \union {"none"} : RequestFlash(s, f)
           \/ \E op \in {"retry", "abort"} : SignalFlash(s, op)
  BY <1>5 DEF RequestFlash, SignalFlash, records
<1>6. ASSUME NEW label, NEW status, NEW next, SaveJob(s, label, status, next)
      PROVE  /\ UNCHANGED <<firmware, binary, admin>>
             /\ broken' = broken \/ broken' = broken + 1
  BY <1>6 DEF SaveJob, Breaks, records
<1>7. CASE MarkFlashJobRunning(s) \/ FinishFlashJob(s) \/ SaveChunk(s) \/ FailFlashJob(s)
  BY <1>6, <1>7 DEF MarkFlashJobRunning, FinishFlashJob, SaveChunk, FailFlashJob
<1> QED BY <1>1, <1>2, <1>3, <1>4, <1>5, <1>7 DEF StarterStep

LEMMA CatalogInvStep == CatalogInv /\ [CatalogNext]_catalogVars => CatalogInv'
<1> SUFFICES ASSUME CatalogInv, [CatalogNext]_catalogVars PROVE CatalogInv'
  OBVIOUS
<1>1. CASE UNCHANGED catalogVars
  BY <1>1 DEF catalogVars, CatalogInv, CatalogTypeOK, OneCurrent, ClearsOthers, Busy,
              AdminAt, CurrentOf, OfProduct, Stored
<1>2. CASE CatalogNext
  <2>1. overlap' = overlap \union Overlaps'
    BY <1>2 DEF CatalogNext
  <2>2. ASSUME NEW a \in Admins, AdminStep(a)
        PROVE  CatalogInv'
    BY <2>1, <2>2, RequestsBegin, BinarySteps, ListStep, ClearStep, SaveStep, DeleteStep
       DEF AdminStep
  <2>3. ASSUME NEW s \in Starters, StarterStep(s)
        PROVE  CatalogInv'
    <3>1. UNCHANGED <<firmware, admin>>
      BY <2>3, StarterFrame
    <3> QED BY <2>1, <3>1, OtherSteps
  <2>4. CASE (\E j \in FlashJobs : ReportVersion(j)) \/ \E v \in 0 .. MaxVersion : DesireVersion(v)
    <3>1. UNCHANGED <<firmware, admin>>
      BY <2>4 DEF ReportVersion, DesireVersion, records
    <3> QED BY <2>1, <3>1, OtherSteps
  <2>5. CASE CatalogCrash
    BY <2>1, <2>5, CrashStep
  <2> QED BY <1>2, <2>2, <2>3, <2>4, <2>5 DEF CatalogNext
<1> QED BY <1>1, <1>2

\* The invariant of the catalog: requests that are alone clear the flags of other
\* firmwares before they set their own (clearCurrent, SetDefaultProductFirmware).
THEOREM CatalogInvariant == CatalogSpec => []CatalogInv
BY CatalogInvInit, CatalogInvStep, PTL DEF CatalogSpec

\* However many firmwares, requests, failing saves and crashes there are, a product
\* has one current firmware at most unless two requests run at the same time.
THEOREM OneCurrentFirmware == CatalogSpec => []OneCurrent
<1>1. CatalogInv => OneCurrent
  BY DEF CatalogInv
<1> QED BY <1>1, CatalogInvariant, PTL

\* Records and requests keep their types, and no request works on a missing record.
THEOREM CatalogTypes == CatalogSpec => []CatalogTypeOK
<1>1. CatalogInv => CatalogTypeOK
  BY DEF CatalogInv
<1> QED BY <1>1, CatalogInvariant, PTL

-----------------------------------------------------------------------------
(* Records and binaries *)

\* Requests have been alone, and nothing has failed.
Calm == "admins" \notin overlap /\ broken = 0

\* The only binary of f is the one with that extension, and it holds that.
Holds(f, ext, sum) ==
  \A e \in Extensions : binary[f][e] = IF e = ext THEN sum ELSE "none"

\* What a request at work has done to the binaries of its firmware.
InHand(a) ==
  LET r == admin[a]
      f == r.fw
      old == r.list[f].ext
  IN
  /\ r.pc = "write" =>
       /\ Holds(f, firmware[f].ext, firmware[f].sum)
       /\ old = firmware[f].ext /\ r.copy.sum = r.image
  /\ r.pc = "removeOld" =>
       /\ r.copy.ext # old
       /\ \A e \in Extensions :
            e # old => binary[f][e] = IF e = r.copy.ext THEN r.copy.sum ELSE "none"
  /\ r.pc \in {"list", "clear", "save"} => Holds(f, r.copy.ext, r.copy.sum)
  /\ r.pc = "clear" =>
       \A g \in r.clear : r.list[g].ext = firmware[g].ext /\ r.list[g].sum = firmware[g].sum
  /\ r.pc \in {"check", "delete"} =>
       Holds(f, firmware[f].ext, firmware[f].sum) /\ r.copy.ext = firmware[f].ext
  /\ r.pc = "remove" =>
       /\ firmware[f] = NoFirmware
       /\ \A e \in Extensions : e # r.copy.ext => binary[f][e] = "none"

\* The inductive invariant behind BinariesMatch.
MatchInv ==
  /\ binary \in [Firmwares -> [Extensions -> Images \union {"none"}]]
  /\ broken \in Nat
  /\ Calm =>
       /\ \A f \in Firmwares :
            (\A a \in Admins : Busy(a) => admin[a].fw # f)
              => Holds(f, firmware[f].ext, firmware[f].sum)
       /\ \A a \in Admins : InHand(a)

-----------------------------------------------------------------------------
(* Flashes *)

Statuses == {"queued", "running", "completed", "failed"}

JobRecords ==
  [status : Statuses, fw : Firmwares, version : 1 .. MaxVersion, ext : Extensions,
   manifest : Images, got : SUBSET Images, auto : BOOLEAN]

\* The labels of a goroutine with a job.
Working == {"begin", "run", "load", "finish", "send", "mark", "save", "done", "fail"}

StarterRecords ==
  [pc : {"idle", "jobs", "select", "manifest", "create"} \union Working,
   op : {"none", "auto", "request", "retry", "abort"}, fw : Firmwares \union {"none"},
   copy : Records, image : Images \union {"none"}, job : FlashJobs \union {"none"},
   held : Statuses \union {"none"}]

\* What a goroutine without a job has found.
Prepared(r) ==
  /\ r.pc = "jobs" \/ (r.op = "auto" /\ r.pc \in {"select", "manifest", "create"})
       => r.fw \in Firmwares
  /\ r.pc \in {"manifest", "create"} => r.fw \in Firmwares /\ r.copy # NoFirmware
  /\ r.pc = "create" => r.image \in Images

\* What one with a job has: what it sends is of the job's image, what it saves a status.
InStep(r, job) ==
  /\ job \in JobRecords
  /\ r.pc \in {"begin", "send"} \/ (r.pc = "run" /\ r.op = "retry") => r.image = job.manifest
  /\ r.pc = "save" => r.held \in Statuses

\* Types of the flashes and of the goroutines at work on them.
FlashesOK ==
  /\ flash \in [FlashJobs -> JobRecords \union {NoFlash}]
  /\ starter \in [Starters -> StarterRecords]
  /\ \A j \in FlashJobs : flash[j].got \subseteq {flash[j].manifest}
  /\ \A s \in Starters : Prepared(starter[s])
  /\ \A s \in Starters : starter[s].pc \in Working =>
       starter[s].job \in FlashJobs /\ InStep(starter[s], flash[starter[s].job])

\* No request on the catalog has met a start of a flash, and nothing has failed.
Apart == "both" \notin overlap /\ broken = 0

\* The inductive invariant behind the first part of FlashKeepsImage.
KeptInv ==
  Apart =>
    /\ \A a \in Admins, s \in Starters : ~(Busy(a) /\ Starting(s))
    /\ \A j \in FlashJobs \ revived : Active(j) => Stored(flash[j].fw)
    /\ \A s \in Starters : starter[s].pc \in {"manifest", "create"} => Stored(starter[s].fw)
    /\ \A a \in Admins :
         AdminAt(a, "delete") =>
           \A j \in FlashJobs \ revived : ~(Active(j) /\ flash[j].fw = admin[a].fw)

\* Flashes have been started one after the other, and nothing has failed.
InTurn == "starters" \notin overlap /\ broken = 0

\* The inductive invariant behind NoRepeatedUpdate.
FreshInv ==
  InTurn =>
    /\ \A s, t \in Starters : Starting(s) /\ Starting(t) => s = t
    /\ \A i, j \in FlashJobs \ revived :
         /\ flash[i].auto /\ flash[j].auto /\ flash[i].fw = flash[j].fw
         /\ "failed" \notin {flash[i].status, flash[j].status}
         => i = j
    /\ \A s \in Starters :
         starter[s].pc \in {"select", "manifest", "create"} /\ starter[s].op = "auto" =>
           \A j \in FlashJobs \ revived :
             flash[j].auto /\ flash[j].fw = starter[s].fw => flash[j].status = "failed"

-----------------------------------------------------------------------------
(* Binaries go with their records *)

\* A request that moves on keeps what it has.
LEMMA RequestMoved ==
  ASSUME admin \in [Admins -> Requests], NEW a \in Admins, NEW label \in AdminLabels,
         admin' = [admin EXCEPT ![a].pc = label]
  PROVE  /\ admin'[a].pc = label /\ admin'[a].fw = admin[a].fw
         /\ admin'[a].copy = admin[a].copy /\ admin'[a].promote = admin[a].promote
         /\ admin'[a].image = admin[a].image /\ admin'[a].list = admin[a].list
         /\ admin'[a].clear = admin[a].clear
         /\ \A b \in Admins : b # a => admin'[b] = admin[b]
<1> DEFINE next == [admin[a] EXCEPT !.pc = label]
<1>1. admin[a] \in Requests
  OBVIOUS
<1>2. /\ next.pc = label /\ next.fw = admin[a].fw
      /\ next.copy = admin[a].copy /\ next.promote = admin[a].promote
      /\ next.image = admin[a].image /\ next.list = admin[a].list
      /\ next.clear = admin[a].clear
  BY <1>1 DEF Requests
<1>3. admin' = [admin EXCEPT ![a] = next]
  OBVIOUS
<1> HIDE DEF next
<1> QED BY <1>2, <1>3

\* A request that ends has nothing left.
LEMMA RequestEnded ==
  ASSUME admin \in [Admins -> Requests], NEW a \in Admins, EndRequest(a)
  PROVE  /\ admin'[a].pc = "idle" /\ ~Busy(a)'
         /\ \A b \in Admins : b # a => admin'[b] = admin[b]
BY DEF EndRequest, NoRequest, Busy, AdminAt

\* What a step of one request has to keep: other firmwares are as they were.
LEMMA MatchStep ==
  ASSUME CatalogInv, CatalogInv', MatchInv, Calm,
         NEW a \in Admins, NEW f \in Firmwares, Busy(a) \/ Busy(a)',
         Busy(a) => admin[a].fw = f, Busy(a)' => admin'[a].fw = f,
         \A b \in Admins : b # a => admin'[b] = admin[b],
         \A g \in Firmwares : g # f =>
           /\ binary'[g] = binary[g]
           /\ firmware'[g].ext = firmware[g].ext /\ firmware'[g].sum = firmware[g].sum,
         binary' \in [Firmwares -> [Extensions -> Images \union {"none"}]],
         UNCHANGED broken,
         Calm' => InHand(a)',
         Calm' /\ ~Busy(a)' =>
           \A e \in Extensions :
             binary'[f][e] = IF e = firmware'[f].ext THEN firmware'[f].sum ELSE "none"
  PROVE  MatchInv'
<1> SUFFICES ASSUME Calm'
             PROVE  /\ \A g \in Firmwares :
                         (\A b \in Admins : Busy(b)' => admin'[b].fw # g)
                           => Holds(g, firmware[g].ext, firmware[g].sum)'
                    /\ \A b \in Admins : InHand(b)'
  BY DEF MatchInv
<1>1. \A b \in Admins : b # a => ~Busy(b) /\ ~Busy(b)' /\ admin'[b].pc = "idle"
  <2>1. \A b \in Admins : b # a => (Busy(b) <=> Busy(b)')
    BY DEF Busy, AdminAt
  <2>2. \A b \in Admins : b # a => ~Busy(b)
    BY <2>1 DEF CatalogInv, Calm
  <2> QED BY <2>1, <2>2 DEF Busy, AdminAt
<1>2. ASSUME NEW b \in Admins PROVE InHand(b)'
  <2>1. CASE b = a
    BY <2>1
  <2>2. CASE b # a
    BY <1>1, <2>2 DEF InHand
  <2> QED BY <2>1, <2>2
<1>3. ASSUME NEW g \in Firmwares, \A b \in Admins : Busy(b)' => admin'[b].fw # g
      PROVE  Holds(g, firmware[g].ext, firmware[g].sum)'
  <2>1. CASE g = f
    <3>1. ~Busy(a)'
      BY <1>3, <2>1
    <3> QED BY <2>1, <3>1 DEF Holds
  <2>2. CASE g # f
    <3>1. \A b \in Admins : Busy(b) => admin[b].fw # g
      BY <1>1, <2>2
    <3>2. Holds(g, firmware[g].ext, firmware[g].sum)
      BY <3>1 DEF MatchInv
    <3> QED BY <2>2, <3>2 DEF Holds
  <2> QED BY <2>1, <2>2
<1> QED BY <1>2, <1>3

\* What the steps of a request leave alone.
LEMMA RequestFrame ==
  ASSUME NEW a \in Admins, AdminStep(a)
  PROVE  /\ UNCHANGED flashing
         /\ broken' = broken \/ broken' = broken + 1
         /\ UNCHANGED binary \/ WriteBinary(a) \/ RemoveOldBinary(a) \/ RemoveBinary(a)
         /\ UNCHANGED firmware \/ ClearCurrent(a) \/ SaveFirmware(a) \/ DeleteRecord(a)
<1>1. CASE \E f, op, label, copy, promote, image :
             BeginRequest(a, f, op, label, copy, promote, image)
  BY <1>1 DEF BeginRequest, records
<1>2. ASSUME NEW f, NEW name,
             \/ \E u \in Uploads : UploadFirmware(a, f, name, u)
             \/ SetDefaultFirmware(a, f, name)
             \/ ReleaseFirmware(a, f, name)
             \/ \E u \in Updates : UpdateFirmware(a, f, name, u)
             \/ DeleteFirmware(a, f, name)
      PROVE  \E g, op, label, copy, promote, image :
               BeginRequest(a, g, op, label, copy, promote, image)
  BY <1>2, Zenon DEF UploadFirmware, SetDefaultFirmware, ReleaseFirmware, UpdateFirmware,
     DeleteFirmware
<1>3. CASE WriteBinary(a)
  BY <1>3 DEF WriteBinary, AdminGoto, Refuse, Breaks
<1>4. CASE RemoveOldBinary(a)
  BY <1>4 DEF RemoveOldBinary, Breaks
<1>5. CASE ListCurrent(a)
  BY <1>5 DEF ListCurrent, Refuse, Breaks, records
<1>6. CASE ClearCurrent(a)
  BY <1>6 DEF ClearCurrent, Refuse, Breaks
<1>7. CASE SaveFirmware(a)
  BY <1>7 DEF SaveFirmware, AdminGoto, Refuse, Breaks
<1>8. CASE CheckFlashJobs(a)
  BY <1>8 DEF CheckFlashJobs, AdminGoto, Breaks, records
<1>9. CASE DeleteRecord(a)
  BY <1>9 DEF DeleteRecord, AdminGoto, Refuse, Breaks
<1>10. CASE RemoveBinary(a)
  BY <1>10 DEF RemoveBinary, AdminGoto, Refuse, Breaks
<1>11. CASE \E f \in Firmwares, name \in ProductNames :
              \/ \E u \in Uploads : UploadFirmware(a, f, name, u)
              \/ SetDefaultFirmware(a, f, name)
              \/ ReleaseFirmware(a, f, name)
              \/ \E u \in Updates : UpdateFirmware(a, f, name, u)
              \/ DeleteFirmware(a, f, name)
  <2>1. PICK f \in Firmwares, name \in ProductNames :
              \/ \E u \in Uploads : UploadFirmware(a, f, name, u)
              \/ SetDefaultFirmware(a, f, name)
              \/ ReleaseFirmware(a, f, name)
              \/ \E u \in Updates : UpdateFirmware(a, f, name, u)
              \/ DeleteFirmware(a, f, name)
    BY <1>11
  <2> QED BY <1>1, <1>2, <2>1
<1> QED BY <1>3, <1>4, <1>5, <1>6, <1>7, <1>8, <1>9, <1>10, <1>11 DEF AdminStep

\* Faults are counted, and calm has been calm before.
LEMMA FaultsCounted ==
  ASSUME CatalogNext, broken \in Nat
  PROVE  /\ broken' \in Nat
         /\ broken' = broken \/ broken' = broken + 1
         /\ overlap \subseteq overlap'
<1>1. broken' = broken \/ broken' = broken + 1
  <2>1. ASSUME NEW a \in Admins, AdminStep(a)
        PROVE  broken' = broken \/ broken' = broken + 1
    BY <2>1, RequestFrame
  <2>2. ASSUME NEW s \in Starters, StarterStep(s)
        PROVE  broken' = broken \/ broken' = broken + 1
    BY <2>2, StarterFrame
  <2> QED BY <2>1, <2>2 DEF CatalogNext, ReportVersion, DesireVersion, CatalogCrash, Breaks
<1> QED BY <1>1 DEF CatalogNext

\* A request begins on records and binaries that match.
LEMMA MatchBegins ==
  ASSUME CatalogInv, CatalogInv', MatchInv, Calm, NEW a \in Admins, NEW f \in Firmwares,
         NEW op, NEW label \in {"write", "list", "save", "check"}, NEW r \in FirmwareRecords,
         NEW promote, NEW image,
         BeginRequest(a, f, op, label, r, promote, image),
         Calm' => Holds(f, firmware[f].ext, firmware[f].sum),
         label = "write" => r.sum = image,
         label # "write" => r.ext = firmware[f].ext /\ r.sum = firmware[f].sum
  PROVE  MatchInv'
<1>1. /\ admin \in [Admins -> Requests] /\ ~Busy(a)
      /\ UNCHANGED <<firmware, binary, broken>>
  BY DEF CatalogInv, CatalogTypeOK, BeginRequest, Busy, records
<1>2. /\ admin'[a].pc = label /\ admin'[a].fw = f /\ admin'[a].copy = r
      /\ admin'[a].image = image /\ admin'[a].clear = {} /\ admin'[a].list = firmware
      /\ \A b \in Admins : b # a => admin'[b] = admin[b]
  BY <1>1 DEF BeginRequest
<1>3. Busy(a)'
  BY <1>2 DEF Busy, AdminAt
<1>4. Calm' => InHand(a)'
  BY <1>1, <1>2 DEF InHand, Holds
<1> QED BY <1>1, <1>2, <1>3, <1>4, MatchStep DEF MatchInv

\* Every request begins as MatchBegins asks.
LEMMA MatchRequests ==
  ASSUME CatalogInv, CatalogInv', MatchInv, Calm, Calm',
         NEW a \in Admins, NEW f \in Firmwares, NEW name \in ProductNames,
         \/ \E u \in Uploads : UploadFirmware(a, f, name, u)
         \/ SetDefaultFirmware(a, f, name)
         \/ ReleaseFirmware(a, f, name)
         \/ \E u \in Updates : UpdateFirmware(a, f, name, u)
         \/ DeleteFirmware(a, f, name)
  PROVE  MatchInv'
<1>1. f \in OfProduct(name) => Stored(f) /\ firmware[f] \in FirmwareRecords
  BY PresentRecords DEF CatalogInv, CatalogTypeOK, OfProduct, Stored
<1>2. ASSUME NEW op, NEW label \in {"write", "list", "save", "check"}, NEW r, NEW promote,
             NEW image, BeginRequest(a, f, op, label, r, promote, image)
      PROVE  Holds(f, firmware[f].ext, firmware[f].sum)
  <2>1. /\ admin \in [Admins -> Requests] /\ ~Busy(a)
        /\ \A b \in Admins : b # a => admin'[b] = admin[b]
        /\ admin'[a].pc = label
    BY <1>2 DEF CatalogInv, CatalogTypeOK, BeginRequest, Busy
  <2>2. Busy(a)'
    BY <2>1 DEF Busy, AdminAt
  <2>3. \A b \in Admins : b # a => (Busy(b) <=> Busy(b)')
    BY <2>1 DEF Busy, AdminAt
  <2>4. \A b \in Admins : b # a => ~Busy(b)'
    BY <2>2 DEF CatalogInv, Calm
  <2>5. \A b \in Admins : ~Busy(b)
    BY <2>1, <2>3, <2>4
  <2> QED BY <2>5 DEF MatchInv
<1>3. ASSUME NEW u \in Uploads, UploadFirmware(a, f, name, u)
      PROVE  MatchInv'
  <2>1. /\ u.version \in 0 .. MaxVersion /\ u.released \in BOOLEAN /\ u.promote \in BOOLEAN
        /\ u.image \in Images /\ u.ext \in Extensions
    BY CatalogAssumption
  <2>2. PICK version \in IF u.version = 0 THEN NextVersion(name) ELSE {u.version} :
          BeginRequest(a, f, "upload", "write",
                       [product |-> name, version |-> version, released |-> u.released,
                        default |-> FALSE, current |-> FALSE, ext |-> u.ext,
                        sum |-> u.image], u.promote, u.image)
    BY <1>3 DEF UploadFirmware
  <2>3. version \in 1 .. MaxVersion
    BY <2>1 DEF NextVersion
  <2> DEFINE r == [product |-> name, version |-> version, released |-> u.released,
                   default |-> FALSE, current |-> FALSE, ext |-> u.ext, sum |-> u.image]
  <2>4. r \in FirmwareRecords /\ r.sum = u.image
    BY <2>1, <2>3 DEF FirmwareRecords
  <2> HIDE DEF r
  <2>5. BeginRequest(a, f, "upload", "write", r, u.promote, u.image)
    BY <2>2 DEF r
  <2>6. Holds(f, firmware[f].ext, firmware[f].sum)
    BY <1>2, <2>5
  <2> QED BY <2>4, <2>5, <2>6, MatchBegins
<1>4. CASE SetDefaultFirmware(a, f, name)
  <2>1. BeginRequest(a, f, "default", "list", firmware[f], TRUE, "none")
    BY <1>4 DEF SetDefaultFirmware
  <2>2. Holds(f, firmware[f].ext, firmware[f].sum)
    BY <1>2, <2>1
  <2> QED BY <1>1, <1>4, <2>1, <2>2, MatchBegins DEF SetDefaultFirmware
<1>5. CASE ReleaseFirmware(a, f, name)
  <2> DEFINE r == [firmware[f] EXCEPT !.released = TRUE]
  <2>1. r \in FirmwareRecords /\ r.ext = firmware[f].ext /\ r.sum = firmware[f].sum
    BY <1>1, <1>5 DEF ReleaseFirmware, FirmwareRecords
  <2>2. BeginRequest(a, f, "release", "save", r, FALSE, "none")
    BY <1>5 DEF ReleaseFirmware
  <2> HIDE DEF r
  <2>3. Holds(f, firmware[f].ext, firmware[f].sum)
    BY <1>2, <2>2
  <2> QED BY <2>1, <2>2, <2>3, MatchBegins
<1>6. ASSUME NEW u \in Updates, UpdateFirmware(a, f, name, u)
      PROVE  MatchInv'
  <2> DEFINE r == Updated(firmware[f], u)
             promote == "yes" \in {u.default, u.current}
             label == IF u.image = "none" THEN AfterBinary(promote) ELSE "write"
  <2>1. firmware[f] \in FirmwareRecords
    BY <1>1, <1>6 DEF UpdateFirmware
  <2>2. r \in FirmwareRecords
    BY <2>1, UpdatedShape
  <2>3. /\ r.ext = IF u.image = "none" THEN firmware[f].ext ELSE u.ext
        /\ r.sum = IF u.image = "none" THEN firmware[f].sum ELSE u.image
    BY <2>1 DEF Updated, FirmwareRecords
  <2>4. BeginRequest(a, f, "update", label, r, promote, u.image)
    BY <1>6 DEF UpdateFirmware
  <2>5. label \in {"write", "list", "save"} /\ (label = "write" <=> u.image # "none")
    BY DEF AfterBinary
  <2> HIDE DEF r, promote, label
  <2>6. Holds(f, firmware[f].ext, firmware[f].sum)
    BY <1>2, <2>4, <2>5
  <2> QED BY <2>2, <2>3, <2>4, <2>5, <2>6, MatchBegins
<1>7. CASE DeleteFirmware(a, f, name)
  <2>1. BeginRequest(a, f, "delete", "check", firmware[f], FALSE, "none")
    BY <1>7 DEF DeleteFirmware
  <2>2. Holds(f, firmware[f].ext, firmware[f].sum)
    BY <1>2, <2>1
  <2> QED BY <1>1, <1>7, <2>1, <2>2, MatchBegins DEF DeleteFirmware
<1> QED BY <1>3, <1>4, <1>5, <1>6, <1>7

\* What a request at work has at hand.
LEMMA AtWork ==
  ASSUME CatalogInv, MatchInv, Calm, NEW a \in Admins, Busy(a)
  PROVE  /\ admin \in [Admins -> Requests] /\ firmware \in [Firmwares -> Records]
         /\ binary \in [Firmwares -> [Extensions -> Images \union {"none"}]]
         /\ admin[a] \in Requests /\ admin[a].fw \in Firmwares
         /\ admin[a].copy \in FirmwareRecords /\ admin[a].list \in [Firmwares -> Records]
         /\ \A g \in admin[a].clear : g \in Firmwares /\ admin[a].list[g] \in FirmwareRecords
         /\ InHand(a)
<1>1. /\ admin \in [Admins -> Requests] /\ firmware \in [Firmwares -> Records]
      /\ admin[a] \in Requests /\ admin[a].fw \in Firmwares /\ admin[a].copy # NoFirmware
      /\ \A g \in admin[a].clear : admin[a].list[g] # NoFirmware
  BY DEF CatalogInv, CatalogTypeOK
<1>2. /\ admin[a].copy \in Records /\ admin[a].list \in [Firmwares -> Records]
      /\ admin[a].clear \subseteq Firmwares
  BY <1>1 DEF Requests
<1>3. \A g \in admin[a].clear : g \in Firmwares /\ admin[a].list[g] \in FirmwareRecords
  BY <1>1, <1>2, PresentRecords
<1>4. admin[a].copy \in FirmwareRecords
  BY <1>1, <1>2, PresentRecords
<1> QED BY <1>1, <1>2, <1>3, <1>4 DEF MatchInv

\* The missing record stands for no binary.
LEMMA MissingHolds ==
  /\ NoFirmware.ext = "none" /\ NoFirmware.sum = "none"
  /\ \A r \in FirmwareRecords : r.ext \in Extensions /\ r.ext # "none"
BY CatalogAssumption DEF NoFirmware, FirmwareRecords

LEMMA MatchBinaries ==
  ASSUME CatalogInv, CatalogInv', MatchInv, Calm, Calm', NEW a \in Admins,
         WriteBinary(a) \/ RemoveOldBinary(a) \/ RemoveBinary(a)
  PROVE  MatchInv'
<1> DEFINE r == admin[a]
           f == r.fw
           old == r.list[f].ext
<1>1. Busy(a) /\ UNCHANGED firmware /\ ~Breaks
  BY DEF WriteBinary, RemoveOldBinary, RemoveBinary, Busy, AdminAt, Calm, Breaks, MatchInv
<1>2. /\ admin \in [Admins -> Requests] /\ f \in Firmwares /\ r.copy \in FirmwareRecords
      /\ binary \in [Firmwares -> [Extensions -> Images \union {"none"}]]
      /\ r.copy.ext \in Extensions /\ r.copy.ext # "none" /\ InHand(a)
      /\ r.image \in Images \union {"none"} /\ r.promote \in BOOLEAN
  BY <1>1, AtWork, MissingHolds DEF Requests
<1>3. AfterBinary(r.promote) \in {"list", "save"}
  BY DEF AfterBinary
<1>4. CASE WriteBinary(a)
  <2>1. /\ r.pc = "write" /\ UNCHANGED broken
        /\ binary' = [binary EXCEPT ![f] = [@ EXCEPT ![r.copy.ext] = r.image]]
        /\ admin' = [admin EXCEPT ![a].pc = IF old \notin {"none", r.copy.ext} THEN "removeOld"
                                             ELSE AfterBinary(r.promote)]
    BY <1>1, <1>3, <1>4 DEF WriteBinary, AdminAt, AdminGoto, Refuse, OldExt
  <2> DEFINE label == IF old \notin {"none", r.copy.ext} THEN "removeOld"
                      ELSE AfterBinary(r.promote)
  <2>2. /\ label \in {"removeOld", "list", "save"} /\ label \in AdminLabels
        /\ label = "removeOld" <=> old \notin {"none", r.copy.ext}
    BY <1>3 DEF AdminLabels
  <2> HIDE DEF label
  <2>3. admin' = [admin EXCEPT ![a].pc = label]
    BY <2>1 DEF label
  <2>4. /\ admin'[a].pc = label /\ admin'[a].fw = f /\ admin'[a].copy = r.copy
        /\ admin'[a].list = r.list /\ \A b \in Admins : b # a => admin'[b] = admin[b]
    BY <1>2, <2>2, <2>3, RequestMoved
  <2>5. /\ binary' \in [Firmwares -> [Extensions -> Images \union {"none"}]]
        /\ \A g \in Firmwares : g # f => binary'[g] = binary[g]
        /\ \A e \in Extensions :
             binary'[f][e] = IF e = r.copy.ext THEN r.copy.sum ELSE binary[f][e]
    <3>1. r.image = r.copy.sum
      BY <1>2, <2>1 DEF InHand
    <3> QED BY <1>2, <2>1, <3>1
  <2>6. Busy(a)'
    BY <2>2, <2>4 DEF Busy, AdminAt
  <2>7. \A e \in Extensions : e # old => binary[f][e] = "none"
    BY <1>2, <2>1 DEF InHand, Holds
  <2>8. old = "none" => \A e \in Extensions : binary[f][e] = "none"
    BY <1>2, <2>1, CatalogAssumption DEF InHand, Holds
  <2>9. InHand(a)'
    BY <2>2, <2>4, <2>5, <2>7, <2>8 DEF InHand, Holds
  <2>10. \A g \in Firmwares : g # f =>
            /\ binary'[g] = binary[g]
            /\ firmware'[g].ext = firmware[g].ext /\ firmware'[g].sum = firmware[g].sum
    BY <1>1, <2>5
  <2> HIDE DEF f, old
  <2> QED BY <1>1, <1>2, <2>1, <2>4, <2>5, <2>6, <2>9, <2>10, MatchStep DEF f
<1>5. CASE RemoveOldBinary(a)
  <2>1. /\ r.pc = "removeOld" /\ UNCHANGED broken
        /\ binary' = [binary EXCEPT ![f] = [@ EXCEPT ![old] = "none"]]
        /\ admin' = [admin EXCEPT ![a].pc = AfterBinary(r.promote)]
    BY <1>1, <1>5 DEF RemoveOldBinary, AdminAt, OldExt
  <2>2. AfterBinary(r.promote) \in AdminLabels
    BY <1>3 DEF AdminLabels
  <2>3. /\ admin'[a].pc \in {"list", "save"} /\ admin'[a].fw = f /\ admin'[a].copy = r.copy
        /\ \A b \in Admins : b # a => admin'[b] = admin[b]
    BY <1>2, <1>3, <2>1, <2>2, RequestMoved
  <2>4. /\ binary' \in [Firmwares -> [Extensions -> Images \union {"none"}]]
        /\ \A g \in Firmwares : g # f => binary'[g] = binary[g]
        /\ \A e \in Extensions :
             binary'[f][e] = IF e = old THEN "none" ELSE binary[f][e]
    BY <1>2, <2>1
  <2>5. Busy(a)'
    BY <2>3 DEF Busy, AdminAt
  <2>6. InHand(a)'
    <3>1. \A e \in Extensions :
            binary'[f][e] = IF e = r.copy.ext THEN r.copy.sum ELSE "none"
      BY <1>2, <2>1, <2>4 DEF InHand
    <3> QED BY <2>3, <3>1 DEF InHand, Holds
  <2> QED BY <1>1, <1>2, <2>1, <2>3, <2>4, <2>5, <2>6, MatchStep
<1>6. CASE RemoveBinary(a)
  <2>1. /\ r.pc = "remove" /\ UNCHANGED broken
        /\ binary' = [binary EXCEPT ![f] = [@ EXCEPT ![r.copy.ext] = "none"]]
        /\ EndRequest(a)
    BY <1>1, <1>6 DEF RemoveBinary, AdminAt, AdminGoto, Refuse
  <2>2. /\ admin'[a].pc = "idle" /\ ~Busy(a)'
        /\ \A b \in Admins : b # a => admin'[b] = admin[b]
    BY <1>2, <2>1, RequestEnded
  <2>3. /\ binary' \in [Firmwares -> [Extensions -> Images \union {"none"}]]
        /\ \A g \in Firmwares : g # f => binary'[g] = binary[g]
        /\ \A e \in Extensions :
             binary'[f][e] = IF e = r.copy.ext THEN "none" ELSE binary[f][e]
    BY <1>2, <2>1
  <2>4. \A e \in Extensions :
          binary'[f][e] = IF e = firmware'[f].ext THEN firmware'[f].sum ELSE "none"
    BY <1>1, <1>2, <2>1, <2>3, MissingHolds DEF InHand
  <2>5. InHand(a)'
    BY <2>2 DEF InHand
  <2> QED BY <1>1, <1>2, <2>1, <2>2, <2>3, <2>4, <2>5, MatchStep
<1> QED BY <1>4, <1>5, <1>6

\* The request lists the records, and saves them with their flags cleared.
LEMMA MatchLists ==
  ASSUME CatalogInv, CatalogInv', MatchInv, Calm, Calm', NEW a \in Admins,
         ListCurrent(a) \/ ClearCurrent(a)
  PROVE  MatchInv'
<1> DEFINE r == admin[a]
           f == r.fw
<1>1. Busy(a) /\ UNCHANGED binary /\ ~Breaks
  <2>1. ~Breaks
    BY DEF Calm, Breaks, MatchInv
  <2>2. Busy(a) /\ UNCHANGED binary
    BY DEF ListCurrent, ClearCurrent, Busy, AdminAt, records
  <2> QED BY <2>1, <2>2
<1>2. /\ admin \in [Admins -> Requests] /\ firmware \in [Firmwares -> Records]
      /\ f \in Firmwares /\ r \in Requests
      /\ binary \in [Firmwares -> [Extensions -> Images \union {"none"}]]
      /\ \A g \in r.clear : g \in Firmwares /\ r.list[g] \in FirmwareRecords
      /\ InHand(a)
  BY <1>1, AtWork
<1>3. CASE ListCurrent(a)
  <2> DEFINE found == {g \in OfProduct(r.copy.product) : firmware[g].current}
             label == IF found = {} THEN "save" ELSE "clear"
             next == [r EXCEPT !.clear = found, !.list = firmware, !.pc = label]
  <2>1. /\ r.pc = "list" /\ UNCHANGED <<broken, firmware>>
        /\ admin' = [admin EXCEPT ![a] = next]
    BY <1>1, <1>3 DEF ListCurrent, AdminAt, Refuse, records
  <2>2. label \in {"save", "clear"}
    OBVIOUS
  <2> HIDE DEF found, label
  <2>3. /\ next.pc = label /\ next.fw = f /\ next.copy = r.copy /\ next.list = firmware
    BY <1>2 DEF Requests
  <2> HIDE DEF next
  <2>4. /\ admin'[a].pc \in {"save", "clear"} /\ admin'[a].fw = f /\ admin'[a].copy = r.copy
        /\ admin'[a].list = firmware
        /\ \A b \in Admins : b # a => admin'[b] = admin[b]
    BY <1>2, <2>1, <2>2, <2>3
  <2>5. Busy(a)'
    BY <2>4 DEF Busy, AdminAt
  <2>6. InHand(a)'
    BY <1>1, <1>2, <2>1, <2>4 DEF InHand, Holds
  <2> QED BY <1>1, <1>2, <2>1, <2>4, <2>5, <2>6, MatchStep
<1>4. CASE ClearCurrent(a)
  <2>1. PICK g \in r.clear :
          /\ firmware' = [firmware EXCEPT ![g] = Cleared(r.list[g])]
          /\ admin' = [admin EXCEPT ![a].clear = @ \ {g},
                                    ![a].pc = IF r.clear = {g} THEN "save" ELSE @]
          /\ UNCHANGED broken
    BY <1>1, <1>4 DEF ClearCurrent, Refuse
  <2>2. r.pc = "clear"
    BY <1>4 DEF ClearCurrent, AdminAt
  <2> DEFINE label == IF r.clear = {g} THEN "save" ELSE "clear"
             next == [r EXCEPT !.clear = r.clear \ {g}, !.pc = label]
  <2>3. admin' = [admin EXCEPT ![a] = next]
    BY <1>2, <2>1, <2>2
  <2>4. label \in {"save", "clear"}
    OBVIOUS
  <2> HIDE DEF label
  <2>5. /\ next.pc = label /\ next.fw = f /\ next.copy = r.copy /\ next.list = r.list
        /\ next.clear = r.clear \ {g}
    BY <1>2 DEF Requests
  <2> HIDE DEF next
  <2>6. /\ admin'[a].pc \in {"save", "clear"} /\ admin'[a].fw = f /\ admin'[a].copy = r.copy
        /\ admin'[a].list = r.list /\ admin'[a].clear = r.clear \ {g}
        /\ \A b \in Admins : b # a => admin'[b] = admin[b]
    BY <1>2, <2>3, <2>4, <2>5
  <2>7. Cleared(r.list[g]).ext = firmware[g].ext /\ Cleared(r.list[g]).sum = firmware[g].sum
    <3>1. r.list[g].ext = firmware[g].ext /\ r.list[g].sum = firmware[g].sum
      BY <1>2, <2>2 DEF InHand
    <3>2. r.list[g] \in FirmwareRecords
      BY <1>2
    <3> QED BY <3>1, <3>2 DEF Cleared, FirmwareRecords
  <2>8. \A h \in Firmwares :
          firmware'[h].ext = firmware[h].ext /\ firmware'[h].sum = firmware[h].sum
    BY <1>2, <2>1, <2>7
  <2>9. Busy(a)'
    BY <2>6 DEF Busy, AdminAt
  <2>10. InHand(a)'
    BY <1>1, <1>2, <2>2, <2>6, <2>8 DEF InHand, Holds
  <2> QED BY <1>1, <1>2, <2>1, <2>6, <2>8, <2>9, <2>10, MatchStep
<1> QED BY <1>3, <1>4

\* The request saves its record, checks for flashes, or deletes the record.
LEMMA MatchSaves ==
  ASSUME CatalogInv, CatalogInv', MatchInv, Calm, Calm', NEW a \in Admins,
         SaveFirmware(a) \/ CheckFlashJobs(a) \/ DeleteRecord(a)
  PROVE  MatchInv'
<1> DEFINE r == admin[a]
           f == r.fw
<1>1. Busy(a) /\ UNCHANGED binary /\ ~Breaks
  BY DEF SaveFirmware, CheckFlashJobs, DeleteRecord, Busy, AdminAt, Calm, Breaks, MatchInv,
         records
<1>2. /\ admin \in [Admins -> Requests] /\ firmware \in [Firmwares -> Records]
      /\ f \in Firmwares /\ r \in Requests /\ r.copy \in FirmwareRecords
      /\ binary \in [Firmwares -> [Extensions -> Images \union {"none"}]]
      /\ InHand(a)
  BY <1>1, AtWork
<1>3. CASE SaveFirmware(a)
  <2> DEFINE saved == IF r.promote THEN Promoted(r.copy) ELSE r.copy
  <2>1. /\ r.pc = "save" /\ firmware' = [firmware EXCEPT ![f] = saved]
        /\ EndRequest(a) /\ UNCHANGED broken
    BY <1>1, <1>3 DEF SaveFirmware, AdminAt, AdminGoto, Refuse
  <2>2. saved.ext = r.copy.ext /\ saved.sum = r.copy.sum
    BY <1>2 DEF Promoted, FirmwareRecords
  <2> HIDE DEF saved
  <2>3. /\ admin'[a].pc = "idle" /\ ~Busy(a)'
        /\ \A b \in Admins : b # a => admin'[b] = admin[b]
    BY <1>2, <2>1, RequestEnded
  <2>4. /\ \A g \in Firmwares : g # f => firmware'[g] = firmware[g]
        /\ firmware'[f].ext = r.copy.ext /\ firmware'[f].sum = r.copy.sum
    BY <1>2, <2>1, <2>2
  <2>5. \A e \in Extensions :
          binary'[f][e] = IF e = firmware'[f].ext THEN firmware'[f].sum ELSE "none"
    BY <1>1, <1>2, <2>1, <2>4 DEF InHand, Holds
  <2>6. InHand(a)'
    BY <2>3 DEF InHand
  <2> QED BY <1>1, <1>2, <2>1, <2>3, <2>4, <2>5, <2>6, MatchStep
<1>4. CASE CheckFlashJobs(a)
  <2>1. r.pc = "check" /\ UNCHANGED <<firmware, broken>>
    BY <1>1, <1>4 DEF CheckFlashJobs, AdminAt, AdminGoto, records
  <2>2. CASE EndRequest(a)
    <3>1. /\ admin'[a].pc = "idle" /\ ~Busy(a)'
          /\ \A b \in Admins : b # a => admin'[b] = admin[b]
      BY <1>2, <2>2, RequestEnded
    <3>2. \A e \in Extensions :
            binary'[f][e] = IF e = firmware'[f].ext THEN firmware'[f].sum ELSE "none"
      BY <1>1, <1>2, <2>1 DEF InHand, Holds
    <3>3. InHand(a)'
      BY <3>1 DEF InHand
    <3> QED BY <1>1, <1>2, <2>1, <3>1, <3>2, <3>3, MatchStep
  <2>3. CASE admin' = [admin EXCEPT ![a].pc = "delete"]
    <3>1. /\ admin'[a].pc = "delete" /\ admin'[a].fw = f /\ admin'[a].copy = r.copy
          /\ \A b \in Admins : b # a => admin'[b] = admin[b]
      BY <1>2, <2>3, RequestMoved DEF AdminLabels
    <3>2. Busy(a)'
      BY <3>1 DEF Busy, AdminAt
    <3>3. InHand(a)'
      BY <1>1, <1>2, <2>1, <3>1 DEF InHand, Holds
    <3> QED BY <1>1, <1>2, <2>1, <3>1, <3>2, <3>3, MatchStep
  <2> QED BY <1>4, <2>2, <2>3 DEF CheckFlashJobs, AdminGoto
<1>5. CASE DeleteRecord(a)
  <2>1. /\ r.pc = "delete" /\ firmware' = [firmware EXCEPT ![f] = NoFirmware]
        /\ AdminGoto(a, IF Stored(f) THEN "remove" ELSE "idle") /\ UNCHANGED broken
    BY <1>1, <1>5 DEF DeleteRecord, AdminAt, AdminGoto, Refuse
  <2>2. /\ \A g \in Firmwares : g # f => firmware'[g] = firmware[g]
        /\ firmware'[f] = NoFirmware
    BY <1>2, <2>1
  <2>3. CASE ~Stored(f)
    <3>1. /\ admin'[a].pc = "idle" /\ ~Busy(a)'
          /\ \A b \in Admins : b # a => admin'[b] = admin[b]
      BY <1>2, <2>1, <2>3, RequestEnded DEF AdminGoto
    <3>2. \A e \in Extensions :
            binary'[f][e] = IF e = firmware'[f].ext THEN firmware'[f].sum ELSE "none"
      BY <1>1, <1>2, <2>1, <2>2, <2>3 DEF InHand, Holds, Stored
    <3>3. InHand(a)'
      BY <3>1 DEF InHand
    <3> QED BY <1>1, <1>2, <2>1, <2>2, <3>1, <3>2, <3>3, MatchStep
  <2>4. CASE Stored(f)
    <3>1. /\ admin'[a].pc = "remove" /\ admin'[a].fw = f /\ admin'[a].copy = r.copy
          /\ \A b \in Admins : b # a => admin'[b] = admin[b]
      BY <1>2, <2>1, <2>4, RequestMoved DEF AdminLabels, AdminGoto
    <3>2. Busy(a)'
      BY <3>1 DEF Busy, AdminAt
    <3>3. InHand(a)'
      BY <1>1, <1>2, <2>1, <2>2, <3>1 DEF InHand, Holds
    <3> QED BY <1>1, <1>2, <2>1, <2>2, <3>1, <3>2, <3>3, MatchStep
  <2> QED BY <2>3, <2>4
<1> QED BY <1>3, <1>4, <1>5

\* What a binary is: an image, whatever fails.
LEMMA BinariesAreImages ==
  ASSUME CatalogInv, CatalogNext,
         binary \in [Firmwares -> [Extensions -> Images \union {"none"}]]
  PROVE  binary' \in [Firmwares -> [Extensions -> Images \union {"none"}]]
<1>1. ASSUME NEW a \in Admins, AdminStep(a)
      PROVE  binary' \in [Firmwares -> [Extensions -> Images \union {"none"}]]
  <2>1. CASE UNCHANGED binary
    BY <2>1
  <2>2. CASE \E f \in Firmwares, e, x \in Images \union {"none"} :
               binary' = [binary EXCEPT ![f][e] = x]
    <3>1. PICK f \in Firmwares, e, x \in Images \union {"none"} :
            binary' = [binary EXCEPT ![f][e] = x]
      BY <2>2
    <3>2. [binary[f] EXCEPT ![e] = x] \in [Extensions -> Images \union {"none"}]
      OBVIOUS
    <3> QED BY <3>1, <3>2
  <2>3. Busy(a) => admin[a].fw \in Firmwares /\ admin[a].image \in Images \union {"none"}
    BY DEF CatalogInv, CatalogTypeOK, Requests
  <2>4. CASE WriteBinary(a)
    BY <2>1, <2>2, <2>3, <2>4 DEF WriteBinary, Busy, AdminAt
  <2>5. CASE RemoveOldBinary(a)
    BY <2>1, <2>2, <2>3, <2>5 DEF RemoveOldBinary, Busy, AdminAt
  <2>6. CASE RemoveBinary(a)
    BY <2>1, <2>2, <2>3, <2>6 DEF RemoveBinary, Busy, AdminAt
  <2>7. CASE ~(WriteBinary(a) \/ RemoveOldBinary(a) \/ RemoveBinary(a))
    <3>1. UNCHANGED binary
      BY <1>1, <2>7, RequestFrame
    <3> QED BY <3>1
  <2> QED BY <2>4, <2>5, <2>6, <2>7
<1>2. ASSUME NEW s \in Starters, StarterStep(s)
      PROVE  UNCHANGED binary
  BY <1>2, StarterFrame
<1>3. CASE UNCHANGED records
  BY <1>3 DEF records
<1> QED BY <1>1, <1>2, <1>3 DEF CatalogNext, ReportVersion, DesireVersion, CatalogCrash

\* Steps of devices and of flashes leave the binaries alone too.
LEMMA MatchKept ==
  ASSUME CatalogInv, MatchInv, UNCHANGED <<firmware, binary, admin>>,
         broken' \in Nat, Calm' => Calm
  PROVE  MatchInv'
BY DEF MatchInv, Holds, InHand, Busy, AdminAt

LEMMA MatchNext ==
  ASSUME CatalogInv, MatchInv, CatalogNext
  PROVE  MatchInv'
<1>1. CatalogInv'
  BY CatalogInvStep
<1>2. /\ broken' \in Nat /\ broken \in Nat
      /\ broken' = broken \/ broken' = broken + 1
      /\ overlap \subseteq overlap'
  BY FaultsCounted DEF MatchInv
<1>3. Calm' => Calm
  BY <1>2 DEF Calm
<1>4. binary' \in [Firmwares -> [Extensions -> Images \union {"none"}]]
  BY BinariesAreImages DEF MatchInv
<1>5. CASE ~Calm'
  BY <1>2, <1>4, <1>5 DEF MatchInv
<1>6. CASE Calm'
  <2>1. ASSUME NEW a \in Admins, AdminStep(a)
        PROVE  MatchInv'
    <3>1. CASE \/ WriteBinary(a) \/ RemoveOldBinary(a) \/ RemoveBinary(a)
      BY <1>1, <1>3, <1>6, <3>1, MatchBinaries
    <3>2. CASE ListCurrent(a) \/ ClearCurrent(a)
      BY <1>1, <1>3, <1>6, <3>2, MatchLists
    <3>3. CASE SaveFirmware(a) \/ CheckFlashJobs(a) \/ DeleteRecord(a)
      BY <1>1, <1>3, <1>6, <3>3, MatchSaves
    <3>4. ASSUME NEW f \in Firmwares, NEW name \in ProductNames,
                 \/ \E u \in Uploads : UploadFirmware(a, f, name, u)
                 \/ SetDefaultFirmware(a, f, name)
                 \/ ReleaseFirmware(a, f, name)
                 \/ \E u \in Updates : UpdateFirmware(a, f, name, u)
                 \/ DeleteFirmware(a, f, name)
          PROVE  MatchInv'
      BY <1>1, <1>3, <1>6, <3>4, MatchRequests
    <3> QED BY <2>1, <3>1, <3>2, <3>3, <3>4 DEF AdminStep
  <2>2. ASSUME NEW s \in Starters, StarterStep(s)
        PROVE  MatchInv'
    <3>1. UNCHANGED <<firmware, binary, admin>>
      BY <2>2, StarterFrame
    <3> QED BY <1>2, <1>3, <3>1, MatchKept
  <2>3. CASE (\E j \in FlashJobs : ReportVersion(j)) \/ \E v \in 0 .. MaxVersion : DesireVersion(v)
    <3>1. UNCHANGED <<firmware, binary, admin>>
      BY <2>3 DEF ReportVersion, DesireVersion, records
    <3> QED BY <1>2, <1>3, <3>1, MatchKept
  <2>4. ~CatalogCrash
    BY <1>2, <1>6 DEF CatalogCrash, Breaks, Calm
  <2> QED BY <2>1, <2>2, <2>3, <2>4 DEF CatalogNext
<1> QED BY <1>5, <1>6

LEMMA MatchInit == CatalogInit => MatchInv
<1> SUFFICES ASSUME CatalogInit PROVE MatchInv
  OBVIOUS
<1>1. \A a \in Admins : admin[a].pc = "idle"
  BY DEF CatalogInit, NoRequest
<1>2. \A f \in Firmwares : /\ firmware[f].sum = "none"
                           /\ \A e \in Extensions : binary[f][e] = "none"
  BY DEF CatalogInit, NoFirmware
<1>3. binary \in [Firmwares -> [Extensions -> Images \union {"none"}]] /\ broken \in Nat
  BY DEF CatalogInit
<1> QED BY <1>1, <1>2, <1>3 DEF MatchInv, Holds, InHand

\* Records and binaries go together (writeBinary, UpdateProductFirmware,
\* DeleteProductFirmware): however many firmwares there are, the binary of a record that no
\* request works on is what its checksum says, and no binary is without its record, as
\* long as requests were alone and nothing has failed.
THEOREM BinariesOfRecords == CatalogSpec => []BinariesMatch
<1>1. CatalogInit => CatalogInv /\ MatchInv
  BY CatalogInvInit, MatchInit
<1>2. CatalogInv /\ MatchInv /\ [CatalogNext]_catalogVars => CatalogInv' /\ MatchInv'
  <2> SUFFICES ASSUME CatalogInv, MatchInv, [CatalogNext]_catalogVars
               PROVE  MatchInv'
    BY CatalogInvStep
  <2>1. CASE UNCHANGED catalogVars
    BY <2>1, MatchKept DEF catalogVars, MatchInv, Calm
  <2> QED BY <2>1, MatchNext
<1>3. MatchInv => BinariesMatch
  BY DEF MatchInv, BinariesMatch, Calm, Holds
<1> QED BY <1>1, <1>2, <1>3, PTL DEF CatalogSpec

-----------------------------------------------------------------------------
(* Flashes and their starters *)

\* Where a goroutine can be.
LEMMA StarterLabels ==
  ASSUME NEW label \in Working
  PROVE  label \notin {"idle", "jobs", "select", "manifest", "create"}
BY DEF Working

LEMMA AtRest == Resting \in StarterRecords /\ Resting.pc = "idle" /\ Resting.op = "none"
<1>1. NoFirmware \in Records
  BY DEF Records
<1> QED BY <1>1 DEF Resting, StarterRecords

\* A goroutine that moves on keeps what it has; one that ends has nothing.
LEMMA StarterMoved ==
  ASSUME starter \in [Starters -> StarterRecords], NEW s \in Starters,
         NEW label \in {"idle", "jobs", "select", "manifest", "create"} \union Working,
         StarterGoto(s, label)
  PROVE  \E next \in StarterRecords :
           /\ starter' = [starter EXCEPT ![s] = next] /\ next.pc = label
           /\ label # "idle" =>
                /\ next.op = starter[s].op /\ next.fw = starter[s].fw
                /\ next.copy = starter[s].copy /\ next.image = starter[s].image
                /\ next.job = starter[s].job /\ next.held = starter[s].held
<1>1. CASE label = "idle"
  <2>1. starter' = [starter EXCEPT ![s] = Resting]
    BY <1>1 DEF StarterGoto
  <2> QED BY <1>1, <2>1, AtRest
<1>2. CASE label # "idle"
  <2> DEFINE next == [starter[s] EXCEPT !.pc = label]
  <2>1. /\ next \in StarterRecords /\ next.pc = label
        /\ next.op = starter[s].op /\ next.fw = starter[s].fw
        /\ next.copy = starter[s].copy /\ next.image = starter[s].image
        /\ next.job = starter[s].job /\ next.held = starter[s].held
    BY DEF StarterRecords
  <2>2. starter' = [starter EXCEPT ![s] = next]
    BY <1>2 DEF StarterGoto
  <2> HIDE DEF next
  <2> QED BY <2>1, <2>2
<1> QED BY <1>1, <1>2

\* A goroutine without a job takes a step, and the jobs stay as they are.
LEMMA StarterAlone ==
  ASSUME FlashesOK, NEW s \in Starters, NEW next \in StarterRecords,
         starter' = [starter EXCEPT ![s] = next], UNCHANGED flash,
         next.pc \in {"idle", "jobs", "select", "manifest", "create"}, Prepared(next)
  PROVE  FlashesOK'
<1>1. /\ starter' \in [Starters -> StarterRecords] /\ starter'[s] = next
      /\ \A t \in Starters : t # s => starter'[t] = starter[t]
  BY DEF FlashesOK
<1>2. starter'[s].pc \notin Working
  BY <1>1, StarterLabels
<1>3. \A t \in Starters : Prepared(starter'[t])
  BY <1>1 DEF FlashesOK
<1>4. ASSUME NEW t \in Starters, starter'[t].pc \in Working
      PROVE  starter'[t].job \in FlashJobs /\ InStep(starter'[t], flash'[starter'[t].job])
  BY <1>1, <1>2, <1>4 DEF FlashesOK
<1> QED BY <1>1, <1>3, <1>4 DEF FlashesOK

\* A goroutine takes a step with the job j, whose firmware and image stay what they are.
WorksOn(s, next, j, job) ==
  /\ starter' = [starter EXCEPT ![s] = next] /\ flash' = [flash EXCEPT ![j] = job]
  /\ flash[j] \in JobRecords => /\ job.fw = flash[j].fw /\ job.auto = flash[j].auto
                                /\ job.manifest = flash[j].manifest
  /\ job.got \subseteq {job.manifest}
  /\ next.pc = "idle" \/ (next.pc \in Working /\ next.job = j)
  /\ InStep(next, job)

LEMMA StarterWithJob ==
  ASSUME FlashesOK, NEW s \in Starters, NEW next \in StarterRecords,
         NEW j \in FlashJobs, NEW job \in JobRecords, WorksOn(s, next, j, job)
  PROVE  FlashesOK'
<1>1. /\ starter' \in [Starters -> StarterRecords] /\ starter'[s] = next
      /\ \A t \in Starters : t # s => starter'[t] = starter[t]
  BY DEF FlashesOK, WorksOn
<1>2. job \in JobRecords
  BY DEF WorksOn, InStep
<1>3. /\ flash' \in [FlashJobs -> JobRecords \union {NoFlash}] /\ flash'[j] = job
      /\ \A i \in FlashJobs : i # j => flash'[i] = flash[i]
  BY <1>2 DEF FlashesOK, WorksOn
<1>4. \A i \in FlashJobs : flash'[i].got \subseteq {flash'[i].manifest}
  BY <1>3 DEF FlashesOK, WorksOn
<1>5. ASSUME NEW t \in Starters PROVE Prepared(starter'[t])
  <2>1. CASE t = s
    <3>1. next.pc \notin {"jobs", "select", "manifest", "create"}
      BY StarterLabels DEF WorksOn
    <3> QED BY <1>1, <2>1, <3>1 DEF Prepared
  <2>2. CASE t # s
    BY <1>1, <2>2 DEF FlashesOK
  <2> QED BY <2>1, <2>2
<1>6. ASSUME NEW t \in Starters, starter'[t].pc \in Working
      PROVE  starter'[t].job \in FlashJobs /\ InStep(starter'[t], flash'[starter'[t].job])
  <2>1. CASE t = s
    <3>1. next.job = j
      BY <1>1, <1>6, <2>1, StarterLabels DEF WorksOn
    <3> QED BY <1>1, <1>3, <2>1, <3>1 DEF WorksOn
  <2>2. CASE t # s
    <3>1. /\ starter'[t] = starter[t] /\ starter[t].job \in FlashJobs
          /\ InStep(starter[t], flash[starter[t].job])
      BY <1>1, <1>6, <2>2 DEF FlashesOK
    <3>2. CASE starter[t].job # j
      BY <1>3, <3>1, <3>2
    <3>3. CASE starter[t].job = j
      <4>1. job.manifest = flash[j].manifest
        BY <3>1, <3>3 DEF WorksOn, InStep
      <4> QED BY <1>2, <1>3, <3>1, <3>3, <4>1 DEF InStep
    <3> QED BY <3>2, <3>3
  <2> QED BY <2>1, <2>2
<1> QED BY <1>1, <1>3, <1>4, <1>5, <1>6 DEF FlashesOK

\* The firmware that is selected is stored, and is the one that was asked for.
LEMMA Selected ==
  ASSUME CatalogInv, FlashesOK, NEW s \in Starters, SelectFirmware(s)
  PROVE  \/ StarterGoto(s, "idle")
         \/ \E f \in Firmwares, next \in StarterRecords :
              /\ Stored(f) /\ (starter[s].fw \in Firmwares => f = starter[s].fw)
              /\ starter' = [starter EXCEPT ![s] = next]
              /\ next.pc = "manifest" /\ next.fw = f /\ next.copy = firmware[f]
              /\ next.op = starter[s].op
<1> DEFINE asked == starter[s].fw
           found == IF asked = "none" THEN CurrentFirmware("id")
                    ELSE {asked} \cap OfProduct("id")
<1>1. /\ CurrentFirmware("id") \subseteq OfProduct("id")
  BY DEF CurrentFirmware, Lowest, Highest
<1>2. \A f \in found : f \in Firmwares /\ Stored(f) /\ (asked \in Firmwares => f = asked)
  BY <1>1, CatalogAssumption DEF OfProduct
<1>3. ASSUME NEW f \in found,
             starter' = [starter EXCEPT ![s].pc = "manifest", ![s].fw = f,
                                        ![s].copy = firmware[f]]
      PROVE  \E next \in StarterRecords :
               /\ starter' = [starter EXCEPT ![s] = next]
               /\ next.pc = "manifest" /\ next.fw = f /\ next.copy = firmware[f]
               /\ next.op = starter[s].op
  <2> DEFINE next == [starter[s] EXCEPT !.pc = "manifest", !.fw = f, !.copy = firmware[f]]
  <2>1. f \in Firmwares /\ firmware[f] \in Records /\ starter[s] \in StarterRecords
    BY <1>2 DEF CatalogInv, CatalogTypeOK, FlashesOK
  <2>2. /\ next \in StarterRecords /\ next.pc = "manifest" /\ next.fw = f
        /\ next.copy = firmware[f] /\ next.op = starter[s].op
    BY <2>1 DEF StarterRecords
  <2>3. starter' = [starter EXCEPT ![s] = next]
    BY <1>3
  <2> HIDE DEF next
  <2> QED BY <2>2, <2>3
<1>4. \/ StarterGoto(s, "idle")
      \/ \E f \in found :
           starter' = [starter EXCEPT ![s].pc = "manifest", ![s].fw = f,
                                      ![s].copy = firmware[f]]
  BY DEF SelectFirmware
<1> HIDE DEF found
<1>5. ASSUME NEW f \in found,
             starter' = [starter EXCEPT ![s].pc = "manifest", ![s].fw = f,
                                        ![s].copy = firmware[f]]
      PROVE  \E g \in Firmwares, next \in StarterRecords :
               /\ Stored(g) /\ (starter[s].fw \in Firmwares => g = starter[s].fw)
               /\ starter' = [starter EXCEPT ![s] = next]
               /\ next.pc = "manifest" /\ next.fw = g /\ next.copy = firmware[g]
               /\ next.op = starter[s].op
  <2>1. PICK next \in StarterRecords :
          /\ starter' = [starter EXCEPT ![s] = next]
          /\ next.pc = "manifest" /\ next.fw = f /\ next.copy = firmware[f]
          /\ next.op = starter[s].op
    BY <1>3, <1>5
  <2> QED BY <1>2, <2>1
<1> QED BY <1>4, <1>5

\* A job with a status has been created.
LEMMA PresentJobs ==
  ASSUME FlashesOK, NEW j \in FlashJobs
  PROVE  /\ flash[j] \in JobRecords \/ flash[j] = NoFlash
         /\ flash[j].status # "none" => flash[j] \in JobRecords
         /\ flash[j].fw \in Firmwares => flash[j] \in JobRecords
<1>1. NoFlash.status = "none" /\ NoFlash.fw = "none"
  BY DEF NoFlash
<1> QED BY <1>1, CatalogAssumption DEF FlashesOK

\* What a flash that starts loads: a record and the image of its binary.
LEMMA FlashesLoad ==
  ASSUME CatalogInv, MatchInv, FlashesOK, NEW s \in Starters,
         \/ CheckForUpdate(s) \/ HasFlashJob(s) \/ SelectFirmware(s) \/ BuildManifest(s)
         \/ \E f \in Firmwares \union {"none"} : RequestFlash(s, f)
  PROVE  FlashesOK'
<1>1. /\ starter \in [Starters -> StarterRecords] /\ starter[s] \in StarterRecords
      /\ Prepared(starter[s])
  BY DEF FlashesOK
<1>2. NoFirmware \in Records
  BY DEF Records
<1>3. CASE CheckForUpdate(s)
  <2>1. PICK f \in TargetFirmware("id") :
          starter' = [starter EXCEPT ![s] = [Resting EXCEPT !.pc = "jobs", !.op = "auto",
                                                            !.fw = f]]
    BY <1>3 DEF CheckForUpdate
  <2> DEFINE next == [pc |-> "jobs", op |-> "auto", fw |-> f, copy |-> NoFirmware,
                      image |-> "none", job |-> "none", held |-> "none"]
  <2>2. f \in Firmwares
    BY DEF TargetFirmware, CurrentFirmware, Lowest, Highest, OfProduct
  <2>3. /\ next \in StarterRecords /\ next.pc = "jobs" /\ next.fw = f
    BY <1>2, <2>2 DEF StarterRecords
  <2>4. starter' = [starter EXCEPT ![s] = next] /\ UNCHANGED flash
    BY <1>3, <2>1 DEF Resting, CheckForUpdate
  <2> HIDE DEF next
  <2> QED BY <2>2, <2>3, <2>4, StarterAlone DEF Prepared
<1>4. CASE HasFlashJob(s)
  <2>1. starter[s].fw \in Firmwares /\ UNCHANGED flash
    BY <1>1, <1>4 DEF HasFlashJob, StarterAt, Prepared
  <2>2. PICK label \in {"idle", "select"} : StarterGoto(s, label)
    BY <1>4 DEF HasFlashJob
  <2>3. PICK next \in StarterRecords :
          /\ starter' = [starter EXCEPT ![s] = next]
          /\ next.pc = label /\ (label # "idle" => next.fw = starter[s].fw)
    BY <1>1, <2>2, StarterMoved
  <2> QED BY <2>1, <2>3, StarterAlone DEF Prepared
<1>5. CASE SelectFirmware(s)
  <2>1. UNCHANGED flash
    BY <1>5 DEF SelectFirmware
  <2>2. CASE StarterGoto(s, "idle")
    <3>1. PICK next \in StarterRecords :
            /\ starter' = [starter EXCEPT ![s] = next] /\ next.pc = "idle"
      BY <1>1, <2>2, StarterMoved
    <3> QED BY <2>1, <3>1, StarterAlone DEF Prepared
  <2>3. ASSUME NEW f \in Firmwares, NEW next \in StarterRecords,
               Stored(f), starter' = [starter EXCEPT ![s] = next],
               next.pc = "manifest", next.fw = f, next.copy = firmware[f]
        PROVE  FlashesOK'
    BY <2>1, <2>3, StarterAlone DEF Stored, Prepared
  <2> QED BY <1>5, <2>2, <2>3, Selected
<1>6. CASE BuildManifest(s)
  <2> DEFINE image == binary[starter[s].fw][starter[s].copy.ext]
             next == [starter[s] EXCEPT !.pc = "create", !.image = image]
  <2>1. /\ starter[s].pc = "manifest" /\ UNCHANGED flash
        /\ \/ StarterGoto(s, "idle")
           \/ image # "none" /\ starter' = [starter EXCEPT ![s] = next]
    BY <1>6 DEF BuildManifest, StarterAt
  <2>2. /\ starter[s].fw \in Firmwares /\ starter[s].copy # NoFirmware
        /\ starter[s].copy \in Records
    BY <1>1, <2>1 DEF Prepared, StarterRecords
  <2>3. starter[s].copy.ext \in Extensions
    BY <2>2, PresentRecords DEF FirmwareRecords
  <2>4. image \in Images \union {"none"}
    BY <2>2, <2>3 DEF MatchInv
  <2> HIDE DEF image
  <2>5. /\ next \in StarterRecords /\ next.pc = "create" /\ next.image = image
        /\ next.fw = starter[s].fw /\ next.copy = starter[s].copy
    BY <1>1, <2>4 DEF StarterRecords
  <2> HIDE DEF next
  <2>6. CASE image # "none" /\ starter' = [starter EXCEPT ![s] = next]
    BY <2>1, <2>2, <2>4, <2>5, <2>6, StarterAlone DEF Prepared
  <2>7. CASE StarterGoto(s, "idle")
    <3>1. PICK nobody \in StarterRecords :
            /\ starter' = [starter EXCEPT ![s] = nobody] /\ nobody.pc = "idle"
      BY <1>1, <2>7, StarterMoved
    <3> QED BY <2>1, <3>1, StarterAlone DEF Prepared
  <2> QED BY <2>1, <2>6, <2>7
<1>7. ASSUME NEW f \in Firmwares \union {"none"}, RequestFlash(s, f)
      PROVE  FlashesOK'
  <2> DEFINE next == [Resting EXCEPT !.pc = "select", !.op = "request", !.fw = f]
  <2>1. next \in StarterRecords /\ next.pc = "select" /\ next.op = "request"
    BY AtRest DEF StarterRecords
  <2>2. starter' = [starter EXCEPT ![s] = next] /\ UNCHANGED flash
    BY <1>7 DEF RequestFlash
  <2> HIDE DEF next
  <2> QED BY <2>1, <2>2, StarterAlone DEF Prepared
<1> QED BY <1>3, <1>4, <1>5, <1>6, <1>7

\* The job is created for the record and the image its goroutine has loaded.
LEMMA JobCreated ==
  ASSUME FlashesOK, NEW s \in Starters, CreateFlashJob(s)
  PROVE  /\ StarterAt(s, "create") /\ starter[s].fw \in Firmwares
         /\ \/ StarterGoto(s, "idle") /\ UNCHANGED flash
            \/ \E next \in StarterRecords, j \in FlashJobs, job \in JobRecords :
                 /\ WorksOn(s, next, j, job) /\ next.pc = "begin"
                 /\ job.fw = starter[s].fw /\ (job.auto <=> starter[s].op = "auto")
<1> DEFINE r == starter[s]
           auto == r.op = "auto"
           job == [status |-> "queued", fw |-> r.fw, version |-> r.copy.version,
                   ext |-> r.copy.ext, manifest |-> r.image, got |-> {}, auto |-> auto]
<1>1. /\ starter \in [Starters -> StarterRecords] /\ r \in StarterRecords
      /\ StarterAt(s, "create") /\ Prepared(r)
  BY DEF FlashesOK, CreateFlashJob
<1>2. /\ r.fw \in Firmwares /\ r.copy # NoFirmware /\ r.copy \in Records /\ r.image \in Images
  BY <1>1 DEF Prepared, StarterRecords, StarterAt
<1>3. r.copy.version \in 1 .. MaxVersion /\ r.copy.ext \in Extensions
  BY <1>2, PresentRecords DEF FirmwareRecords
<1>4. job \in JobRecords /\ job.got \subseteq {job.manifest} /\ job.fw = r.fw
      /\ job.auto = auto /\ job.manifest = r.image
  BY <1>2, <1>3 DEF JobRecords, Statuses
<1>5. \/ StarterGoto(s, "idle") /\ UNCHANGED flash
      \/ \E j \in FlashJobs :
           /\ flash[j].status = "none" /\ flash' = [flash EXCEPT ![j] = job]
           /\ starter' = [starter EXCEPT ![s].pc = "begin", ![s].job = j]
  BY DEF CreateFlashJob
<1> HIDE DEF job
<1>6. ASSUME NEW j \in FlashJobs, flash[j].status = "none", flash' = [flash EXCEPT ![j] = job],
             starter' = [starter EXCEPT ![s].pc = "begin", ![s].job = j]
      PROVE  \E next \in StarterRecords : WorksOn(s, next, j, job) /\ next.pc = "begin"
  <2> DEFINE next == [r EXCEPT !.pc = "begin", !.job = j]
  <2>1. /\ next \in StarterRecords /\ next.pc = "begin" /\ next.job = j
        /\ next.image = r.image
    BY <1>1 DEF StarterRecords, Working
  <2>2. starter' = [starter EXCEPT ![s] = next]
    BY <1>6
  <2>3. flash[j] \notin JobRecords /\ "begin" \in Working
    BY <1>6 DEF JobRecords, Statuses, Working
  <2> HIDE DEF next
  <2>4. InStep(next, job)
    BY <1>4, <2>1 DEF InStep
  <2> QED BY <1>4, <1>6, <2>1, <2>2, <2>3, <2>4 DEF WorksOn
<1> QED BY <1>1, <1>2, <1>4, <1>5, <1>6

\* The steps of the goroutines of a job.
JobStep(s) ==
  \/ BeginFlash(s) \/ MarkFlashJobRunning(s) \/ LoadChunk(s) \/ FinishFlashJob(s)
  \/ SendChunk(s) \/ MarkChunk(s) \/ SaveChunk(s) \/ CompleteDeviceFlash(s) \/ FailFlashJob(s)
  \/ \E op \in {"retry", "abort"} : SignalFlash(s, op)

\* A goroutine with a job goes on, having changed it or not.
LEMMA Onward ==
  ASSUME FlashesOK, NEW s \in Starters, starter[s].pc \in Working,
         NEW j, j = starter[s].job, NEW job \in JobRecords,
         flash' = [flash EXCEPT ![j] = job],
         job.fw = flash[j].fw, job.auto = flash[j].auto, job.manifest = flash[j].manifest,
         job.got \subseteq {job.manifest},
         NEW label \in Working \union {"idle"}, StarterGoto(s, label), label # "save",
         label \in {"begin", "send"} \/ (label = "run" /\ starter[s].op = "retry")
           => starter[s].image = job.manifest
  PROVE  \E next \in StarterRecords : WorksOn(s, next, j, job)
<1>1. PICK next \in StarterRecords :
        /\ starter' = [starter EXCEPT ![s] = next] /\ next.pc = label
        /\ label # "idle" =>
             /\ next.op = starter[s].op /\ next.fw = starter[s].fw
             /\ next.copy = starter[s].copy /\ next.image = starter[s].image
             /\ next.job = starter[s].job /\ next.held = starter[s].held
  <2>1. label \in {"idle", "jobs", "select", "manifest", "create"} \union Working
    OBVIOUS
  <2>2. starter \in [Starters -> StarterRecords]
    BY DEF FlashesOK
  <2> QED BY <2>1, <2>2, StarterMoved
<1>2. InStep(next, job)
  BY <1>1 DEF InStep
<1> QED BY <1>1, <1>2 DEF WorksOn

\* What is known of the job a goroutine works on.
LEMMA JobAtHand ==
  ASSUME FlashesOK, NEW s \in Starters, NEW j, j = starter[s].job, starter[s].pc \in Working
  PROVE  /\ j \in FlashJobs /\ flash[j] \in JobRecords
         /\ flash[j].got \subseteq {flash[j].manifest} /\ InStep(starter[s], flash[j])
         /\ flash = [flash EXCEPT ![j] = flash[j]]
BY DEF FlashesOK, InStep

\* A save of a status: the job goes on, or the goroutine ends.
LEMMA JobSaved ==
  ASSUME FlashesOK, NEW s \in Starters, NEW j, j = starter[s].job,
         NEW label \in Working, NEW status \in Statuses, NEW after \in Working \union {"idle"},
         SaveJob(s, label, status, after), after \notin {"save", "run", "begin"},
         after = "send" => starter[s].image = flash[j].manifest
  PROVE  \E next \in StarterRecords, job \in JobRecords : WorksOn(s, next, j, job)
<1>1. starter[s].pc \in Working
  BY DEF SaveJob, StarterAt
<1>2. /\ j \in FlashJobs /\ flash[j] \in JobRecords
      /\ flash[j].got \subseteq {flash[j].manifest}
      /\ flash = [flash EXCEPT ![j] = flash[j]]
  BY <1>1, JobAtHand
<1>3. CASE UNCHANGED flash /\ StarterGoto(s, "idle")
  <2>1. flash' = [flash EXCEPT ![j] = flash[j]]
    BY <1>2, <1>3
  <2>2. \E next \in StarterRecords : WorksOn(s, next, j, flash[j])
    BY <1>1, <1>2, <1>3, <2>1, Onward
  <2> QED BY <1>2, <2>2
<1>4. CASE flash' = [flash EXCEPT ![j].status = status] /\ StarterGoto(s, after)
  <2> DEFINE job == [flash[j] EXCEPT !.status = status]
  <2>1. /\ job \in JobRecords /\ job.got \subseteq {job.manifest}
        /\ job.fw = flash[j].fw /\ job.auto = flash[j].auto /\ job.manifest = flash[j].manifest
    BY <1>2 DEF JobRecords
  <2>2. flash' = [flash EXCEPT ![j] = job]
    BY <1>4
  <2> HIDE DEF job
  <2>3. \E next \in StarterRecords : WorksOn(s, next, j, job)
    BY <1>1, <1>4, <2>1, <2>2, Onward
  <2> QED BY <2>1, <2>3
<1> QED BY <1>3, <1>4 DEF SaveJob

\* An exchange with the device, or a load that is of no use: the job stays as it is.
LEMMA JobLeft ==
  ASSUME FlashesOK, NEW s \in Starters, starter[s].pc \in Working, UNCHANGED flash,
         NEW label \in Working \union {"idle"}, StarterGoto(s, label),
         label \notin {"save", "begin"},
         label \in {"send", "run"} => starter[s].image = flash[starter[s].job].manifest
  PROVE  \E next \in StarterRecords, job \in JobRecords : WorksOn(s, next, starter[s].job, job)
<1> DEFINE j == starter[s].job
<1>1. /\ j \in FlashJobs /\ flash[j] \in JobRecords
      /\ flash[j].got \subseteq {flash[j].manifest}
      /\ flash' = [flash EXCEPT ![j] = flash[j]]
  BY JobAtHand
<1>2. \E next \in StarterRecords : WorksOn(s, next, j, flash[j])
  BY <1>1, Onward
<1> QED BY <1>1, <1>2

\* A chunk of the job's image is loaded: the job is marked running first, or not.
LEMMA ChunkLoaded ==
  ASSUME FlashesOK, NEW s \in Starters, LoadChunk(s)
  PROVE  \E next \in StarterRecords, job \in JobRecords : WorksOn(s, next, starter[s].job, job)
<1> DEFINE j == starter[s].job
           image == binary[flash[j].fw][flash[j].ext]
           label == IF flash[j].status = "queued" THEN "run" ELSE "send"
           next == [starter[s] EXCEPT !.image = image, !.pc = label]
<1>1. /\ starter[s].pc = "load" /\ "load" \in Working /\ UNCHANGED flash
  BY DEF LoadChunk, StarterAt, Working
<1>2. /\ j \in FlashJobs /\ flash[j] \in JobRecords
      /\ flash[j].got \subseteq {flash[j].manifest}
      /\ flash' = [flash EXCEPT ![j] = flash[j]]
  BY <1>1, JobAtHand
<1>3. \/ image = flash[j].manifest /\ starter' = [starter EXCEPT ![s] = next]
      \/ StarterGoto(s, "idle") \/ StarterGoto(s, "finish")
  BY DEF LoadChunk
<1>4. CASE StarterGoto(s, "idle") \/ StarterGoto(s, "finish")
  <2>1. PICK l \in {"idle", "finish"} : StarterGoto(s, l)
    BY <1>4
  <2>2. l \in Working \union {"idle"}
    BY DEF Working
  <2> QED BY <1>1, <2>1, <2>2, JobLeft
<1>5. CASE image = flash[j].manifest /\ starter' = [starter EXCEPT ![s] = next]
  <2>1. image \in Images /\ label \in Working
    BY <1>2, <1>5 DEF JobRecords, Working
  <2>2. label \notin {"begin", "save", "idle"}
    OBVIOUS
  <2> HIDE DEF image, label
  <2>3. /\ next \in StarterRecords /\ next.pc = label /\ next.image = image /\ next.job = j
    <3>1. starter[s] \in StarterRecords
      BY DEF FlashesOK
    <3> QED BY <2>1, <3>1 DEF StarterRecords
  <2> HIDE DEF next
  <2>4. InStep(next, flash[j])
    BY <1>2, <1>5, <2>2, <2>3 DEF InStep
  <2>5. WorksOn(s, next, j, flash[j])
    BY <1>2, <1>5, <2>1, <2>3, <2>4 DEF WorksOn
  <2> QED BY <1>2, <2>3, <2>5
<1> QED BY <1>3, <1>4, <1>5

\* The status is loaded that a marked chunk will be saved with.
LEMMA ChunkMarked ==
  ASSUME FlashesOK, NEW s \in Starters, MarkChunk(s)
  PROVE  \E next \in StarterRecords, job \in JobRecords : WorksOn(s, next, starter[s].job, job)
<1> DEFINE j == starter[s].job
           held == IF flash[j].status = "queued" THEN "running" ELSE flash[j].status
           next == [starter[s] EXCEPT !.pc = "save", !.held = held]
<1>1. /\ starter[s].pc = "mark" /\ "mark" \in Working /\ UNCHANGED flash
  BY DEF MarkChunk, StarterAt, Working
<1>2. /\ j \in FlashJobs /\ flash[j] \in JobRecords
      /\ flash[j].got \subseteq {flash[j].manifest}
      /\ flash' = [flash EXCEPT ![j] = flash[j]]
  BY <1>1, JobAtHand
<1>3. starter' = [starter EXCEPT ![s] = next] \/ StarterGoto(s, "idle")
  BY DEF MarkChunk
<1>4. CASE StarterGoto(s, "idle")
  BY <1>1, <1>4, JobLeft
<1>5. CASE starter' = [starter EXCEPT ![s] = next]
  <2>1. held \in Statuses
    BY <1>2 DEF JobRecords, Statuses
  <2> HIDE DEF held
  <2>2. /\ next \in StarterRecords /\ next.pc = "save" /\ next.held = held /\ next.job = j
    <3>1. starter[s] \in StarterRecords /\ "save" \in Working
      BY DEF FlashesOK, Working
    <3> QED BY <2>1, <3>1 DEF StarterRecords
  <2> HIDE DEF next
  <2>3. InStep(next, flash[j])
    BY <1>2, <2>1, <2>2 DEF InStep
  <2>4. WorksOn(s, next, j, flash[j])
    BY <1>2, <1>5, <2>2, <2>3 DEF WorksOn, Working
  <2> QED BY <1>2, <2>2, <2>4
<1> QED BY <1>3, <1>4, <1>5

\* A chunk is sent: it is of the job's image.
LEMMA ChunkSent ==
  ASSUME FlashesOK, NEW s \in Starters, SendChunk(s)
  PROVE  \E next \in StarterRecords, job \in JobRecords : WorksOn(s, next, starter[s].job, job)
<1> DEFINE j == starter[s].job
           got == flash[j].got \union {starter[s].image}
           job == [flash[j] EXCEPT !.got = got]
<1>1. /\ starter[s].pc = "send" /\ "send" \in Working
  BY DEF SendChunk, StarterAt, Working
<1>2. /\ j \in FlashJobs /\ flash[j] \in JobRecords
      /\ flash[j].got \subseteq {flash[j].manifest} /\ starter[s].image = flash[j].manifest
  BY <1>1, JobAtHand DEF InStep
<1>3. got \in SUBSET Images /\ got \subseteq {flash[j].manifest}
  BY <1>2 DEF JobRecords
<1>4. flash' = [flash EXCEPT ![j] = job]
  BY DEF SendChunk
<1> HIDE DEF got
<1>5. /\ job \in JobRecords /\ job.got = got /\ job.fw = flash[j].fw
      /\ job.auto = flash[j].auto /\ job.manifest = flash[j].manifest
  BY <1>2, <1>3 DEF JobRecords
<1> HIDE DEF job
<1>6. PICK label \in {"mark", "fail"} : StarterGoto(s, label)
  BY DEF SendChunk
<1>7. label \in Working \union {"idle"} /\ label \notin {"save", "begin", "send", "run"}
  BY DEF Working
<1>8. \E next \in StarterRecords : WorksOn(s, next, j, job)
  BY <1>1, <1>3, <1>4, <1>5, <1>6, <1>7, Onward
<1> QED BY <1>5, <1>8

\* A signal of the device begins to work on a job that there is.
LEMMA Signalled ==
  ASSUME FlashesOK, NEW s \in Starters, NEW op \in {"retry", "abort"}, SignalFlash(s, op)
  PROVE  \E j \in FlashJobs, next \in StarterRecords, job \in JobRecords :
           flash[j] \in JobRecords /\ WorksOn(s, next, j, job)
<1>1. PICK j \in ActiveFlashJobs, label \in {"load", "fail"} :
        starter' = [starter EXCEPT ![s] =
                      [Resting EXCEPT !.pc = label, !.op = op, !.job = j]]
  BY DEF SignalFlash
<1>2. /\ j \in FlashJobs /\ flash[j] \in JobRecords
      /\ flash[j].got \subseteq {flash[j].manifest}
      /\ UNCHANGED flash /\ flash = [flash EXCEPT ![j] = flash[j]]
  <2>1. j \in FlashJobs /\ flash[j].status # "none"
    BY DEF ActiveFlashJobs, Active
  <2> QED BY <2>1, PresentJobs DEF FlashesOK, SignalFlash
<1> DEFINE next == [Resting EXCEPT !.pc = label, !.op = op, !.job = j]
<1>3. /\ next \in StarterRecords /\ next.pc = label /\ next.job = j /\ label \in Working
  BY <1>2, AtRest DEF StarterRecords, Working
<1>4. starter' = [starter EXCEPT ![s] = next]
  BY <1>1
<1> HIDE DEF next
<1>5. InStep(next, flash[j])
  BY <1>2, <1>3 DEF InStep
<1>6. WorksOn(s, next, j, flash[j])
  BY <1>2, <1>3, <1>4, <1>5 DEF WorksOn
<1> QED BY <1>2, <1>3, <1>6

\* Whatever a goroutine does with a job, the job stays one, of its firmware and image.
LEMMA JobStepWorks ==
  ASSUME FlashesOK, NEW s \in Starters, JobStep(s)
  PROVE  \E j \in FlashJobs, next \in StarterRecords, job \in JobRecords :
           flash[j] \in JobRecords /\ WorksOn(s, next, j, job)
<1> DEFINE Mine == \E next \in StarterRecords, job \in JobRecords : WorksOn(s, next, starter[s].job, job)
           Goal == \E j \in FlashJobs, next \in StarterRecords, job \in JobRecords :
                     flash[j] \in JobRecords /\ WorksOn(s, next, j, job)
<1> SUFFICES Goal
  OBVIOUS
<1>1. ASSUME starter[s].pc \in Working, Mine PROVE Goal
  <2>1. starter[s].job \in FlashJobs /\ flash[starter[s].job] \in JobRecords
    BY <1>1, JobAtHand
  <2> QED BY <1>1, <2>1
<1>2. CASE \E op \in {"retry", "abort"} : SignalFlash(s, op)
  BY <1>2, Signalled
<1> HIDE DEF Goal
<1>3. {"begin", "run", "load", "finish", "send", "mark", "save", "done", "fail"} = Working
  BY DEF Working
<1>4. CASE BeginFlash(s)
  <2>1. starter[s].pc = "begin" /\ UNCHANGED flash /\ starter[s].pc \in Working
    BY <1>3, <1>4 DEF BeginFlash, StarterAt
  <2>2. starter[s].image = flash[starter[s].job].manifest
    BY <2>1, JobAtHand DEF InStep
  <2>3. PICK label \in {"run", "fail"} : StarterGoto(s, label)
    BY <1>4 DEF BeginFlash
  <2>4. label \in Working \union {"idle"} /\ label \notin {"save", "begin"}
    BY <1>3
  <2>5. Mine
    BY <2>1, <2>2, <2>3, <2>4, JobLeft
  <2> QED BY <1>1, <2>1, <2>5
<1>5. ASSUME NEW label \in Working, NEW status \in Statuses, NEW after \in Working \union {"idle"},
             SaveJob(s, label, status, after), after \notin {"save", "run", "begin"},
             after = "send" => starter[s].image = flash[starter[s].job].manifest
      PROVE  Goal
  <2>1. starter[s].pc \in Working
    BY <1>5 DEF SaveJob, StarterAt
  <2>2. Mine
    BY <1>5, JobSaved
  <2> QED BY <1>1, <2>1, <2>2
<1>6. CASE MarkFlashJobRunning(s)
  <2> DEFINE after == IF starter[s].op = "retry" THEN "send" ELSE "load"
  <2>1. SaveJob(s, "run", "running", after) /\ starter[s].pc = "run"
    BY <1>6 DEF MarkFlashJobRunning, SaveJob, StarterAt
  <2>2. after = "send" => starter[s].image = flash[starter[s].job].manifest
    BY <1>3, <2>1, JobAtHand DEF InStep
  <2>3. after \in Working \union {"idle"} /\ after \notin {"save", "run", "begin"}
        /\ "running" \in Statuses /\ "run" \in Working
    BY <1>3 DEF Statuses
  <2> HIDE DEF after
  <2> QED BY <1>5, <2>1, <2>2, <2>3
<1>7. CASE FinishFlashJob(s) \/ FailFlashJob(s)
  <2>1. "finish" \in Working /\ "fail" \in Working /\ {"completed", "failed"} \subseteq Statuses
    BY <1>3 DEF Statuses
  <2> QED BY <1>5, <1>7, <2>1 DEF FinishFlashJob, FailFlashJob
<1>8. CASE SaveChunk(s)
  <2>1. starter[s].pc = "save"
    BY <1>8 DEF SaveChunk, SaveJob, StarterAt
  <2>2. starter[s].held \in Statuses
    BY <1>3, <2>1, JobAtHand DEF InStep
  <2>3. \A after \in AfterChunk(s, starter[s].held) :
          after \in Working \union {"idle"} /\ after \notin {"save", "run", "begin", "send"}
    BY <1>3 DEF AfterChunk
  <2>4. "save" \in Working /\ "done" \in Working /\ "completed" \in Statuses
    BY <1>3 DEF Statuses
  <2>5. CASE SaveJob(s, "save", "completed", "done")
    BY <1>5, <2>4, <2>5
  <2>6. CASE \E label \in AfterChunk(s, starter[s].held) :
               SaveJob(s, "save", starter[s].held, label)
    BY <1>5, <2>2, <2>3, <2>4, <2>6
  <2> QED BY <1>8, <2>5, <2>6 DEF SaveChunk
<1>9. CASE CompleteDeviceFlash(s)
  <2>1. starter[s].pc = "done" /\ UNCHANGED flash /\ starter[s].pc \in Working
    BY <1>3, <1>9 DEF CompleteDeviceFlash, StarterAt
  <2>2. PICK label \in AfterChunk(s, "completed") \union {"fail"} : StarterGoto(s, label)
    BY <1>9 DEF CompleteDeviceFlash
  <2>3. label \in Working \union {"idle"} /\ label \notin {"save", "begin", "send", "run"}
    BY <1>3, <2>2 DEF AfterChunk
  <2>4. Mine
    BY <2>1, <2>2, <2>3, JobLeft
  <2> QED BY <1>1, <2>1, <2>4
<1>10. CASE LoadChunk(s) \/ MarkChunk(s) \/ SendChunk(s)
  <2>1. Mine
    BY <1>10, ChunkLoaded, ChunkMarked, ChunkSent
  <2>2. starter[s].pc \in {"load", "mark", "send"}
    BY <1>10 DEF LoadChunk, MarkChunk, SendChunk, StarterAt
  <2>3. starter[s].pc \in Working
    BY <1>3, <2>2
  <2> QED BY <1>1, <2>1, <2>3
<1> QED BY <1>4, <1>6, <1>7, <1>8, <1>9, <1>10, <1>2 DEF JobStep

\* A goroutine that creates its job or works on it.
LEMMA FlashesRun ==
  ASSUME FlashesOK, NEW s \in Starters, CreateFlashJob(s) \/ JobStep(s)
  PROVE  FlashesOK'
<1>1. CASE StarterGoto(s, "idle") /\ UNCHANGED flash
  <2>1. PICK next \in StarterRecords :
          /\ starter' = [starter EXCEPT ![s] = next] /\ next.pc = "idle"
    BY <1>1, StarterMoved DEF FlashesOK
  <2> QED BY <1>1, <2>1, StarterAlone DEF Prepared
<1>2. CASE \E j \in FlashJobs, next \in StarterRecords, job \in JobRecords : WorksOn(s, next, j, job)
  BY <1>2, StarterWithJob
<1> QED BY <1>1, <1>2, JobCreated, JobStepWorks

\* Requests, and what devices report, leave the flashes alone.
LEMMA FlashesKept ==
  ASSUME FlashesOK, UNCHANGED <<starter, flash>>
  PROVE  FlashesOK'
BY DEF FlashesOK

LEMMA FlashesCrash ==
  ASSUME FlashesOK, CatalogCrash
  PROVE  FlashesOK'
<1>1. UNCHANGED flash /\ starter' = [s \in Starters |-> Resting]
  BY DEF CatalogCrash
<1>2. starter' \in [Starters -> StarterRecords] /\ \A s \in Starters : starter'[s].pc = "idle"
  BY <1>1, AtRest
<1>3. "idle" \notin Working
  BY DEF Working
<1> QED BY <1>1, <1>2, <1>3 DEF FlashesOK, Prepared

\* A step of a request is its own, and leaves the flashes alone; only the check for
\* flashes lets it delete.
LEMMA RequestStep ==
  ASSUME CatalogInv, NEW a \in Admins, AdminStep(a)
  PROVE  /\ UNCHANGED <<starter, flash>>
         /\ \E next : /\ admin' = [admin EXCEPT ![a] = next]
                      /\ next.pc = "delete" => CheckFlashJobs(a)
<1>1. UNCHANGED flashing
  BY RequestFrame
<1>2. admin \in [Admins -> Requests] /\ admin[a] \in Requests
  BY DEF CatalogInv, CatalogTypeOK
<1> DEFINE Mine == \E next : /\ admin' = [admin EXCEPT ![a] = next]
                             /\ next.pc = "delete" => CheckFlashJobs(a)
<1> SUFFICES Mine
  BY <1>1 DEF flashing
<1>3. ASSUME EndRequest(a) PROVE Mine
  <2>1. NoRequest.pc = "idle" /\ admin' = [admin EXCEPT ![a] = NoRequest]
    BY <1>3 DEF NoRequest, EndRequest
  <2> QED BY <2>1
<1>4. ASSUME NEW label \in AdminLabels, label = "delete" => CheckFlashJobs(a),
             admin' = [admin EXCEPT ![a].pc = label]
      PROVE  Mine
  <2> DEFINE next == [admin[a] EXCEPT !.pc = label]
  <2>1. next.pc = label
    BY <1>2 DEF Requests
  <2>2. admin' = [admin EXCEPT ![a] = next]
    BY <1>4
  <2> HIDE DEF next
  <2> QED BY <1>4, <2>1, <2>2
<1>5. ASSUME NEW f, NEW op, NEW label \in {"write", "list", "save", "check"}, NEW r,
             NEW promote, NEW image, BeginRequest(a, f, op, label, r, promote, image)
      PROVE  Mine
  <2> DEFINE next == [pc |-> label, op |-> op, fw |-> f, copy |-> r, promote |-> promote,
                      image |-> image, clear |-> {}, list |-> firmware]
  <2>1. next.pc = label /\ admin' = [admin EXCEPT ![a] = next]
    BY <1>5 DEF BeginRequest
  <2> HIDE DEF next
  <2> QED BY <2>1
<1>6. \A b : AfterBinary(b) \in {"list", "save"}
  BY DEF AfterBinary
<1>7. ASSUME NEW f \in Firmwares, NEW name \in ProductNames,
             \/ \E u \in Uploads : UploadFirmware(a, f, name, u)
             \/ SetDefaultFirmware(a, f, name)
             \/ ReleaseFirmware(a, f, name)
             \/ \E u \in Updates : UpdateFirmware(a, f, name, u)
             \/ DeleteFirmware(a, f, name)
      PROVE  Mine
  <2>1. CASE \E u \in Uploads : UploadFirmware(a, f, name, u)
    BY <1>5, <2>1 DEF UploadFirmware
  <2>2. CASE SetDefaultFirmware(a, f, name) \/ ReleaseFirmware(a, f, name)
             \/ DeleteFirmware(a, f, name)
    BY <1>5, <2>2 DEF SetDefaultFirmware, ReleaseFirmware, DeleteFirmware
  <2>3. ASSUME NEW u \in Updates, UpdateFirmware(a, f, name, u)
        PROVE  Mine
    <3> DEFINE promote == "yes" \in {u.default, u.current}
               label == IF u.image = "none" THEN AfterBinary(promote) ELSE "write"
    <3>1. BeginRequest(a, f, "update", label, Updated(firmware[f], u), promote, u.image)
      BY <2>3 DEF UpdateFirmware
    <3>2. label \in {"write", "list", "save"}
      BY <1>6
    <3> HIDE DEF Mine, label, promote
    <3> QED BY <1>5, <3>1, <3>2
  <2> QED BY <1>7, <2>1, <2>2, <2>3
<1>8. CASE WriteBinary(a)
  <2>1. PICK label \in {"removeOld", "list", "save"} : AdminGoto(a, label) \/ Refuse(a)
    BY <1>6, <1>8 DEF WriteBinary
  <2>2. label # "idle" /\ label # "delete" /\ label \in AdminLabels
    BY DEF AdminLabels
  <2> QED BY <1>3, <1>4, <2>1, <2>2 DEF AdminGoto, Refuse
<1>9. CASE RemoveOldBinary(a)
  <2>1. PICK label \in {"list", "save"} : admin' = [admin EXCEPT ![a].pc = label]
    BY <1>6, <1>9 DEF RemoveOldBinary
  <2>2. label # "delete" /\ label \in AdminLabels
    BY DEF AdminLabels
  <2> QED BY <1>4, <2>1, <2>2
<1>10. CASE ListCurrent(a)
  <2> DEFINE found == {f \in OfProduct(admin[a].copy.product) : firmware[f].current}
             label == IF found = {} THEN "save" ELSE "clear"
             next == [admin[a] EXCEPT !.clear = found, !.list = firmware, !.pc = label]
  <2>1. admin' = [admin EXCEPT ![a] = next] \/ EndRequest(a)
    BY <1>10 DEF ListCurrent, Refuse
  <2>2. label # "delete"
    OBVIOUS
  <2> HIDE DEF found, label
  <2>3. next.pc = label
    BY <1>2 DEF Requests
  <2> HIDE DEF next
  <2> QED BY <1>3, <2>1, <2>2, <2>3
<1>11. CASE ClearCurrent(a)
  <2>1. admin[a].pc = "clear"
    BY <1>11 DEF ClearCurrent, AdminAt
  <2>2. ASSUME NEW f, admin' = [admin EXCEPT ![a].clear = @ \ {f},
                                    ![a].pc = IF admin[a].clear = {f} THEN "save" ELSE @]
        PROVE  Mine
    <3> DEFINE label == IF admin[a].clear = {f} THEN "save" ELSE "clear"
               next == [admin[a] EXCEPT !.clear = admin[a].clear \ {f}, !.pc = label]
    <3>1. admin' = [admin EXCEPT ![a] = next]
      BY <2>1, <2>2
    <3>2. label # "delete"
      OBVIOUS
    <3> HIDE DEF label
    <3>3. next.pc = label
      BY <1>2 DEF Requests
    <3> HIDE DEF next
    <3> QED BY <3>1, <3>2, <3>3
  <2> HIDE DEF Mine
  <2> QED BY <1>3, <1>11, <2>2 DEF ClearCurrent, Refuse
<1>12. CASE SaveFirmware(a) \/ RemoveBinary(a)
  <2>1. EndRequest(a)
    BY <1>12 DEF SaveFirmware, RemoveBinary, AdminGoto, Refuse
  <2> QED BY <1>3, <2>1
<1>13. CASE CheckFlashJobs(a)
  <2>1. EndRequest(a) \/ admin' = [admin EXCEPT ![a].pc = "delete"]
    BY <1>13 DEF CheckFlashJobs, AdminGoto
  <2>2. "delete" \in AdminLabels
    BY DEF AdminLabels
  <2> QED BY <1>3, <1>4, <1>13, <2>1, <2>2
<1>14. CASE DeleteRecord(a)
  <2>1. EndRequest(a) \/ admin' = [admin EXCEPT ![a].pc = "remove"]
    BY <1>14 DEF DeleteRecord, AdminGoto, Refuse
  <2>2. "remove" \in AdminLabels /\ "remove" # "delete"
    BY DEF AdminLabels
  <2> QED BY <1>3, <1>4, <2>1, <2>2
<1> HIDE DEF Mine
<1> QED BY <1>7, <1>8, <1>9, <1>10, <1>11, <1>12, <1>13, <1>14 DEF AdminStep

LEMMA FlashesNext ==
  ASSUME CatalogInv, MatchInv, FlashesOK, CatalogNext
  PROVE  FlashesOK'
<1>1. ASSUME NEW a \in Admins, AdminStep(a)
      PROVE  FlashesOK'
  BY <1>1, RequestStep, FlashesKept
<1>2. ASSUME NEW s \in Starters, StarterStep(s)
      PROVE  FlashesOK'
  <2>1. CASE \/ CheckForUpdate(s) \/ HasFlashJob(s) \/ SelectFirmware(s) \/ BuildManifest(s)
             \/ \E f \in Firmwares \union {"none"} : RequestFlash(s, f)
    BY <2>1, FlashesLoad
  <2>2. CASE CreateFlashJob(s) \/ JobStep(s)
    BY <2>2, FlashesRun
  <2> QED BY <1>2, <2>1, <2>2 DEF StarterStep, JobStep
<1>3. CASE (\E j \in FlashJobs : ReportVersion(j)) \/ \E v \in 0 .. MaxVersion : DesireVersion(v)
  <2>1. UNCHANGED <<starter, flash>>
    BY <1>3 DEF ReportVersion, DesireVersion
  <2> QED BY <2>1, FlashesKept
<1>4. CASE CatalogCrash
  BY <1>4, FlashesCrash
<1> QED BY <1>1, <1>2, <1>3, <1>4 DEF CatalogNext

LEMMA FlashesInit == CatalogInit => FlashesOK
<1> SUFFICES ASSUME CatalogInit PROVE FlashesOK
  OBVIOUS
<1>1. /\ starter \in [Starters -> StarterRecords]
      /\ \A s \in Starters : starter[s].pc = "idle"
      /\ flash \in [FlashJobs -> JobRecords \union {NoFlash}]
      /\ \A j \in FlashJobs : flash[j].got = {}
  BY AtRest DEF CatalogInit, NoFlash
<1>2. "idle" \notin Working
  BY DEF Working
<1> QED BY <1>1, <1>2 DEF FlashesOK, Prepared

-----------------------------------------------------------------------------
(* No firmware is deleted under a flash *)

\* Meetings with a start of a flash are recorded.
LEMMA MeetingsRecorded ==
  ASSUME CatalogNext
  PROVE  /\ "both" \notin overlap' => \A a \in Admins, s \in Starters : ~(Busy(a) /\ Starting(s))'
         /\ "starters" \notin overlap' =>
              \A s, t \in Starters : Starting(s)' /\ Starting(t)' => s = t
<1>1. Overlaps' \subseteq overlap'
  BY DEF CatalogNext
<1> QED BY <1>1 DEF Overlaps

\* A request keeps all records but the one it deletes, and deletes none that is flashed.
LEMMA RecordsKept ==
  ASSUME CatalogInv, NEW a \in Admins, AdminStep(a)
  PROVE  /\ UNCHANGED <<starter, flash>>
         /\ \A b \in Admins : b # a => admin'[b] = admin[b]
         /\ \A f \in Firmwares :
              Stored(f) => Stored(f)' \/ (AdminAt(a, "delete") /\ f = admin[a].fw)
         /\ AdminAt(a, "delete")' =>
              /\ AdminAt(a, "check") /\ admin'[a].fw = admin[a].fw
              /\ \/ \A j \in FlashJobs : ~(Active(j) /\ flash[j].fw = admin[a].fw)
                 \/ broken' = broken + 1
<1>1. UNCHANGED <<starter, flash>>
  BY RequestStep
<1>2. /\ admin \in [Admins -> Requests] /\ firmware \in [Firmwares -> Records]
      /\ Busy(a) => admin[a].fw \in Firmwares /\ admin[a].copy # NoFirmware
      /\ \A f \in admin[a].clear : admin[a].list[f] # NoFirmware
  BY DEF CatalogInv, CatalogTypeOK
<1>3. /\ admin[a].copy \in Records /\ admin[a].list \in [Firmwares -> Records]
      /\ admin[a].clear \subseteq Firmwares
  BY <1>2 DEF Requests
<1>4. \A b \in Admins : b # a => admin'[b] = admin[b]
  BY <1>2, RequestStep
<1>5. ASSUME NEW f \in Firmwares, Stored(f)
      PROVE  Stored(f)' \/ (AdminAt(a, "delete") /\ f = admin[a].fw)
  <2>1. ASSUME NEW g \in Firmwares, NEW r \in FirmwareRecords,
               firmware' = [firmware EXCEPT ![g] = r]
        PROVE  Stored(f)'
    <3>1. r # NoFirmware
      BY PresentRecords DEF Records
    <3> QED BY <1>2, <1>5, <2>1, <3>1 DEF Stored
  <2>2. CASE UNCHANGED firmware
    BY <1>5, <2>2 DEF Stored
  <2>3. CASE ClearCurrent(a)
    <3>1. \A g \in admin[a].clear : Cleared(admin[a].list[g]) \in FirmwareRecords
      BY <1>2, <1>3, PresentRecords, ClearedShape
    <3> QED BY <1>3, <2>1, <2>2, <2>3, <3>1 DEF ClearCurrent
  <2>4. CASE SaveFirmware(a)
    <3> DEFINE r == IF admin[a].promote THEN Promoted(admin[a].copy) ELSE admin[a].copy
    <3>1. Busy(a)
      BY <2>4 DEF SaveFirmware, Busy, AdminAt
    <3>2. admin[a].fw \in Firmwares /\ r \in FirmwareRecords
      BY <1>2, <1>3, <3>1, PresentRecords, RecordShapes
    <3>3. \/ firmware' = [firmware EXCEPT ![admin[a].fw] = r]
          \/ UNCHANGED firmware
      BY <2>4 DEF SaveFirmware
    <3> HIDE DEF r
    <3> QED BY <2>1, <2>2, <3>2, <3>3
  <2>5. CASE DeleteRecord(a)
    <3>1. AdminAt(a, "delete")
      BY <2>5 DEF DeleteRecord
    <3> QED BY <1>2, <1>5, <2>2, <2>5, <3>1 DEF DeleteRecord, Stored
  <2>6. CASE ~(ClearCurrent(a) \/ SaveFirmware(a) \/ DeleteRecord(a))
    <3>1. UNCHANGED firmware
      BY <2>6, RequestFrame
    <3> QED BY <2>2, <3>1
  <2> QED BY <2>3, <2>4, <2>5, <2>6
<1>6. ASSUME AdminAt(a, "delete")'
      PROVE  /\ AdminAt(a, "check") /\ admin'[a].fw = admin[a].fw
             /\ \/ \A j \in FlashJobs : ~(Active(j) /\ flash[j].fw = admin[a].fw)
                \/ broken' = broken + 1
  <2>1. CheckFlashJobs(a)
    BY <1>2, <1>6, RequestStep DEF AdminAt
  <2>2. AdminAt(a, "check")
    BY <2>1 DEF CheckFlashJobs
  <2>3. ~EndRequest(a)
    BY <1>2, <1>6, RequestEnded DEF AdminAt
  <2>4. admin' = [admin EXCEPT ![a].pc = "delete"]
    BY <2>1, <2>3 DEF CheckFlashJobs, AdminGoto
  <2>5. admin'[a].fw = admin[a].fw
    BY <1>2, <2>4, RequestMoved DEF AdminLabels
  <2>6. \/ \A j \in FlashJobs : ~(Active(j) /\ flash[j].fw = admin[a].fw)
        \/ broken' = broken + 1
    BY <2>1, <2>3 DEF CheckFlashJobs, AdminGoto, Breaks
  <2> QED BY <2>2, <2>5, <2>6
<1> QED BY <1>1, <1>4, <1>5, <1>6

\* A flash that goes on stays what it is, and becomes active again only when it is revived.
LEMMA JobsGoOn ==
  ASSUME FlashesOK, NEW s \in Starters, JobStep(s), revived' = revived \union Reviving
  PROVE  /\ starter'[s].pc \notin {"jobs", "select", "manifest", "create"}
         /\ \A t \in Starters : t # s => starter'[t] = starter[t]
         /\ \A i \in FlashJobs :
              /\ flash'[i].fw = flash[i].fw /\ flash'[i].auto = flash[i].auto
              /\ i \notin revived' =>
                   /\ i \notin revived
                   /\ Active(i)' => Active(i)
                   /\ flash[i].status = "failed" => flash'[i].status = "failed"
<1>1. PICK j \in FlashJobs, next \in StarterRecords, job \in JobRecords :
        flash[j] \in JobRecords /\ WorksOn(s, next, j, job)
  BY JobStepWorks
<1>2. /\ starter'[s] = next /\ \A t \in Starters : t # s => starter'[t] = starter[t]
  BY <1>1 DEF FlashesOK, WorksOn
<1>3. starter'[s].pc \notin {"jobs", "select", "manifest", "create"}
  BY <1>1, <1>2, StarterLabels DEF WorksOn
<1>4. /\ flash'[j] = job /\ job.fw = flash[j].fw /\ job.auto = flash[j].auto
      /\ \A i \in FlashJobs : i # j => flash'[i] = flash[i]
      /\ job.status \in Statuses /\ flash[j].status \in Statuses
  BY <1>1 DEF FlashesOK, WorksOn, InStep, JobRecords
<1>5. j \notin revived' /\ flash[j].status \in {"failed", "completed"}
        => job.status \in {flash[j].status, "failed"}
  BY <1>4 DEF Reviving
<1>6. /\ j \notin revived' /\ Active(j)' => Active(j)
      /\ j \notin revived' /\ flash[j].status = "failed" => flash'[j].status = "failed"
  BY <1>4, <1>5 DEF Active, Statuses
<1> QED BY <1>2, <1>3, <1>4, <1>6 DEF Active

\* A starter that loads has not been at work with its job, and leaves it alone.
LEMMA StarterLoads ==
  ASSUME CatalogInv, FlashesOK, NEW s \in Starters,
         \/ CheckForUpdate(s) \/ HasFlashJob(s) \/ SelectFirmware(s) \/ BuildManifest(s)
         \/ \E f \in Firmwares \union {"none"} : RequestFlash(s, f)
  PROVE  /\ UNCHANGED <<firmware, admin, flash>>
         /\ \A t \in Starters : t # s => starter'[t] = starter[t]
         /\ starter'[s].pc \in {"idle", "jobs", "select", "manifest", "create"}
         /\ starter'[s].pc = "select" /\ starter'[s].op = "auto" =>
              HasFlashJob(s) /\ starter[s].fw \in Firmwares /\ starter'[s].fw = starter[s].fw
         /\ starter'[s].pc = "manifest" =>
              /\ Stored(starter'[s].fw)
              /\ StarterAt(s, "select")
              /\ starter'[s].op = "auto" => starter[s].op = "auto" /\ starter'[s].fw = starter[s].fw
         /\ starter'[s].pc = "create" =>
              /\ StarterAt(s, "manifest") /\ starter'[s].fw = starter[s].fw
              /\ starter'[s].op = starter[s].op
<1>1. /\ starter \in [Starters -> StarterRecords] /\ starter[s] \in StarterRecords
      /\ Prepared(starter[s])
  BY DEF FlashesOK
<1>2. UNCHANGED <<firmware, admin, flash>>
  BY DEF CheckForUpdate, HasFlashJob, SelectFirmware, BuildManifest, RequestFlash, records
<1>3. CASE CheckForUpdate(s) \/ \E f \in Firmwares \union {"none"} : RequestFlash(s, f)
  <2>1. PICK next : /\ starter' = [starter EXCEPT ![s] = next]
                    /\ next.pc = "jobs" \/ (next.pc = "select" /\ next.op = "request")
    <3>1. ASSUME NEW f, starter' = [starter EXCEPT ![s] =
                                      [Resting EXCEPT !.pc = "jobs", !.op = "auto", !.fw = f]]
          PROVE  \E next : /\ starter' = [starter EXCEPT ![s] = next]
                           /\ next.pc = "jobs"
      <4> DEFINE next == [Resting EXCEPT !.pc = "jobs", !.op = "auto", !.fw = f]
      <4>1. next.pc = "jobs"
        BY DEF Resting
      <4>2. starter' = [starter EXCEPT ![s] = next]
        BY <3>1
      <4> HIDE DEF next
      <4> QED BY <4>1, <4>2
    <3>2. ASSUME NEW f, starter' = [starter EXCEPT ![s] =
                                      [Resting EXCEPT !.pc = "select", !.op = "request", !.fw = f]]
          PROVE  \E next : /\ starter' = [starter EXCEPT ![s] = next]
                           /\ next.pc = "select" /\ next.op = "request"
      <4> DEFINE next == [Resting EXCEPT !.pc = "select", !.op = "request", !.fw = f]
      <4>1. next.pc = "select" /\ next.op = "request"
        BY DEF Resting
      <4>2. starter' = [starter EXCEPT ![s] = next]
        BY <3>2
      <4> HIDE DEF next
      <4> QED BY <4>1, <4>2
    <3> QED BY <1>3, <3>1, <3>2 DEF CheckForUpdate, RequestFlash
  <2> QED BY <1>1, <1>2, <2>1
<1>4. CASE HasFlashJob(s)
  <2>1. PICK label \in {"idle", "select"} : StarterGoto(s, label)
    BY <1>4 DEF HasFlashJob
  <2>2. PICK next \in StarterRecords :
          /\ starter' = [starter EXCEPT ![s] = next]
          /\ next.pc = label /\ (label # "idle" => next.fw = starter[s].fw)
    BY <1>1, <2>1, StarterMoved
  <2>3. starter[s].fw \in Firmwares
    BY <1>1, <1>4 DEF HasFlashJob, StarterAt, Prepared
  <2> QED BY <1>1, <1>2, <1>4, <2>2, <2>3
<1>5. CASE SelectFirmware(s)
  <2>1. StarterAt(s, "select")
    BY <1>5 DEF SelectFirmware
  <2>2. CASE StarterGoto(s, "idle")
    <3>1. PICK next \in StarterRecords :
            /\ starter' = [starter EXCEPT ![s] = next] /\ next.pc = "idle"
      BY <1>1, <2>2, StarterMoved
    <3> QED BY <1>1, <1>2, <3>1
  <2>3. ASSUME NEW f \in Firmwares, NEW next \in StarterRecords,
               Stored(f), starter[s].fw \in Firmwares => f = starter[s].fw,
               starter' = [starter EXCEPT ![s] = next],
               next.pc = "manifest", next.fw = f, next.op = starter[s].op
        PROVE  /\ \A t \in Starters : t # s => starter'[t] = starter[t]
               /\ starter'[s].pc = "manifest" /\ Stored(starter'[s].fw)
               /\ starter'[s].op = "auto" => starter[s].op = "auto" /\ starter'[s].fw = starter[s].fw
    <3>1. starter'[s] = next /\ \A t \in Starters : t # s => starter'[t] = starter[t]
      BY <1>1, <2>3
    <3>2. starter[s].op = "auto" => starter[s].fw \in Firmwares
      BY <1>1, <2>1 DEF Prepared, StarterAt
    <3> QED BY <2>3, <3>1, <3>2
  <2>4. CASE ~StarterGoto(s, "idle")
    <3>1. /\ \A t \in Starters : t # s => starter'[t] = starter[t]
          /\ starter'[s].pc = "manifest" /\ Stored(starter'[s].fw)
          /\ starter'[s].op = "auto" => starter[s].op = "auto" /\ starter'[s].fw = starter[s].fw
      <4>1. PICK f \in Firmwares, next \in StarterRecords :
              /\ Stored(f) /\ (starter[s].fw \in Firmwares => f = starter[s].fw)
              /\ starter' = [starter EXCEPT ![s] = next]
              /\ next.pc = "manifest" /\ next.fw = f /\ next.copy = firmware[f]
              /\ next.op = starter[s].op
        BY <1>5, <2>4, Selected
      <4> QED BY <2>3, <4>1
    <3> QED BY <1>2, <2>1, <3>1
  <2> QED BY <2>2, <2>4
<1>6. CASE BuildManifest(s)
  <2> DEFINE image == binary[starter[s].fw][starter[s].copy.ext]
             next == [starter[s] EXCEPT !.pc = "create", !.image = image]
  <2>1. /\ StarterAt(s, "manifest")
        /\ starter' = [starter EXCEPT ![s] = next] \/ StarterGoto(s, "idle")
    BY <1>6 DEF BuildManifest
  <2> HIDE DEF image
  <2>2. next.pc = "create" /\ next.fw = starter[s].fw /\ next.op = starter[s].op
    BY <1>1 DEF StarterRecords
  <2> HIDE DEF next
  <2>3. CASE StarterGoto(s, "idle")
    <3>1. PICK nobody \in StarterRecords :
            /\ starter' = [starter EXCEPT ![s] = nobody] /\ nobody.pc = "idle"
      BY <1>1, <2>3, StarterMoved
    <3> QED BY <1>1, <1>2, <3>1
  <2> QED BY <1>1, <1>2, <2>1, <2>2, <2>3
<1> QED BY <1>3, <1>4, <1>5, <1>6

\* A job that is created has no status yet, and is of the firmware that was selected.
LEMMA JobAdded ==
  ASSUME FlashesOK, NEW s \in Starters, CreateFlashJob(s), revived' = revived \union Reviving
  PROVE  /\ StarterAt(s, "create") /\ starter[s].fw \in Firmwares
         /\ \A t \in Starters : t # s => starter'[t] = starter[t]
         /\ starter'[s].pc \in {"idle", "begin"}
         /\ revived \subseteq revived'
         /\ \/ UNCHANGED flash
            \/ \E j \in FlashJobs :
                 /\ \A i \in FlashJobs : i # j => flash'[i] = flash[i]
                 /\ flash'[j].fw = starter[s].fw
                 /\ flash'[j].auto <=> starter[s].op = "auto"
<1>1. starter \in [Starters -> StarterRecords] /\ flash \in [FlashJobs -> JobRecords \union {NoFlash}]
  BY DEF FlashesOK
<1>2. StarterAt(s, "create") /\ starter[s].fw \in Firmwares
  BY JobCreated
<1>3. CASE StarterGoto(s, "idle") /\ UNCHANGED flash
  <2>1. PICK next \in StarterRecords :
          starter' = [starter EXCEPT ![s] = next] /\ next.pc = "idle"
    BY <1>1, <1>3, StarterMoved
  <2> QED BY <1>1, <1>2, <1>3, <2>1
<1>4. CASE \E next \in StarterRecords, j \in FlashJobs, job \in JobRecords :
             /\ WorksOn(s, next, j, job) /\ next.pc = "begin"
             /\ job.fw = starter[s].fw /\ (job.auto <=> starter[s].op = "auto")
  <2>1. PICK next \in StarterRecords, j \in FlashJobs, job \in JobRecords :
             /\ WorksOn(s, next, j, job) /\ next.pc = "begin"
             /\ job.fw = starter[s].fw /\ (job.auto <=> starter[s].op = "auto")
    BY <1>4
  <2> QED BY <1>1, <1>2, <2>1 DEF WorksOn
<1> QED BY <1>3, <1>4, JobCreated

LEMMA KeptNext ==
  ASSUME CatalogInv, MatchInv, FlashesOK, KeptInv, CatalogNext
  PROVE  KeptInv'
<1> SUFFICES ASSUME Apart' PROVE KeptInv'
  BY DEF KeptInv
<1>1. broken' = broken /\ broken = 0 /\ Apart
  BY FaultsCounted DEF Apart, MatchInv
<1>0. revived' = revived \union Reviving /\ revived \subseteq revived'
  BY DEF CatalogNext
<1>2. \A a \in Admins, s \in Starters : ~(Busy(a) /\ Starting(s))'
  BY MeetingsRecorded DEF Apart
<1>3. /\ \A a \in Admins, s \in Starters : ~(Busy(a) /\ Starting(s))
      /\ \A j \in FlashJobs \ revived : Active(j) => Stored(flash[j].fw)
      /\ \A s \in Starters : starter[s].pc \in {"manifest", "create"} => Stored(starter[s].fw)
      /\ \A a \in Admins :
           AdminAt(a, "delete")
             => \A j \in FlashJobs \ revived : ~(Active(j) /\ flash[j].fw = admin[a].fw)
  BY <1>1 DEF KeptInv
<1>4. \A j \in FlashJobs : Active(j) => flash[j].fw \in Firmwares
  BY PresentJobs DEF Active, JobRecords
<1>5. \A s \in Starters : starter[s].pc \in {"manifest", "create"} => starter[s].fw \in Firmwares
  BY DEF FlashesOK, Prepared
<1>6. ASSUME NEW a \in Admins, AdminStep(a)
      PROVE  KeptInv'
  <2>1. /\ UNCHANGED <<starter, flash>>
        /\ \A b \in Admins : b # a => admin'[b] = admin[b]
        /\ \A f \in Firmwares :
             Stored(f) => Stored(f)' \/ (AdminAt(a, "delete") /\ f = admin[a].fw)
        /\ AdminAt(a, "delete")' =>
             /\ AdminAt(a, "check") /\ admin'[a].fw = admin[a].fw
             /\ \/ \A j \in FlashJobs : ~(Active(j) /\ flash[j].fw = admin[a].fw)
                \/ broken' = broken + 1
    BY <1>6, RecordsKept
  <2>2. AdminAt(a, "delete") => Busy(a)
    BY DEF Busy, AdminAt
  <2>3. \A j \in FlashJobs \ revived' : Active(j)' => Stored(flash[j].fw)'
    BY <1>0, <1>3, <1>4, <2>1 DEF Active
  <2>4. \A s \in Starters :
          starter'[s].pc \in {"manifest", "create"} => Stored(starter[s].fw)'
    BY <1>0, <1>3, <1>5, <2>1, <2>2 DEF Starting
  <2>5. ASSUME NEW b \in Admins, AdminAt(b, "delete")'
        PROVE  \A j \in FlashJobs \ revived' : ~(Active(j) /\ flash[j].fw = admin[b].fw)'
    <3>1. CASE b = a
      BY <1>1, <2>1, <2>5, <3>1 DEF Active
    <3>2. CASE b # a
      BY <1>0, <1>3, <2>1, <2>5, <3>2 DEF Active, AdminAt
    <3> QED BY <3>1, <3>2
  <2> QED BY <1>2, <2>1, <2>3, <2>4, <2>5 DEF KeptInv
<1>7. ASSUME NEW s \in Starters, StarterStep(s)
      PROVE  KeptInv'
  <2>1. CASE \/ CheckForUpdate(s) \/ HasFlashJob(s) \/ SelectFirmware(s) \/ BuildManifest(s)
             \/ \E f \in Firmwares \union {"none"} : RequestFlash(s, f)
    <3>1. /\ UNCHANGED <<firmware, admin, flash>>
          /\ \A t \in Starters : t # s => starter'[t] = starter[t]
          /\ starter'[s].pc = "manifest" => Stored(starter'[s].fw)
          /\ starter'[s].pc = "create" =>
               StarterAt(s, "manifest") /\ starter'[s].fw = starter[s].fw
      BY <2>1, StarterLoads
    <3>2. \A f \in Firmwares \union {"none"} : Stored(f)' <=> Stored(f)
      BY <3>1 DEF Stored
    <3>3. ASSUME NEW t \in Starters, starter'[t].pc \in {"manifest", "create"}
          PROVE  Stored(starter[t].fw)'
      <4>1. CASE t # s
        BY <1>0, <1>3, <3>1, <3>3, <4>1 DEF Stored
      <4>2. CASE t = s
        BY <1>0, <1>3, <3>1, <3>3, <4>2 DEF Stored, StarterAt
      <4> QED BY <4>1, <4>2
    <3>4. \A j \in FlashJobs \ revived' : Active(j)' => Stored(flash[j].fw)'
      BY <1>0, <1>3, <3>1 DEF Active, Stored
    <3>5. \A a \in Admins : AdminAt(a, "delete")'
            => \A j \in FlashJobs \ revived' : ~(Active(j) /\ flash[j].fw = admin[a].fw)'
      BY <1>0, <1>3, <3>1 DEF Active, AdminAt
    <3> QED BY <1>2, <3>3, <3>4, <3>5 DEF KeptInv
  <2>2. CASE CreateFlashJob(s)
    <3>1. UNCHANGED <<firmware, admin>>
      BY <1>7, StarterFrame
    <3>2. /\ StarterAt(s, "create")
          /\ \A t \in Starters : t # s => starter'[t] = starter[t]
          /\ starter'[s].pc \in {"idle", "begin"}
          /\ \/ UNCHANGED flash
             \/ \E j \in FlashJobs :
                  /\ \A i \in FlashJobs : i # j => flash'[i] = flash[i]
                  /\ flash'[j].fw = starter[s].fw
      BY <1>0, <2>2, JobAdded
    <3>3. \A a \in Admins : ~Busy(a)
      BY <1>0, <1>3, <3>2 DEF Starting, StarterAt
    <3>4. \A a \in Admins : ~AdminAt(a, "delete")'
      BY <3>1, <3>3 DEF Busy, AdminAt
    <3>5. Stored(starter[s].fw)
      BY <1>0, <1>3, <3>2 DEF StarterAt
    <3>6. \A j \in FlashJobs \ revived' : Active(j)' => Stored(flash[j].fw)'
      BY <1>0, <1>3, <3>1, <3>2, <3>5 DEF Active, Stored
    <3>7. \A t \in Starters :
            starter'[t].pc \in {"manifest", "create"} => Stored(starter[t].fw)'
      BY <1>0, <1>3, <3>1, <3>2 DEF Stored
    <3> QED BY <1>2, <3>4, <3>6, <3>7 DEF KeptInv
  <2>3. CASE JobStep(s)
    <3>1. UNCHANGED <<firmware, admin>>
      BY <1>7, StarterFrame
    <3>2. /\ starter'[s].pc \notin {"jobs", "select", "manifest", "create"}
          /\ \A t \in Starters : t # s => starter'[t] = starter[t]
          /\ \A i \in FlashJobs :
               /\ flash'[i].fw = flash[i].fw
               /\ i \notin revived' => i \notin revived /\ (Active(i)' => Active(i))
      BY <1>0, <2>3, JobsGoOn
    <3>3. \A j \in FlashJobs \ revived' : Active(j)' => Stored(flash[j].fw)'
      BY <1>0, <1>3, <3>1, <3>2 DEF Stored
    <3>4. \A t \in Starters :
            starter'[t].pc \in {"manifest", "create"} => Stored(starter[t].fw)'
      BY <1>0, <1>3, <3>1, <3>2 DEF Stored
    <3>5. \A a \in Admins : AdminAt(a, "delete")'
            => \A j \in FlashJobs \ revived' : ~(Active(j) /\ flash[j].fw = admin[a].fw)'
      BY <1>0, <1>3, <3>1, <3>2 DEF AdminAt
    <3> QED BY <1>2, <3>3, <3>4, <3>5 DEF KeptInv
  <2> QED BY <1>7, <2>1, <2>2, <2>3 DEF StarterStep, JobStep
<1>8. CASE UNCHANGED <<firmware, admin, starter, flash>>
  BY <1>0, <1>3, <1>8 DEF KeptInv, Busy, AdminAt, Starting, Active, Stored
<1>9. ~CatalogCrash
  BY <1>1 DEF CatalogCrash, Breaks
<1> QED BY <1>6, <1>7, <1>8, <1>9 DEF CatalogNext, ReportVersion, DesireVersion, records

LEMMA KeptInit == CatalogInit => KeptInv
<1> SUFFICES ASSUME CatalogInit PROVE KeptInv
  OBVIOUS
<1>1. /\ \A a \in Admins : admin[a].pc = "idle"
      /\ \A s \in Starters : starter[s].pc = "idle"
      /\ \A j \in FlashJobs : flash[j].status = "none"
  BY DEF CatalogInit, NoRequest, Resting, NoFlash
<1> QED BY <1>1 DEF KeptInv, Busy, AdminAt, Starting, Active

\* All that is known of the catalog and the flashes of its firmwares.
LEMMA FlashesStep ==
  CatalogInv /\ MatchInv /\ FlashesOK /\ [CatalogNext]_catalogVars
    => CatalogInv' /\ MatchInv' /\ FlashesOK'
<1> SUFFICES ASSUME CatalogInv, MatchInv, FlashesOK, [CatalogNext]_catalogVars
             PROVE  MatchInv' /\ FlashesOK'
  BY CatalogInvStep
<1>1. CASE UNCHANGED catalogVars
  BY <1>1, MatchKept, FlashesKept DEF catalogVars, MatchInv, Calm
<1> QED BY <1>1, MatchNext, FlashesNext

\* A device gets chunks of one image, whatever happens to its binary meanwhile
\* (readChunkData); and no firmware is deleted under a flash (hasActiveFlashJobForFirmware)
\* unless the flash was started while the request checked for it, a step has failed, or an
\* abort had failed the job and the save of an earlier copy brought it back (revived).
THEOREM FlashesKeepImages == CatalogSpec => []FlashKeepsImage
<1> DEFINE Inv == CatalogInv /\ MatchInv /\ FlashesOK /\ KeptInv
<1>1. CatalogInit => Inv
  BY CatalogInvInit, MatchInit, FlashesInit, KeptInit
<1>2. Inv /\ [CatalogNext]_catalogVars => Inv'
  <2> SUFFICES ASSUME Inv, [CatalogNext]_catalogVars PROVE KeptInv'
    BY FlashesStep
  <2>1. CASE UNCHANGED catalogVars
    BY <2>1 DEF catalogVars, KeptInv, Apart, Busy, AdminAt, Starting, Active, Stored
  <2> QED BY <2>1, KeptNext
<1>3. Inv => FlashKeepsImage
  BY DEF FlashesOK, KeptInv, Apart, FlashKeepsImage
<1> QED BY <1>1, <1>2, <1>3, PTL DEF CatalogSpec

-----------------------------------------------------------------------------
(* No update is repeated *)

LEMMA FreshNext ==
  ASSUME CatalogInv, MatchInv, FlashesOK, FreshInv, CatalogNext
  PROVE  FreshInv'
<1> SUFFICES ASSUME InTurn' PROVE FreshInv'
  BY DEF FreshInv
<1>1. broken' = broken /\ broken = 0 /\ InTurn
  BY FaultsCounted DEF InTurn, MatchInv
<1>0. revived' = revived \union Reviving /\ revived \subseteq revived'
  BY DEF CatalogNext
<1>2. \A s, t \in Starters : Starting(s)' /\ Starting(t)' => s = t
  BY MeetingsRecorded DEF InTurn
<1>3. /\ \A s, t \in Starters : Starting(s) /\ Starting(t) => s = t
      /\ \A i, j \in FlashJobs \ revived :
           /\ flash[i].auto /\ flash[j].auto /\ flash[i].fw = flash[j].fw
           /\ "failed" \notin {flash[i].status, flash[j].status}
           => i = j
      /\ \A s \in Starters :
           starter[s].pc \in {"select", "manifest", "create"} /\ starter[s].op = "auto" =>
             \A j \in FlashJobs \ revived :
               flash[j].auto /\ flash[j].fw = starter[s].fw => flash[j].status = "failed"
  BY <1>1 DEF FreshInv
<1>4. CASE UNCHANGED <<starter, flash>>
  BY <1>0, <1>2, <1>3, <1>4 DEF FreshInv
<1>5. ASSUME NEW a \in Admins, AdminStep(a)
      PROVE  FreshInv'
  BY <1>4, <1>5, RequestStep
<1>6. ASSUME NEW s \in Starters, StarterStep(s)
      PROVE  FreshInv'
  <2>1. CASE \/ CheckForUpdate(s) \/ HasFlashJob(s) \/ SelectFirmware(s) \/ BuildManifest(s)
             \/ \E f \in Firmwares \union {"none"} : RequestFlash(s, f)
    <3>1. /\ UNCHANGED flash
          /\ \A t \in Starters : t # s => starter'[t] = starter[t]
          /\ starter'[s].pc = "select" /\ starter'[s].op = "auto" =>
               HasFlashJob(s) /\ starter[s].fw \in Firmwares /\ starter'[s].fw = starter[s].fw
          /\ starter'[s].pc = "manifest" =>
               /\ StarterAt(s, "select")
               /\ starter'[s].op = "auto" => starter[s].op = "auto" /\ starter'[s].fw = starter[s].fw
          /\ starter'[s].pc = "create" =>
               /\ StarterAt(s, "manifest") /\ starter'[s].fw = starter[s].fw
               /\ starter'[s].op = starter[s].op
      BY <2>1, StarterLoads
    <3>2. ASSUME starter'[s].pc = "select", starter'[s].op = "auto", NEW j \in FlashJobs,
                 flash[j].fw = starter[s].fw
          PROVE  flash[j].status = "failed"
      <4>1. HasFlashJob(s) /\ starter[s].fw \in Firmwares
        BY <3>1, <3>2
      <4>2. flash[j].status \in {"queued", "running", "completed", "failed"}
        BY <3>2, <4>1, PresentJobs DEF JobRecords, Statuses
      <4>3. StarterGoto(s, IF \E i \in FlashJobs :
                                /\ flash[i].fw = starter[s].fw
                                /\ flash[i].status \in {"queued", "running", "completed"}
                           THEN "idle" ELSE "select")
        BY <1>1, <4>1 DEF HasFlashJob, Breaks
      <4>4. flash[j].status \in {"queued", "running", "completed"} => StarterGoto(s, "idle")
        BY <3>2, <4>3
      <4>5. ~StarterGoto(s, "idle")
        <5>1. starter \in [Starters -> StarterRecords]
          BY DEF FlashesOK
        <5>2. StarterGoto(s, "idle") => starter'[s].pc = "idle"
          BY <5>1, StarterMoved
        <5> QED BY <3>2, <5>2
      <4> QED BY <4>2, <4>4, <4>5
    <3>3. ASSUME NEW t \in Starters, starter'[t].pc \in {"select", "manifest", "create"},
                 starter'[t].op = "auto", NEW j \in FlashJobs \ revived',
                 flash[j].auto, flash[j].fw = starter'[t].fw
          PROVE  flash[j].status = "failed"
      <4>1. CASE t # s
        BY <1>0, <1>3, <3>1, <3>3, <4>1
      <4>2. CASE t = s /\ starter'[s].pc = "select"
        BY <3>1, <3>2, <3>3, <4>2
      <4>3. CASE t = s /\ starter'[s].pc \in {"manifest", "create"}
        <5>1. /\ starter[s].pc \in {"select", "manifest"} /\ starter[s].op = "auto"
              /\ starter'[s].fw = starter[s].fw
          BY <3>1, <3>3, <4>3 DEF StarterAt
        <5>2. flash[j].auto /\ flash[j].fw = starter[s].fw /\ j \in FlashJobs \ revived
          BY <1>0, <3>3, <4>3, <5>1
        <5> QED BY <1>3, <5>1, <5>2
      <4> QED BY <3>3, <4>1, <4>2, <4>3
    <3>4. \A i, j \in FlashJobs \ revived' :
            /\ flash'[i].auto /\ flash'[j].auto /\ flash'[i].fw = flash'[j].fw
            /\ "failed" \notin {flash'[i].status, flash'[j].status}
            => i = j
      BY <1>0, <1>3, <3>1
    <3>5. \A t \in Starters :
            starter'[t].pc \in {"select", "manifest", "create"} /\ starter'[t].op = "auto" =>
              \A j \in FlashJobs \ revived' :
                flash'[j].auto /\ flash'[j].fw = starter'[t].fw => flash'[j].status = "failed"
      <4>1. flash' = flash
        BY <3>1
      <4> QED BY <3>3, <4>1
    <3> QED BY <1>2, <3>4, <3>5 DEF FreshInv
  <2>2. CASE CreateFlashJob(s)
    <3>1. /\ StarterAt(s, "create")
          /\ \A t \in Starters : t # s => starter'[t] = starter[t]
          /\ starter'[s].pc \in {"idle", "begin"}
          /\ \/ UNCHANGED flash
             \/ \E j \in FlashJobs :
                  /\ \A i \in FlashJobs : i # j => flash'[i] = flash[i]
                  /\ flash'[j].fw = starter[s].fw /\ (flash'[j].auto <=> starter[s].op = "auto")
      BY <1>0, <2>2, JobAdded
    <3>2. ASSUME NEW t \in Starters, starter'[t].pc \in {"select", "manifest", "create"}
          PROVE  FALSE
      <4>1. t # s
        BY <3>1, <3>2
      <4>2. Starting(t) /\ Starting(s)
        BY <3>1, <3>2, <4>1 DEF Starting, StarterAt
      <4> QED BY <1>0, <1>3, <4>1, <4>2
    <3>3. ASSUME NEW i \in FlashJobs \ revived', NEW k \in FlashJobs \ revived',
                 flash'[i].auto, flash'[k].auto, flash'[i].fw = flash'[k].fw,
                 "failed" \notin {flash'[i].status, flash'[k].status}
          PROVE  i = k
      <4>1. CASE UNCHANGED flash
        BY <1>0, <1>3, <3>3, <4>1
      <4>2. ASSUME NEW j \in FlashJobs,
                   \A l \in FlashJobs : l # j => flash'[l] = flash[l],
                   flash'[j].fw = starter[s].fw, (flash'[j].auto <=> starter[s].op = "auto")
            PROVE  i = k
        <5>1. starter[s].op = "auto" => \A l \in FlashJobs \ revived :
                flash[l].auto /\ flash[l].fw = starter[s].fw => flash[l].status = "failed"
          BY <1>0, <1>3, <3>1 DEF StarterAt
        <5>2. CASE i # j /\ k # j
          BY <1>0, <1>3, <3>3, <4>2, <5>2
        <5>3. CASE i = j /\ k # j
          BY <1>0, <3>3, <4>2, <5>1, <5>3
        <5>4. CASE i # j /\ k = j
          BY <1>0, <3>3, <4>2, <5>1, <5>4
        <5> QED BY <5>2, <5>3, <5>4
      <4> QED BY <3>1, <4>1, <4>2
    <3> QED BY <1>2, <3>2, <3>3 DEF FreshInv
  <2>3. CASE JobStep(s)
    <3>1. /\ starter'[s].pc \notin {"jobs", "select", "manifest", "create"}
          /\ \A t \in Starters : t # s => starter'[t] = starter[t]
          /\ \A i \in FlashJobs :
               /\ flash'[i].fw = flash[i].fw /\ flash'[i].auto = flash[i].auto
               /\ i \notin revived' =>
                    /\ i \notin revived
                    /\ flash[i].status = "failed" => flash'[i].status = "failed"
      BY <1>0, <2>3, JobsGoOn
    <3>2. \A i, j \in FlashJobs \ revived' :
            /\ flash'[i].auto /\ flash'[j].auto /\ flash'[i].fw = flash'[j].fw
            /\ "failed" \notin {flash'[i].status, flash'[j].status}
            => i = j
      BY <1>0, <1>3, <3>1
    <3>3. \A t \in Starters :
            starter'[t].pc \in {"select", "manifest", "create"} /\ starter'[t].op = "auto" =>
              \A j \in FlashJobs \ revived' :
                flash'[j].auto /\ flash'[j].fw = starter'[t].fw => flash'[j].status = "failed"
      BY <1>0, <1>3, <3>1
    <3> QED BY <1>2, <3>2, <3>3 DEF FreshInv
  <2> QED BY <1>6, <2>1, <2>2, <2>3 DEF StarterStep, JobStep
<1>7. ~CatalogCrash
  BY <1>1 DEF CatalogCrash, Breaks
<1> QED BY <1>4, <1>5, <1>6, <1>7 DEF CatalogNext, ReportVersion, DesireVersion

LEMMA FreshInit == CatalogInit => FreshInv
<1> SUFFICES ASSUME CatalogInit PROVE FreshInv
  OBVIOUS
<1>1. /\ \A s \in Starters : starter[s].pc = "idle"
      /\ \A j \in FlashJobs : flash[j].auto = FALSE
  BY DEF CatalogInit, Resting, NoFlash
<1> QED BY <1>1 DEF FreshInv, Starting

\* A device is not flashed twice with the same firmware without being asked for
\* (hasFlashJobForDevice), however often its description comes, unless the first flash has
\* failed (also when the save of an earlier copy brings it back: revived), two starts have
\* overlapped or the jobs could not be listed.
THEOREM UpdatesOnce == CatalogSpec => []NoRepeatedUpdate
<1> DEFINE Inv == CatalogInv /\ MatchInv /\ FlashesOK /\ FreshInv
<1>1. CatalogInit => Inv
  BY CatalogInvInit, MatchInit, FlashesInit, FreshInit
<1>2. Inv /\ [CatalogNext]_catalogVars => Inv'
  <2> SUFFICES ASSUME Inv, [CatalogNext]_catalogVars PROVE FreshInv'
    BY FlashesStep
  <2>1. CASE UNCHANGED catalogVars
    BY <2>1 DEF catalogVars, FreshInv, InTurn, Starting
  <2> QED BY <2>1, FreshNext
<1>3. Inv => NoRepeatedUpdate
  BY DEF FreshInv, InTurn, NoRepeatedUpdate
<1> QED BY <1>1, <1>2, <1>3, PTL DEF CatalogSpec
=============================================================================
