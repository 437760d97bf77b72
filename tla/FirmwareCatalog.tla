-------------------------- MODULE FirmwareCatalog --------------------------
(***************************************************************************)
(* The firmware of one product (internal/firmware/metadata.go), the choice *)
(* of what a device gets (selection.go) and the flashes of one device      *)
(* (ota.go), whose goroutines save stale copies of a job: only its status  *)
(* changes, so a stale copy is the status it was loaded with.  Which       *)
(* chunks are left is FlashJob's, and any may be the last one here.        *)
(*                                                                         *)
(* An image stands for the bytes of a binary and, since SHA-256 tells them *)
(* apart, for its checksum.  Every save and every file operation is a step,*)
(* may fail, and may be the last one before a crash.                       *)
(***************************************************************************)
EXTENDS Naturals, FiniteSets

CONSTANTS
  Firmwares,       \* firmware ids; an upload takes a new one
  Images,          \* contents of binaries
  Extensions,      \* of the files binaries are uploaded as
  MaxVersion,
  ProductNames,    \* what requests call the product: "id", "slug"
  Uploads,         \* the UploadProductFirmware requests
  Updates,         \* the UpdateProductFirmware requests
  Admins,          \* goroutines of HTTP requests that change the catalog
  Starters,        \* goroutines that start flashes of the one device
  FlashJobs,       \* flash job ids
  CatalogFaults    \* bound of failing steps and crashes

ASSUME CatalogAssumption ==
  /\ MaxVersion \in Nat
  /\ "none" \notin Images \union Firmwares \union Extensions
  /\ Uploads \subseteq [version : 0 .. MaxVersion, released : BOOLEAN, promote : BOOLEAN,
                        image : Images, ext : Extensions]
  /\ Updates \subseteq
       [version : 0 .. MaxVersion, released : {"keep", "yes", "no"},
        default : {"keep", "yes", "no"}, current : {"keep", "yes", "no"},
        image : Images \union {"none"}, ext : Extensions]

VARIABLES
  firmware,   \* the firmware metadata
  binary,     \* the files <firmware id><extension>
  admin,      \* the requests: label, operation, copy of the record
  starter,    \* the flashes' goroutines: label, firmware, copy, image, job, operation
  flash,      \* the flash jobs, and the images the device was sent chunks of
  device,     \* the version the device reports, and its desired version
  broken,     \* how many steps have failed
  overlap,    \* history: which goroutines have been at work together
  revived     \* history: the jobs that a save has brought back after their end

records == <<firmware, binary>>
flashing == <<starter, flash, device>>
catalogVars == <<firmware, binary, admin, starter, flash, device, broken, overlap, revived>>

NoFirmware == [product |-> "none", version |-> 0, released |-> FALSE,
               default |-> FALSE, current |-> FALSE, ext |-> "none", sum |-> "none"]

Stored(f) == firmware[f] # NoFirmware

\* GetByProductID compares the name as the request gives it.
OfProduct(name) == {f \in Firmwares : Stored(f) /\ firmware[f].product = name}

Promoted(r) == [r EXCEPT !.released = TRUE, !.default = TRUE, !.current = TRUE]

Cleared(r) == [r EXCEPT !.default = FALSE, !.current = FALSE]

AdminAt(a, label) == admin[a].pc = label

NoRequest ==
  [pc |-> "idle", op |-> "none", fw |-> "none", copy |-> NoFirmware, promote |-> FALSE,
   image |-> "none", clear |-> {}, list |-> [f \in Firmwares |-> NoFirmware]]

EndRequest(a) == admin' = [admin EXCEPT ![a] = NoRequest]

AdminGoto(a, label) ==
  /\ IF label = "idle" THEN EndRequest(a) ELSE admin' = [admin EXCEPT ![a].pc = label]
  /\ UNCHANGED broken

Breaks == broken < CatalogFaults /\ broken' = broken + 1

\* A step fails and the request ends with an error.
Refuse(a) == Breaks /\ EndRequest(a)

\* A request has loaded the record it is about.
BeginRequest(a, f, op, label, r, promote, image) ==
  /\ AdminAt(a, "idle")
  /\ admin' = [admin EXCEPT ![a] =
       [pc |-> label, op |-> op, fw |-> f, copy |-> r, promote |-> promote,
        image |-> image, clear |-> {}, list |-> firmware]]
  /\ UNCHANGED <<records, flashing, broken>>

-----------------------------------------------------------------------------
(***************************************************************************)
(* Requests on the catalog                                                 *)
(***************************************************************************)
AfterBinary(promote) == IF promote THEN "list" ELSE "save"

\* Mutant: the highest version instead of the next.
HighestVersion(name) ==
  {v \in 0 .. MaxVersion :
     /\ \A f \in OfProduct(name) : firmware[f].version <= v
     /\ v = 0 \/ \E f \in OfProduct(name) : firmware[f].version = v}

\* nextVersion, as a set: empty beyond the bound.
NextVersion(name) ==
  {v \in 1 .. MaxVersion :
     /\ \A f \in OfProduct(name) : firmware[f].version < v
     /\ v = 1 \/ \E f \in OfProduct(name) : firmware[f].version = v - 1}

\* UploadProductFirmware: version 0 asks for the next one.
UploadFirmware(a, f, name, u) ==
  /\ ~Stored(f) /\ \A e \in Extensions : binary[f][e] = "none"
  /\ \A b \in Admins : AdminAt(b, "idle") \/ admin[b].fw # f
  /\ \E version \in IF u.version = 0 THEN NextVersion(name) ELSE {u.version} :
       BeginRequest(a, f, "upload", "write",
                    [product |-> name, version |-> version, released |-> u.released,
                     default |-> FALSE, current |-> FALSE, ext |-> u.ext, sum |-> u.image],
                    u.promote, u.image)

SetDefaultFirmware(a, f, name) ==
  /\ f \in OfProduct(name)
  /\ BeginRequest(a, f, "default", "list", firmware[f], TRUE, "none")

ReleaseFirmware(a, f, name) ==
  /\ f \in OfProduct(name)
  /\ BeginRequest(a, f, "release", "save", [firmware[f] EXCEPT !.released = TRUE],
                  FALSE, "none")

Given(field, old) == IF field = "keep" THEN old ELSE field = "yes"

Updated(r, u) ==
  [r EXCEPT !.version = IF u.version = 0 THEN @ ELSE u.version,
            !.released = Given(u.released, @),
            !.default = Given(u.default, @),
            !.current = Given(u.current, @),
            !.ext = IF u.image = "none" THEN @ ELSE u.ext,
            !.sum = IF u.image = "none" THEN @ ELSE u.image]

UpdateFirmware(a, f, name, u) ==
  LET promote == "yes" \in {u.default, u.current} IN
  /\ f \in OfProduct(name)
  /\ BeginRequest(a, f, "update", IF u.image = "none" THEN AfterBinary(promote) ELSE "write",
                  Updated(firmware[f], u), promote, u.image)

DeleteFirmware(a, f, name) ==
  /\ f \in OfProduct(name)
  /\ BeginRequest(a, f, "delete", "check", firmware[f], FALSE, "none")

-----------------------------------------------------------------------------
(***************************************************************************)
(* Their steps                                                             *)
(***************************************************************************)
\* The extension of the file the request's record had before.
OldExt(a) == admin[a].list[admin[a].fw].ext

\* writeBinary: a temporary file renamed over the binary, or an error and nothing
\* written.
WriteBinary(a) ==
  LET r == admin[a] IN
  /\ AdminAt(a, "write")
  /\ \/ /\ binary' = [binary EXCEPT ![r.fw][r.copy.ext] = r.image]
        /\ AdminGoto(a, IF OldExt(a) \notin {"none", r.copy.ext} THEN "removeOld"
                        ELSE AfterBinary(r.promote))
     \/ Refuse(a) /\ UNCHANGED binary
  /\ UNCHANGED <<firmware, flashing>>

\* Mutant: the old file stays.
KeepOldBinary(a) ==
  /\ AdminAt(a, "removeOld")
  /\ AdminGoto(a, AfterBinary(admin[a].promote))
  /\ UNCHANGED <<records, flashing>>

\* A binary with another extension leaves the old file, which is removed before
\* the record is saved; an error is ignored.
RemoveOldBinary(a) ==
  /\ AdminAt(a, "removeOld")
  /\ \/ binary' = [binary EXCEPT ![admin[a].fw][OldExt(a)] = "none"] /\ UNCHANGED broken
     \/ Breaks /\ UNCHANGED binary
  /\ admin' = [admin EXCEPT ![a].pc = AfterBinary(admin[a].promote)]
  /\ UNCHANGED <<firmware, flashing>>

\* Mutant: clearCurrent looks for the default firmware.
ListDefault(a) ==
  LET found == {f \in OfProduct(admin[a].copy.product) : firmware[f].default} IN
  /\ AdminAt(a, "list")
  /\ admin' = [admin EXCEPT ![a].clear = found, ![a].list = firmware,
                            ![a].pc = IF found = {} THEN "save" ELSE "clear"]
  /\ UNCHANGED <<records, flashing, broken>>

\* clearCurrent lists the product's firmware ...
ListCurrent(a) ==
  LET found == {f \in OfProduct(admin[a].copy.product) : firmware[f].current} IN
  /\ AdminAt(a, "list")
  /\ \/ /\ admin' = [admin EXCEPT ![a].clear = found, ![a].list = firmware,
                                  ![a].pc = IF found = {} THEN "save" ELSE "clear"]
        /\ UNCHANGED broken
     \/ Refuse(a)
  /\ UNCHANGED <<records, flashing>>

\* ... and saves what it listed, flags cleared, one record after the other.
ClearCurrent(a) ==
  /\ AdminAt(a, "clear")
  /\ \/ \E f \in admin[a].clear :
          /\ firmware' = [firmware EXCEPT ![f] = Cleared(admin[a].list[f])]
          /\ admin' = [admin EXCEPT ![a].clear = @ \ {f},
                                    ![a].pc = IF admin[a].clear = {f} THEN "save" ELSE @]
          /\ UNCHANGED broken
     \/ Refuse(a) /\ UNCHANGED firmware
  /\ UNCHANGED <<binary, flashing>>

\* The whole record is saved, or created by an upload.
SaveFirmware(a) ==
  LET r == admin[a] IN
  /\ AdminAt(a, "save")
  /\ \/ /\ firmware' = [firmware EXCEPT ![r.fw] = IF r.promote THEN Promoted(r.copy)
                                                  ELSE r.copy]
        /\ AdminGoto(a, "idle")
     \/ Refuse(a) /\ UNCHANGED firmware
  /\ UNCHANGED <<binary, flashing>>

Active(j) == flash[j].status \in {"queued", "running"}

\* Mutant: a job that has begun is not looked for.
CheckQueuedJobs(a) ==
  /\ AdminAt(a, "check")
  /\ AdminGoto(a, IF \E j \in FlashJobs : flash[j].status = "queued"
                                          /\ flash[j].fw = admin[a].fw
                  THEN "idle" ELSE "delete")
  /\ UNCHANGED <<records, flashing>>

\* hasActiveFlashJobForFirmware: no when the jobs cannot be listed.
CheckFlashJobs(a) ==
  /\ AdminAt(a, "check")
  /\ \/ AdminGoto(a, IF \E j \in FlashJobs : Active(j) /\ flash[j].fw = admin[a].fw
                     THEN "idle" ELSE "delete")
     \/ Breaks /\ admin' = [admin EXCEPT ![a].pc = "delete"]
  /\ UNCHANGED <<records, flashing>>

DeleteRecord(a) ==
  /\ AdminAt(a, "delete")
  /\ \/ /\ firmware' = [firmware EXCEPT ![admin[a].fw] = NoFirmware]
        /\ AdminGoto(a, IF Stored(admin[a].fw) THEN "remove" ELSE "idle")
     \/ Refuse(a) /\ UNCHANGED firmware
  /\ UNCHANGED <<binary, flashing>>

RemoveBinary(a) ==
  /\ AdminAt(a, "remove")
  /\ \/ /\ binary' = [binary EXCEPT ![admin[a].fw][admin[a].copy.ext] = "none"]
        /\ AdminGoto(a, "idle")
     \/ Refuse(a) /\ UNCHANGED binary
  /\ UNCHANGED <<firmware, flashing>>

-----------------------------------------------------------------------------
(***************************************************************************)
(* What a device gets                                                      *)
(***************************************************************************)
Lowest(fs) == {f \in fs : \A g \in fs : firmware[f].version <= firmware[g].version}

Highest(fs) == {f \in fs : \A g \in fs : firmware[f].version >= firmware[g].version}

\* CurrentProductFirmware: the first in order of versions that is current or
\* default, or else the last.  Equal versions are in order of their uploads, which
\* is left open.
CurrentFirmware(name) ==
  LET marked == {f \in OfProduct(name) : firmware[f].current \/ firmware[f].default}
  IN IF marked # {} THEN Lowest(marked) ELSE Highest(OfProduct(name))

\* targetProductFirmware: the desired version (0 when there is none), or the current
\* firmware.
TargetFirmware(name) ==
  IF device.desired = 0 THEN CurrentFirmware(name)
  ELSE {f \in OfProduct(name) : firmware[f].version = device.desired}

\* CheckProductFirmwareUpdate, for a device that reports only its version (0 when it
\* reports none).
UpdateAvailable(f) ==
  LET r == firmware[f] IN
  /\ device.desired # 0 \/ r.released \/ r.current \/ r.default
  /\ device.version = 0 \/ device.version < r.version

NoFlash == [status |-> "none", fw |-> "none", version |-> 0, ext |-> "none",
            manifest |-> "none", got |-> {}, auto |-> FALSE]

Resting == [pc |-> "idle", op |-> "none", fw |-> "none", copy |-> NoFirmware,
            image |-> "none", job |-> "none", held |-> "none"]

StarterAt(s, label) == starter[s].pc = label

StarterGoto(s, label) ==
  starter' = [starter EXCEPT ![s] = IF label = "idle" THEN Resting ELSE [@ EXCEPT !.pc = label]]

\* CheckAndStartProductFirmwareUpdate for a device of the product, whose id is "id".
CheckForUpdate(s) ==
  /\ StarterAt(s, "idle")
  /\ \E f \in TargetFirmware("id") :
       /\ UpdateAvailable(f)
       /\ starter' = [starter EXCEPT ![s] = [Resting EXCEPT !.pc = "jobs", !.op = "auto",
                                                            !.fw = f]]
  /\ UNCHANGED <<records, admin, flash, device, broken>>

\* Mutant: only unfinished jobs count.
HasUnfinishedJob(s) ==
  /\ StarterAt(s, "jobs")
  /\ StarterGoto(s, IF \E j \in FlashJobs : Active(j) /\ flash[j].fw = starter[s].fw
                    THEN "idle" ELSE "select")
  /\ UNCHANGED <<records, admin, flash, device, broken>>

\* hasFlashJobForDevice: a failed job is tried again; no when the jobs cannot be
\* listed.
HasFlashJob(s) ==
  /\ StarterAt(s, "jobs")
  /\ \/ /\ StarterGoto(s, IF \E j \in FlashJobs :
                               /\ flash[j].fw = starter[s].fw
                               /\ flash[j].status \in {"queued", "running", "completed"}
                          THEN "idle" ELSE "select")
        /\ UNCHANGED broken
     \/ Breaks /\ StarterGoto(s, "select")
  /\ UNCHANGED <<records, admin, flash, device>>

\* An HTTP request for a flash of f or, if f is "none", of the current firmware.
RequestFlash(s, f) ==
  /\ StarterAt(s, "idle")
  /\ starter' = [starter EXCEPT ![s] = [Resting EXCEPT !.pc = "select", !.op = "request",
                                                      !.fw = f]]
  /\ UNCHANGED <<records, admin, flash, device, broken>>

\* StartDeviceFlash: selectFirmware loads the record, again for an update, ...
SelectFirmware(s) ==
  LET asked == starter[s].fw
      found == IF asked = "none" THEN CurrentFirmware("id") ELSE {asked} \cap OfProduct("id")
  IN
  /\ StarterAt(s, "select")
  /\ \/ found = {} /\ StarterGoto(s, "idle")
     \/ \E f \in found :
          starter' = [starter EXCEPT ![s].pc = "manifest", ![s].fw = f,
                                     ![s].copy = firmware[f]]
  /\ UNCHANGED <<records, admin, flash, device, broken>>

\* ... buildChunkManifest reads the binary, whatever it holds by now, ...
BuildManifest(s) ==
  LET image == binary[starter[s].fw][starter[s].copy.ext] IN
  /\ StarterAt(s, "manifest")
  /\ \/ image = "none" /\ StarterGoto(s, "idle")
     \/ /\ image # "none"
        /\ starter' = [starter EXCEPT ![s].pc = "create", ![s].image = image]
  /\ UNCHANGED <<records, admin, flash, device, broken>>

\* ... and the job is created.
CreateFlashJob(s) ==
  LET r == starter[s] IN
  /\ StarterAt(s, "create")
  /\ \/ \E j \in FlashJobs :
          /\ flash[j].status = "none"
          /\ \A i \in FlashJobs : flash[i].fw = "none" => flash[i] = NoFlash
          /\ flash' = [flash EXCEPT ![j] =
               [status |-> "queued", fw |-> r.fw, version |-> r.copy.version,
                ext |-> r.copy.ext, manifest |-> r.image, got |-> {},
                auto |-> r.op = "auto"]]
          /\ starter' = [starter EXCEPT ![s].pc = "begin", ![s].job = j]
          /\ UNCHANGED broken
     \/ Breaks /\ StarterGoto(s, "idle") /\ UNCHANGED flash
  /\ UNCHANGED <<records, admin, device>>

-----------------------------------------------------------------------------
(***************************************************************************)
(* The job's goroutines                                                    *)
(***************************************************************************)
\* The job is saved with a status, whatever has been saved meanwhile, and the goroutine
\* goes on; or the save fails and ends it.
SaveJob(s, label, status, next) ==
  /\ StarterAt(s, label)
  /\ \/ /\ flash' = [flash EXCEPT ![starter[s].job].status = status]
        /\ StarterGoto(s, next)
        /\ UNCHANGED broken
     \/ Breaks /\ StarterGoto(s, "idle") /\ UNCHANGED flash
  /\ UNCHANGED <<records, admin, device>>

\* beginAndPumpFlashJob: the device takes the update, or does not.
BeginFlash(s) ==
  /\ StarterAt(s, "begin")
  /\ \E label \in {"run", "fail"} : StarterGoto(s, label)
  /\ UNCHANGED <<records, admin, flash, device, broken>>

\* markFlashJobRunning, of the job just created or, on a retry, of one loaded as queued.
MarkFlashJobRunning(s) ==
  SaveJob(s, "run", "running", IF starter[s].op = "retry" THEN "send" ELSE "load")

\* Mutant: the chunk is sent whatever it is.
LoadAnyChunk(s) ==
  LET job == flash[starter[s].job]
      image == binary[job.fw][job.ext]
  IN
  /\ StarterAt(s, "load")
  /\ \/ /\ starter' = [starter EXCEPT ![s].image = image,
                                      ![s].pc = IF job.status = "queued" THEN "run" ELSE "send"]
        /\ UNCHANGED broken
     \/ starter[s].op # "retry" /\ StarterGoto(s, "finish") /\ UNCHANGED broken
     \/ Breaks /\ StarterGoto(s, "idle")
  /\ UNCHANGED <<records, admin, flash, device>>

\* SendNextFlashChunk finds a chunk left, or none; SendFlashChunk loads the job, and
\* readChunkData compares what the binary holds now with the manifest: a mismatch ends
\* the goroutine and leaves the job running.
LoadChunk(s) ==
  LET job == flash[starter[s].job]
      image == binary[job.fw][job.ext]
  IN
  /\ StarterAt(s, "load")
  /\ \/ /\ image = job.manifest
        /\ starter' = [starter EXCEPT ![s].image = image,
                                      ![s].pc = IF job.status = "queued" THEN "run" ELSE "send"]
        /\ UNCHANGED broken
     \/ image # job.manifest /\ StarterGoto(s, "idle") /\ UNCHANGED broken
     \/ starter[s].op # "retry" /\ StarterGoto(s, "finish") /\ UNCHANGED broken
     \/ Breaks /\ StarterGoto(s, "idle")
  /\ UNCHANGED <<records, admin, flash, device>>

FinishFlashJob(s) == SaveJob(s, "finish", "completed", "idle")

\* The chunk is on its way; the device acknowledges it, or not.
SendChunk(s) ==
  /\ StarterAt(s, "send")
  /\ flash' = [flash EXCEPT ![starter[s].job].got = @ \union {starter[s].image}]
  /\ \E label \in {"mark", "fail"} : StarterGoto(s, label)
  /\ UNCHANGED <<records, admin, device, broken>>

\* MarkFlashChunkTransferred loads the job again ...
MarkChunk(s) ==
  LET status == flash[starter[s].job].status IN
  /\ StarterAt(s, "mark")
  /\ \/ /\ starter' = [starter EXCEPT ![s].pc = "save",
                            ![s].held = IF status = "queued" THEN "running" ELSE status]
        /\ UNCHANGED broken
     \/ Breaks /\ StarterGoto(s, "idle")
  /\ UNCHANGED <<records, admin, flash, device>>

\* Where a goroutine goes once a chunk is marked: the pump ends with the job, a retry
\* with its last chunk.
AfterChunk(s, status) ==
  IF starter[s].op = "retry" THEN {"load", "idle"}
  ELSE IF status \in {"completed", "failed"} THEN {"idle"} ELSE {"load"}

\* ... and saves it: with its last chunk it is completed, else as it was loaded.
SaveChunk(s) ==
  \/ SaveJob(s, "save", "completed", "done")
  \/ \E label \in AfterChunk(s, starter[s].held) : SaveJob(s, "save", starter[s].held, label)

\* completeDeviceFlash: UpdateDone is written, or not.
CompleteDeviceFlash(s) ==
  /\ StarterAt(s, "done")
  /\ \E label \in AfterChunk(s, "completed") \union {"fail"} : StarterGoto(s, label)
  /\ UNCHANGED <<records, admin, flash, device, broken>>

FailFlashJob(s) == SaveJob(s, "fail", "failed", "idle")

\* activeFlashJobForDevice
ActiveFlashJobs ==
  LET active == {j \in FlashJobs : Active(j)}
  IN IF active # {} THEN active ELSE {j \in FlashJobs : flash[j].status = "completed"}

\* A signal of the device: AbortDeviceFlash, or RetryMissedFlashChunks, which fails the
\* job when too many are missed.
SignalFlash(s, op) ==
  /\ StarterAt(s, "idle")
  /\ \E j \in ActiveFlashJobs, label \in IF op = "abort" THEN {"fail"} ELSE {"load", "fail"} :
       starter' = [starter EXCEPT ![s] = [Resting EXCEPT !.pc = label, !.op = op, !.job = j]]
  /\ UNCHANGED <<records, admin, flash, device, broken>>

-----------------------------------------------------------------------------
\* The device restarts into what it was flashed with and reports its version.
ReportVersion(j) ==
  /\ flash[j].status = "completed"
  /\ device' = [device EXCEPT !.version = flash[j].version]
  /\ UNCHANGED <<records, admin, starter, flash, broken>>

\* products.UpdateDevice: the desired version must exist now; 0 takes it back.
DesireVersion(v) ==
  /\ v = 0 \/ \E f \in OfProduct("id") : firmware[f].version = v
  /\ device' = [device EXCEPT !.desired = v]
  /\ UNCHANGED <<records, admin, starter, flash, broken>>

CatalogCrash ==
  /\ Breaks
  /\ admin' = [a \in Admins |-> NoRequest]
  /\ starter' = [s \in Starters |-> Resting]
  /\ UNCHANGED <<records, flash, device>>

-----------------------------------------------------------------------------
Busy(a) == ~AdminAt(a, "idle")

Starting(s) == starter[s].pc \in {"jobs", "select", "manifest", "create"}

\* Who is at work together now.
Overlaps ==
  {x \in {"admins", "starters", "both"} :
     \/ x = "admins" /\ \E a, b \in Admins : a # b /\ Busy(a) /\ Busy(b)
     \/ x = "starters" /\ \E s, t \in Starters : s # t /\ Starting(s) /\ Starting(t)
     \/ x = "both" /\ \E a \in Admins, s \in Starters : Busy(a) /\ Starting(s)}

\* The jobs that a step brings back: failed ones that do not stay it, completed ones
\* that run again.
Reviving ==
  {j \in FlashJobs : /\ flash[j].status \in {"failed", "completed"}
                     /\ flash'[j].status \notin {flash[j].status, "failed"}}

CatalogInit ==
  /\ firmware = [f \in Firmwares |-> NoFirmware]
  /\ binary = [f \in Firmwares |-> [e \in Extensions |-> "none"]]
  /\ admin = [a \in Admins |-> NoRequest]
  /\ starter = [s \in Starters |-> Resting]
  /\ flash = [j \in FlashJobs |-> NoFlash]
  /\ device = [version |-> 0, desired |-> 0]
  /\ broken = 0
  /\ overlap = {}
  /\ revived = {}

AdminStep(a) ==
  \/ \E f \in Firmwares, name \in ProductNames :
       \/ \E u \in Uploads : UploadFirmware(a, f, name, u)
       \/ SetDefaultFirmware(a, f, name)
       \/ ReleaseFirmware(a, f, name)
       \/ \E u \in Updates : UpdateFirmware(a, f, name, u)
       \/ DeleteFirmware(a, f, name)
  \/ WriteBinary(a)
  \/ RemoveOldBinary(a)
  \/ ListCurrent(a)
  \/ ClearCurrent(a)
  \/ SaveFirmware(a)
  \/ CheckFlashJobs(a)
  \/ DeleteRecord(a)
  \/ RemoveBinary(a)

StarterStep(s) ==
  \/ CheckForUpdate(s)
  \/ HasFlashJob(s)
  \/ \E f \in Firmwares \union {"none"} : RequestFlash(s, f)
  \/ SelectFirmware(s)
  \/ BuildManifest(s)
  \/ CreateFlashJob(s)
  \/ BeginFlash(s)
  \/ MarkFlashJobRunning(s)
  \/ LoadChunk(s)
  \/ FinishFlashJob(s)
  \/ SendChunk(s)
  \/ MarkChunk(s)
  \/ SaveChunk(s)
  \/ CompleteDeviceFlash(s)
  \/ FailFlashJob(s)
  \/ \E op \in {"retry", "abort"} : SignalFlash(s, op)

CatalogNext ==
  /\ \/ \E a \in Admins : AdminStep(a)
     \/ \E s \in Starters : StarterStep(s)
     \/ \E j \in FlashJobs : ReportVersion(j)
     \/ \E v \in 0 .. MaxVersion : DesireVersion(v)
     \/ CatalogCrash
  /\ overlap' = overlap \union Overlaps'
  /\ revived' = revived \union Reviving

CatalogSpec == CatalogInit /\ [][CatalogNext]_catalogVars

-----------------------------------------------------------------------------
FirmwareRecords ==
  [product : ProductNames, version : 1 .. MaxVersion, released : BOOLEAN, default : BOOLEAN,
   current : BOOLEAN, ext : Extensions, sum : Images]

Records == FirmwareRecords \union {NoFirmware}

AdminLabels ==
  {"idle", "write", "removeOld", "list", "clear", "save", "check", "delete", "remove"}

Requests ==
  [pc : AdminLabels, op : {"none", "upload", "default", "release", "update", "delete"},
   fw : Firmwares \union {"none"}, copy : Records, promote : BOOLEAN,
   image : Images \union {"none"}, clear : SUBSET Firmwares, list : [Firmwares -> Records]]

\* Types of the catalog and of the requests on it.  A request at work has the id and
\* the copy of a record to save, and lists only records that exist.
CatalogTypeOK ==
  /\ firmware \in [Firmwares -> Records]
  /\ admin \in [Admins -> Requests]
  /\ \A a \in Admins :
       /\ Busy(a) => admin[a].fw \in Firmwares /\ admin[a].copy # NoFirmware
       /\ \A f \in admin[a].clear : admin[a].list[f] # NoFirmware
  /\ overlap \subseteq {"admins", "starters", "both"}

\* A product has at most one current firmware, through failures and crashes at any
\* step, as long as no two requests have changed the catalog at the same time.
OneCurrent ==
  "admins" \notin overlap =>
    \A f, g \in Firmwares :
      /\ firmware[f].current /\ firmware[g].current
      /\ firmware[f].product = firmware[g].product
      => f = g

CurrentOf(name) == {f \in OfProduct(name) : firmware[f].current}

\* A request that is about to make its firmware current has the flags of all others
\* cleared or on its list, and one that saves a copy with the flag has not got the
\* flag from elsewhere.
ClearsOthers(a) ==
  LET r == admin[a] IN
  /\ AdminAt(a, "clear") => r.promote /\ CurrentOf(r.copy.product) \subseteq r.clear
  /\ AdminAt(a, "list") => r.promote
  /\ AdminAt(a, "save") /\ r.promote => CurrentOf(r.copy.product) = {}
  /\ r.pc \in {"write", "removeOld", "save"} /\ ~r.promote /\ r.copy.current
       => r.fw \in CurrentOf(r.copy.product)

\* The inductive invariant behind OneCurrent: requests that are alone clear the flags
\* of others before they set their own.
CatalogInv ==
  /\ CatalogTypeOK
  /\ OneCurrent
  /\ "admins" \notin overlap =>
       /\ \A a, b \in Admins : Busy(a) /\ Busy(b) => a = b
       /\ \A a \in Admins : ClearsOthers(a)

\* Every stored firmware has its binary, which is what the record's checksum says,
\* and no binary is without a record, whenever no request is at work on it; as long
\* as requests were alone and nothing has failed.
BinariesMatch ==
  "admins" \notin overlap /\ broken = 0 =>
    \A f \in Firmwares : (\A a \in Admins : Busy(a) => admin[a].fw # f) =>
      \A e \in Extensions :
        binary[f][e] = IF e = firmware[f].ext THEN firmware[f].sum ELSE "none"

\* DeleteProductFirmware, readChunkData: a firmware is not deleted under a flash that is
\* queued or running, unless the flash was started while the request checked for it, or
\* had failed (an abort) or completed and was brought back by the save of a goroutine
\* that had loaded it before; and in any case a device is sent chunks of one image only,
\* the one its job was started with, even if the binary is replaced, renamed or deleted
\* meanwhile.
FlashKeepsImage ==
  /\ "both" \notin overlap /\ broken = 0 =>
       \A j \in FlashJobs \ revived : Active(j) => Stored(flash[j].fw)
  /\ \A j \in FlashJobs : flash[j].got \subseteq {flash[j].manifest}

\* A device whose description keeps coming does not get the same firmware twice
\* without being asked to, unless the first flash has failed, be it that its goroutine
\* then brings it back.
NoRepeatedUpdate ==
  "starters" \notin overlap /\ broken = 0 =>
    \A i, j \in FlashJobs \ revived :
      /\ flash[i].auto /\ flash[j].auto /\ flash[i].fw = flash[j].fw
      /\ "failed" \notin {flash[i].status, flash[j].status}
      => i = j \/ flash[i] = NoFlash

\* Firmware that has been made current is what the product's devices are offered.
CurrentIsOffered ==
  (\A a \in Admins : ~Busy(a)) =>
    \A f \in Firmwares : firmware[f].current => f \in CurrentFirmware("id")
=============================================================================
