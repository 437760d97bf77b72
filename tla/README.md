# SparkServer in TLA+

TLA+ models of SparkServer, the local cloud server for Spark/Particle devices:
what its goroutines, devices, files and crashes can do to one another, checked
with TLC on small instances, and proved with TLAPS where a theorem for every
instance is within reach. Paths below are relative to `src/`; `internal/` holds
all the code that is modelled.

## 1. The system

SparkServer is one Go process. Devices connect over TCP, run an RSA/AES
handshake and then speak encrypted CoAP; users and the command line tool speak
HTTP. All durable state is JSON files, one per record, below one data directory,
and binaries and key files beside them. Nothing is transactional: a service loads
a record, changes its copy and saves the whole record, and no lock is held from
the load to the save. That is the source of most of what is hard here.

```
 HTTP request goroutines                        one goroutine per TCP connection
   |  claim, rename, call, flash                   handshake, session loop, cleanup
   v                                                |            |            |
 services: devices, firmware, products, ...         |            |            |
   |    |                                           v            v            v
   |    +--> Transport --> Registry[device] --> Client.pending   device.Handler
   |                        (one Client per device)                |
   v                                                               v
 jsonfile repositories (files, temp files, RWMutex)  <-- devices, firmware, events --> webhooks
```

### Inventory

| Component | Code | State | Operations | What is hard |
|---|---|---|---|---|
| OTA flash jobs | `firmware/ota.go` | the flash-job records; in each goroutine a copy of one | StartDeviceFlash and PumpFlashJob, RetryMissedFlashChunks, AbortDeviceFlash, completion, failure | three kinds of goroutine load and save one record around exchanges with the device; requests are cancelled; saves fail; crashes |
| Device TCP server | `protocol/tcp/server.go`, `handler.go`, `registry.go` | listener, tracked connections, registry, presence in the device record | accept loop, handshake, register, session, cleanup, Shutdown | connections of one device overlap; Shutdown races with accept; cleanup goes by device id |
| Command client | `protocol/tcp/client.go`, `session_loop.go` | message id counter, two pending tables, response channels | SendRequest, HandlePacket, CloseWithError | late, repeated and separate answers; timeouts; a lookup used after its mutex is released; id wrap-around |
| JSON repository | `jsonfile/store.go` | one file per record, temporary files, an RWMutex per repository object | Create, GetByID, Save, Delete, List | several objects on one directory; crash between temporary file and rename; errors half way |
| Device service | `devices/service.go` | device records, claim codes | MarkConnected/Disconnected, UpdateDescription, Claim, Update, Unclaim, Provision, live calls | load-and-save races of whole records; a description names the device's product; claim codes used once |
| Firmware catalog | `firmware/metadata.go`, `build.go` | firmware records with their current and default flags, binaries | upload, make current, release, update, delete | delete against a starting flash; the flag moved in several saves; a binary and its record are two files |
| Automatic selection | `firmware/selection.go` | none of its own; reads the catalog, the links and the flash jobs | check and start an update after a description | looks for a job, then starts one |
| Protocol device handler | `protocol/device/handler.go` | pendingUpdates by message id, shared by all sessions | Handle, AfterResponse in a goroutine per answer | the update is to follow the acknowledgement; entries of two devices with equal ids |
| Event broker | `events/service.go`, `httpapi/event_handlers.go` | subscriptions with bounded channels, an RWMutex, sinks | Subscribe, Publish, the end of a stream | sends on channels that the end of a subscription closes; slow readers; waiting writers of the mutex |
| Webhooks | `webhooks/service.go` | webhook records with delivery status | create, update, delete, deliver with backoff | the outcome of a delivery saved over an update or a deletion |
| Products | `products/service.go` | products, links of devices with desired versions | create, update, delete; add, update and remove devices | the link and the device record are two saves; slugs are checked before they are stored |
| Authentication | `auth/`, `httpapi/server.go` | users, tokens | default administrator, create user, log in, authenticate, log out | two creations of one name; a restart with other settings; expiry and deletion against use |
| Server keys | `protocol/keys/` | two key files | load or generate | crash between the two writes |
| CoAP packets, framing, handshake codec | `protocol/coap/`, `protocol/handshake/`, `protocol/session/`, `protocol/tcp/framing.go` | cipher state per session, the write mutex | Marshal, Parse, pad, seal, frame | deltas and lengths at 12/13, 268/269 and 65535; frames of two goroutines on one stream |
| HTTP API | `httpapi/` | none | routes to services | event streams to slow readers |
| Wiring, configuration, CLI | `app/`, `config/`, `cmd/` | the two listeners | start, wait, shut down | every error path of a start, crashes between its steps, streams that hold its end up |

`PROJECT.json` lists the same components with their status, and every hazard of
the code at its line with the properties that guard it.

### How the components interact

- The *session loop* of a connection hands a packet to the **command client**
  first; a packet that matches no pending request and carries an error code or a
  missed-chunk report goes to the **flash jobs** in a goroutine of its own; the
  rest goes to the **device handler**, which updates the **device record** and
  may start an **automatic flash**.
- **Flash jobs** and **live calls** reach the device through the **registry**,
  which holds one client per device id, whichever connection registered last.
- Every **service** stores its records through a **JSON repository** object. The
  device directory has two of them with a mutex each: `app.go:54` and `:66`.
- `App.Run` ends the context and then calls **Shutdown** of both servers.

### What makes each component correct

- *Flash jobs*: the record never claims more than the device acknowledged; a job
  is completed only if all was delivered; each operation returns, as far as the device
  lets it; every job ends completed or failed.
- *TCP server*: the registry holds no client of a dead or of another device's
  connection; Shutdown misses no connection and ends; `done` means quiet; a
  record that says connected has a connection that will take it back.
- *Command client*: an answer goes to its own request; the table does not leak;
  a waiting request can be reached; a request on a dead connection is told; an
  abort of a flash comes from the device.
- *JSON repository*: its operations are atomic and survive a crash.
- *Firmware catalog*: at most one current firmware per product, whatever fails half
  way; records and binaries agree; a device gets one image and not the same update
  twice.
- *Products, links, claims*: a slug names one product, links join what exists, the
  product in a device's record has a link to it unless the device has named it, a code
  claims one device.
- *Webhooks*: a failing receiver is left alone for the time its recorded failures call
  for; what the owner saved stays.
- *Accounts*: a user keeps the password of the creation that succeeded; a request is
  served for the user of a token that was good.
- *Events*: a stream shows each matching event once, and nobody's slowness stops a
  publisher or panics the server.
- *Wire*: what one side encodes and frames, the other side reads, packet by packet.
- *Process*: the key pair that devices know outlives every crash; a start or a
  shutdown comes to its end, a failed start with the last request of the API.

## 2. Modules

| Module | Models |
|---|---|
| `FlashJob` | the flash jobs of one device, every repository access and every exchange with the device a step |
| `FlashJobProofs` | proofs about `FlashJob` |
| `DeviceServer` | accept loop, connection goroutines, registry, Shutdown, and the Connected flag with its other writers |
| `DeviceServerProofs` | proofs about `DeviceServer` |
| `CommandClient` | requests, pending tables, response channels, session loops and the registry slot of one device |
| `CommandClientProofs` | proofs about `CommandClient` |
| `JsonStore` | one directory: files, temporary files, the locks of the repository objects, crashes |
| `RecordStore` | what services rely on: an atomic, durable map |
| `JsonStoreProofs` | the proof that `JsonStore` implements `RecordStore` |
| `FirmwareCatalog` | firmware records and binaries of the products, requests that change them, the choice of what a device gets, and its flashes with their stale saves, retries and aborts |
| `FirmwareCatalogProofs` | proofs about `FirmwareCatalog` |
| `Fleet` | products, links, claims and all other writers of a device record, with every repository access a step |
| `FleetProofs` | proofs about `Fleet` |
| `Webhooks` | one webhook, overlapping deliveries to it and requests of its owner, refused saves, and time |
| `Accounts` | users and tokens across restarts |
| `WireCodecs` | packets as numbers and lengths through Marshal, Encrypt, WriteFrame and back, with two writers |
| `ServicesProofs` | proofs about `Accounts`, `Webhooks` and `WireCodecs` |
| `EventBroker` | publishers, subscriptions, the mutex, channels and sinks |
| `DeviceHandler` | session loops of several devices over the one handler |
| `Startup` | the process over its key files, and the requests of its API |
| `SessionsProofs` | proofs about `EventBroker`, `DeviceHandler` and `Startup` |
| `MCFlashJob`, `MCDeviceServer`, `MCCommandClient`, `MCJsonStore` | inputs, symmetry and bounds of one module each |
| `MCFirmwareCatalog` | the small instances of `FirmwareCatalog` |
| `MCServices`, `MCSessions` | small instances of several modules side by side |

The modules are composed by what they promise each other, not by one big state:
`JsonStore` implements `RecordStore`, so that elsewhere a repository access is one
step; `FlashJob` has the whole of a flash, of which `FirmwareCatalog` keeps what
meets the catalog (its start, manifest and image, and each load and save of the job's
status); `DeviceHandler` ends where a check of `FirmwareCatalog` begins; `Startup` stops
the device server in one step that `DeviceServer` spells out.

Every module that takes a repository access for one step inherits the two conditions under
which `JsonStore` implements `RecordStore` (section 5): one repository object per directory,
and no List over what a crash has left. The code meets the first for all directories but that of
devices, and the second for no directory that it lists. Where it does not, a List may fail
on a temporary file or return one as a record (section 3), which the other modules do not
show: in them a List returns the records there are.

An operator marked *Mutant* stands before the definition it perverts: a plausible
mistake in the code. For each checked property `PROJECT.json` names one that
violates it, so that no property holds by the shape of its model.

### FlashJob

`store` is the flash-job repository: status, flags and counter of each job; times,
sizes and texts are left out. `proc[p]` is a goroutine: its label, operation, job,
the copy it works on, and whether its context has ended. `began`, `acked` and
`updateDone` record what passed between server and device; no action of the
code reads them, only properties do.

| Actions | Code |
|---|---|
| StartDeviceFlash, CreateFlashJob, BeginFlash, MarkFlashJobRunning | `StartDeviceFlash`, `createFlashJob`, `Transport.BeginFlash`, `markFlashJobRunning` |
| SendNextFlashChunk, FinishFlashJob | `PumpFlashJob` and `SendNextFlashChunk` |
| LoadFlashChunk, SendFlashChunk, ReloadFlashJob, MarkFlashChunkTransferred, CompleteDeviceFlash | `SendFlashChunk`, `MarkFlashChunkTransferred`, `completeFlashJob`, `completeDeviceFlash` |
| RetryMissedFlashChunks, RetryNext, AbortDeviceFlash, FailFlashJob | the functions of these names, `failFlashJob` |
| Cancel, Crash | the end of a request's context; the end of the process |

The three exchanges with the device (BeginFlash, SendFlashChunk, CompleteDeviceFlash) are
`Exchange(p)`, all that a goroutine does by itself is `OwnStep(p)`.

A repository access is one atomic step: `StoreAtomic` justifies it. A job signal may
find any job of the preferred status, not only the latest: clocks tie, and the stamp
is taken before the save.

### DeviceServer

`handler[c]` is the label of connection c's goroutine, `acceptor` the accept loop's,
`shutdown` that of the goroutine in Shutdown; `tracked`, `toClose` and `clients` are
the maps of the same purpose in the code; `presence[d]` is a device record
reduced to existence and Connected flag, and `seen[c]` and `writer[w]` the copies
between a load and a save. The handshake is one step that yields a device or
fails. Saves fail only by ended contexts and conflicts; the disk works. A
connection value is used once: reconnecting is a new value.

### CommandClient

`req[r]` is a request: label, client it looked up, message id, context, result.
`pending[k][i]` is the table of client k, one for the code's two, which are
written together and whose token is derived from the id. `chan[r]` is the response
channel with its buffer of one. `loop[k]` is the packet a session loop has matched
but not delivered, which is where the mutex has been released. A device answers
any request it was sent, any number of times, at once or late, with a
piggybacked or a separate response, with success or error. `SendMessage` looks at the
context, `WriteFrame` then waits for `writeMutex` and for the connection whatever the
context says: a request that is in the device's hands there is `Stuck`.

### JsonStore and RecordStore

`files` maps an id to its record's file, `temp[p]` is the temporary file of p,
`orphans` those that crashes left. A repository object `s` has a lock;
`Uses[s]` are the operations its callers use. The refinement mapping reads `files`
as the abstract records and a goroutine's settled result as the abstract answer:
a write takes effect at its rename, and List at the step that reads the last
file, which is right only because the lock keeps writers out in between.

### FirmwareCatalog

`firmware` and `binary` are the records and the files, by extension; a binary is an
image, and a record's checksum is the image it was computed from. `admin[a]` is a
request with its copy of the record; its steps are `writeBinary`, the removal of the
old file, `clearCurrent` (which lists, then saves one record after the other), the
save, and for a deletion the look at the flash jobs, the deletion of the record and of
the binary. Each save and file operation may fail, and the server may stop between any
two. An update removes the file under the old extension after it has written the new one,
and ignores a failure of the removal, which counts as a failing step all the same.

`starter[s]` is a goroutine of a flash: `CheckAndStartProductFirmwareUpdate` or an HTTP
request, or the answer to a device's missed chunks or abort. A start loads the record,
reads the binary for the manifest and creates the job, three steps between which a request
may work. Then come UpdateBegin, the save of the copy from before it (`markFlashJobRunning`),
and for each chunk the load of the job with the comparison of the binary, the
exchange, the load in `MarkFlashChunkTransferred` and its save. Only the status of a job
matters to the catalog, so a stale copy is the status it was loaded with (`held`); any
chunk may be the last, and which are left is `FlashJob`'s. Hence an abort while UpdateBegin
or a chunk is on its way fails the job and a later save of the goroutine brings it back;
`revived` remembers such jobs, and `overlap` who has been at work together, for the
properties that allow it.

### Fleet

`product`, `link`, `unit` and `code` are the repositories, `caller[c]` a call with the
copies it works on; a call's reads that nothing separates from its first
write are taken with its beginning. Records have fresh ids: a new link takes one that is
in no record, nor on the list of links that another call still has to delete (an
id in the code is random and never used again). All writers of a device record load and save
the whole of it: AddDevice and RemoveDevice; Claim, Provision and Unclaim; MarkConnected,
MarkDisconnected and a new name (`TouchDevice`, which changes nothing that is modelled and
brings back what its copy has); and UpdateDescription, which takes the product that the
device's attributes name, if they name one (`DescribeDevice`). `met` remembers which kinds
of calls have overlapped, `described` what devices have called themselves, `failed` how many
saves have failed.

### Webhooks

A delivery lists the webhooks, looks at the copy it has listed (`shouldAttempt`), sends, and
saves that copy with the outcome; or it does not (`Unrecorded`): the save is refused when the
publisher's context has ended, and nobody looks at its error. A request of the owner loads the
record and then saves or removes it, or fails; any number of requests and deliveries overlap,
and `crossed` remembers which kinds have. A malformed address ends a delivery before a request
is made. The clock counts minutes and passes to the moment before or at which the webhook is
due. `BackoffFor` is the code's loop, and `Patience` the closed form that it is checked
against, and proved equal to for every number of failures.

### Accounts

`user` and `token` are the repositories; `request[c]` a goroutine that logs in, creates
a user, uses a token or deletes it, as the handlers of `httpapi/server.go` call the
service; `start` is `EnsureDefaultAdmin` with the password that the settings then hold.
A request takes the set of tokens that were already dead when it began (`dead`).

### WireCodecs

Lengths, numbers and order are modelled, contents are not. `Marshal` and `Parse` compute
deltas, nibbles, extended bytes, marker and size; `Seal` pads to the block; `WriteFrame`
refuses more than 65535 bytes (`Width` is the number of values of a `uint16`). A frame
is written as header and body, under `writeMutex`; the reader takes them off the stream.
An end of the connection cuts it at any point.

### EventBroker

A publisher stores, takes the read lock, offers to each matching subscription without
blocking, and calls the sinks; the end of a stream takes the write lock, removes the
subscription and closes its channel. `RLock` waits for a writer that waits, as Go's
RWMutex has it. `channel[s]` is bounded by `BufferSize`.

### DeviceHandler

`loop[s]` is the session loop of a device, `pendingUpdates` the handler's one table,
`after` the goroutines that run `AfterResponse`. A message is its session, place, kind
and id. `SharedIDs` are the ids that more than one message carries.

### Startup

`life` is the place of the process in `Start`, `Wait` and `Shutdown`; the key files are
`none`, `partial` or `whole`, and hold one of the pairs made so far. `streaming` says that a
request of the API, such as an event stream, is under way, which only its client ends. A
start whose device server cannot listen closes the API's listener and then waits for such
requests, under the context of the run, until a signal ends that (`failed`); an orderly
shutdown waits for them ten seconds in all. A crash may come at any step, and the process
is started again.

## 3. Runs

All bounds are in the `.cfg` files. Flash, Server and Client runs set
CHECK_DEADLOCK FALSE: a server with no goroutine left to run, a process that
panicked or a system whose requests are all used up stops. Store runs check deadlock.

| Run | Shows | Bounds and why they are enough |
|---|---|---|
| `FlashSafety` | lost updates among a pump, retries and aborts never make a record claim an unacknowledged chunk, with cancelled contexts, failing saves and crashes; every operation returns once the device stops signalling, unless it stays in an exchange with the device for ever | 1 job, 2 goroutines, 3 chunks: two goroutines suffice for a lost update, and with three chunks a job has one chunk done, one in hand and one to come, so that a chunk counted twice shows before the job completes; requests include an index past the image and more than MaxMissed indexes. The proofs cover every number of chunks and goroutines for the safety part |
| `FlashOrderly` | with no missed chunks, no chunk precedes its accepted UpdateBegin, and every job settles | 2 jobs at once, 3 goroutines: two pumps and an abort |
| `ServerSafety` | registry, Shutdown and `done` as above; a stored Connected flag has a connection that will clear it; Shutdown ends whatever the devices do | 2 overlapping connections of one device, either of which may be accepted during Shutdown; a writer of its record, accept errors, crashes. PresenceBacked is excused once a writer has saved or the server has crashed, which leave a flag behind |
| `ClientSafety` | own answers, no leaks, nobody lost; live calls return, unless the write of the frame is stuck for good | 2 requests on 2 overlapping connections; a third request adds nothing that two do not, since entries interact in pairs. Contexts end (`ReturnSpec`); what the session loop takes for a device's aborts is remembered while no request is under way, since requests do not depend on it |
| `StoreAtomic` | operations are atomic and records whole | 3 goroutines on one object, 2 ids, so that List reads more than one file; 2 values when two goroutines are busy, one when three are; a failing disk, ended contexts and crashes at any step. Nobody lists over what a crash has left, see below |
| `Services` | each service by itself (below) | below |
| `Sessions` | each long-running part by itself (below) | 2 publishers, 2 streams, buffers of one, 2 events, of which one fills a buffer and one overflows it; 2 sessions, 2 ids, of which they may share one, 2 messages of one device and 1 of the other; 3 lives, so that the third start finds what two crashes left, and a request of the API that may hold up a failed start |

In `MCServices` and `MCSessions` the variable `part` chooses, for a whole behaviour, the
one module that runs, while the others rest; so one run checks several small systems
one after the other, not their product. Type invariants are conjuncts of the
properties that name them, and every property is one that a bug in the code would break.

| Part of `Services` | What happens in it |
|---|---|
| failures | catalog: one administrator, 4 requests of all kinds, one failing step or crash at any of them |
| races | catalog: two administrators, 4 requests, for what must hold even then (CatalogInv's types) |
| flashes | a requested flash and a retry or an abort of it, with an upload and one more request that replaces, renames or deletes what is flashed |
| twice | two starters of the same update, retries and aborts, 3 beginnings in all |
| faults | an automatic and a requested flash, desired versions, reports of the device, one failing step or crash |
| backoff | 8 failures of one delivery after another, past the point at which the delay reaches an hour, 130 minutes |
| hooks | 2 publishers and 2 requests of the owner, any two at a time, 2 events, 1 minute: every way in which two of them can overlap, saves refused or not |
| fleet | 3 calls of 2 goroutines, one failing save, on an empty fleet or on a product with one of two owned devices; one slug equals the id of another product; the first device is claimed and given up, and has sessions (one message at a time) and descriptions that name a product, the second is linked and provisioned |
| accounts | 2 names, 2 passwords, 1 token, 2 goroutines, 2 starts with either password |
| wire | 3 frames of 2 writers, one of them of any shape at the boundaries (deltas of 0, 12, 13, 268, 269 and 65535, lengths of these and past 65535; tokens of 0, 8 and 9 bytes; repeated and unsorted options; payloads at the frame's limit) |

### Disagreements

Five runs end in a counterexample: the code does not do what a line of its
documentation or tests says. `PROJECT.json` quotes the lines.

| Run | Shortest story |
|---|---|
| `FlashAbortLost` | the pump loads a job, the device aborts it (saved as failed), the pump saves its copy: the job runs on |
| `FlashOrphan` | the HTTP client goes away during a flash; `failFlashJob` saves with the ended context; the job stays running for good |
| `ServerReconnect` | a device reconnects before the old connection is found dead; the cleanup of the old one unregisters the new one |
| `ClientPanic` | the session loop has looked up a channel, the cleanup of an older connection closes it, the send panics |
| `FirmwareBySlug` | firmware is uploaded and made current under the slug of its product; devices ask for firmware of the product's id, and are offered none |

### Where the properties stop

The passing runs leave out, by their constants, cases in which the code does not
have the property. TLC finds each of these in seconds when the constants are
changed as the table says:

| Property | Constants | Story |
|---|---|---|
| AbortsComeFromDevice | `ClientPanic` | a command times out, then its error answer arrives, matches nothing and fails a running flash job |
| OfflineIsReported | `ClientSafety` under FairSpec | a request without a deadline, registered on a replaced client, is never told that its connection is gone |
| WaiterReachable | `ClientSafety` with `Starts = {MaxID}` | two requests pass the end of the message ids together and both get id 1 |
| AnswerIsOwn | `ClientSafety` with `SeparateIds` = {2} | a device's own message id equals that of a pending request, which gets the other's answer |
| NoPartialRead | `StoreAtomic` under Spec, with a List after a crash | a crash leaves `.tmp-*.json`, which List reads as a record from then on |
| NoPartialRead | `StoreAtomic` with two repository objects (`UsesDevices`), as `app.go:54` and `:66` make them | List of one object meets the temporary file of the other |
| ChunksAfterBegin | `FlashOrderly` with `MCRequests` | a retry takes a queued job and sends chunks before the device has accepted the update |

Other properties name, as a premise, the circumstances in which the code does not
have them, so that they say where the promise ends. Without the premise TLC refutes them:

| Property | Premise | Story without it |
|---|---|---|
| PresenceBacked | no writer has saved, no crash | a rename loads an online record, the device leaves, the rename saves it online; a crash leaves the records of connected devices as they are, and no start resets them |
| OneCurrent | requests do not overlap | two uploads with current=true clear the flags both found and set their own: two current firmwares |
| BinariesMatch | no failing step | an update with another extension writes the new file and removes the old one; the save fails, and the record names a file that is gone |
| FlashKeepsImage, first part | no flash starts during a deletion; the job has not been brought back | the deletion finds no active job, the flash starts, the record and its binary go; a device aborts while UpdateBegin is on its way (`ota.go:111`), a deletion then finds the job failed and removes the firmware, and `markFlashJobRunning` saves its earlier copy: a running job without firmware |
| NoRepeatedUpdate | starts do not overlap; neither job has been brought back | two descriptions find no job; two jobs of one firmware start; or an aborted job lets a second one start and then runs on |
| CreatedOnce | creations do not overlap | two creations find the slug free; a link saved while it is deleted comes back |
| LinksHaveProducts | no failing deletion, no call that saves a link while its product goes | Delete ignores the error of a link it cannot delete, and then deletes the product |
| UnitIsLinked | no failing save; no save of the record during a removal; deleted products; products that devices have named | AddDevice or RemoveDevice fails between its two saves and nothing repairs the record; MarkConnected, a rename or a claim saves the copy it has loaded before a removal, with the product; a deleted product stays in its devices' records; a description with a `product_id` of its own is stored as it comes (`devices/service.go:222`) |
| CodeClaimsOnce | Provision calls do not overlap, no failing save | two devices find the code unused; a crash or error before the code is marked leaves it usable |
| BackoffKept | deliveries overlap neither each other nor an update; failures that were recorded | the outcome of a delivery is saved over another failure (which is not counted) or over an update; a publisher goes away while the receiver is being asked: its request fails, and the save of that failure is refused too (`webhooks/service.go:271`, `jsonfile/store.go:73`), so that the next event is sent at once |
| OwnerWins | calls do not overlap, except deletions with each other | the outcome of a delivery is saved over an update (which it undoes) or over a deletion (the webhook is back); a PUT loads, a DELETE removes, the PUT saves: the webhook is back with no delivery running |
| CheckAfterAnswer, DescriptionsChecked | the id is nobody else's | the answer to another device's message with that id takes the entry: the update starts before its acknowledgement, and the second is lost |
| RequestsReturn | the write of the frame is not stuck | a device does not read: `writeFrame` (`client.go:287`) waits for the socket, whose deadline `ServeClient` has cleared (`server.go:316`), and does not look at the context; all that need `writeMutex` wait with it until the connection is closed |
| FlashReturns | no exchange lasts for ever | a device that is connected but silent, or a request on a replaced client: `SendRequest` (`client.go:204`) waits under a context without deadline for automatic updates and retries |
| StartAndStopReturn | a failed start with a request of the API under way, before a signal | the device server cannot listen; the API has accepted an event stream by then, and `http.Shutdown` waits for it under the context of the run (`app.go:166`) |
| StreamsExact | events that find a channel full | they are dropped: a stream that is 16 events behind misses the next |

Some facts were met while reading and modelled, but no property speaks of them:

- An update that clears the current flag leaves the default flag
  (`firmware/metadata.go`); the catalog then may have two defaults of which the lower
  version is offered.
- A lock to a lower version is no update (`selection.go:29`), so a locked device
  keeps the higher one; a failed job is tried again, a completed one blocks the
  same firmware for good.
- A chunk whose data no longer match the manifest, or a missing binary, ends the pump
  and leaves the job running (`ota.go:192`), which keeps its firmware from being deleted
  and its device from automatic updates.
- `RemoveDevice` clears the device's product, though another product may still have
  a link; a slug that equals another product's id cannot be reached by name.
- A webhook with a malformed address fails before a request is made; no failure is
  recorded, so there is no backoff.
- A partial public key file passes `EnsureServerKeyPair`, and a missing one after a
  crash makes every later start fail until it is put right by hand.
- `EnsureDefaultAdmin` looks for the configured name only, and leaves the password of
  an administrator that exists as it is.
- Events of devices carry no product, so a product's stream does not show them; the
  broker's sinks run in the publisher's goroutine.
- A write to a device that does not read has no deadline and holds `writeMutex`
  (`client.go:287`).

With a single connection NoSendOnClosed holds (`ClientPanic` with one client, at
the wrap of the ids too): the session loop and the cleanup are then one goroutine.

## 4. Fairness

- `FlashJob!FairSpec`: weak fairness of each goroutine's own steps (`OwnStep`). The
  exchanges with the device are not fair: `SendRequest` has no timeout of its own, and
  automatic updates and retries run under a context without deadline. FlashReturns
  therefore excuses a goroutine that stays in an exchange for ever. Signals of the device
  and faults are not fair either, and the device is assumed to stop signalling: each
  signal may undo progress, so with endless signals nothing could be promised.
- `DeviceServer!FairSpec`: weak fairness of each connection's own steps, of the
  accept loop and of Shutdown. The handshake has a deadline of 30 seconds, a read
  from a closed socket returns. Nothing is assumed of devices: one that is connected
  and silent stays so, which is why Shutdown has to close it.
- `CommandClient!FairSpec`: weak fairness of a connection's steps that wait for nothing
  and of what a request does by itself (`RequestFairness`): all but the write of its frame,
  which the device may hold up for as long as the connection is open; on a closed one it
  fails. `DeadlineSpec` adds that contexts end: `liveCallContext` gives every live call a
  deadline, 30 seconds by default. Flash operations have no such deadline. `ClientSafety`
  uses `MCCommandClient!ReturnSpec`, which has the fairness of `DeadlineSpec`.
- `BrokerFairness`: weak fairness of each publisher that has stored its event and of a
  subscription whose context has ended. Nobody has to read a stream, publish or
  leave. Weak fairness suffices for the mutex since a waiting writer keeps new
  readers out.
- `HandlerFairness`: session loops and the goroutines they start run on; devices need
  not send anything, and a write may fail.
- `StartupFairness`: the process goes on with what it does; it need not be started,
  signalled or fail, and no client has to leave a stream.

## 5. Proofs

The theorems hold for any number of jobs, goroutines, chunks, devices and
connections. The assumptions about constants are ChunkCountAssumption and
MaxMissedAssumption in `FlashJob` (an image has at least one chunk; the limit is a
natural number), DistinctAssumption in `DeviceServer` (no device or
connection is the value "none"); MaxIDAssumption, IdsAssumption and DistinctAssumption in
`CommandClient` (message ids run from 1 to MaxID, of which counters start at some and
devices use some, or 0 for none); CatalogAssumption in `FirmwareCatalog` (of what
requests may hold, and that "none" is no id); FleetAssumption in `Fleet` ("none" is no
id, slug, owner or code); AccountAssumption in `Accounts` ("none" is no password; "none",
"unused" and "deleted" are no names); WebhookAssumption, BrokerAssumption,
MessagesAssumption and LivesAssumption (bounds are natural numbers); and WireAssumption
in `WireCodecs` (of the shape of a packet: `uint16` numbers, lengths that are natural
numbers, and at most 12 options where the program builds at most three). Every instance
that TLC checks satisfies them.

**FlashJob.** TransferredWasAcked is not inductive: it speaks of stored records, and the
next save may store a goroutine's copy. `FlashInv` therefore requires of each copy what it
requires of each stored record (`RecordOK`: flags within acknowledged chunks, counter
equal to the number of flags, completed only if all are acknowledged), and relates labels
to locals: a goroutine about to mark a chunk has had it acknowledged, one about to send
UpdateDone has a completed copy. `FlashJobProofs` proves Init => FlashInv, one lemma per
action that FlashInv is kept, and from these the theorems FlashInvariant, FlashTypes,
TransferredChunksAcked, CounterExact, CompletedDelivered, UpdateDoneSafe. The lemmas about
counters use facts about cardinalities of finite sets. The two properties of
`FlashOrderly` have invariants of their own. `OrderlyInv`: a goroutine past BeginFlash
works on a job that has begun, which needs NoRetries, that no request names chunks to send
again; it gives ChunksFollowBegin, whatever fails. `SettledInv`: an unsettled job has one
pump, which it keeps until the job is settled, since ids are new and goroutines other than
the pump only store failures; it needs Faults = {} as well, and gives QuiescentSettled.
Both conditions are hypotheses, since without them the code does not have the properties
(section 3).

**DeviceServer.** ShutdownReachesAll needs to know, while connections are still being
closed, that each tracked one is closed or still listed; DoneMeansQuiet, that only running
goroutines are tracked, that the accept loop holds at most one connection without a
goroutine, and that it holds none when it is done. `ServerInv` joins these with
NoGhostClient. `DeviceServerProofs` proves it by the four groups of the next-state
relation and derives ServerInvariant, NoGhosts, ShutdownMissesNone, DoneIsQuiet and
ServerTypes. PresenceBacked is inductive beside `ServerInv`: whoever writes "connected" is
on the way to its session, and leaves it only by saving "disconnected" or finding no
record; its own second connection may do that early, never late. PresenceIsBacked has the
hypothesis that there is a writer or that nothing crashes, because PresenceBacked knows a
crash by the writers it ended.

**FirmwareCatalog.** That a product has one current firmware at most is no invariant by
itself: it holds at a save because of what the request did many steps before. `CatalogInv`
says, of requests that have always been alone: one that saves a flag has first cleared, or
has still on its list, the flags of all others, and one that keeps a flag it found has it
in its stored record. `overlap` grows only, so a behaviour in which requests overlap
leaves the premise for good. CatalogInvariant is proved by the actions of a request, for
any number of firmwares and for failures and crashes at any step; OneCurrentFirmware and
CatalogTypes follow. The other three properties stand on it, each with an invariant of its
own. `MatchInv`, while nothing has failed: what a request has in hand of a file (new
binary written and old one still there, record gone and binary not yet) is told by its
label (`InHand`), and every record that nobody has in hand has its binary; it gives
BinariesOfRecords. `FlashesOK`: a job knows the image of its manifest and the images sent;
with `KeptInv` (while no flash has started during a deletion, an active job's firmware has
its record, which is what DeleteFirmware looks for) FlashesKeepImages. A goroutine with a job
(`Working`) saves whatever status it has loaded, so `FlashesOK` can say of its copy no more
than that it is a status (`InStep`), and a save may bring a job back at any time: KeptInv and
FreshInv speak of the jobs outside `revived`, which a save that brings a job back enters in
the same step. `FreshInv`: while nothing has failed and starters have worked in turn, one that
is past its look at the jobs finds each earlier automatic job of its firmware failed when it
creates its own; it gives UpdatesOnce.

**CommandClient.** `TableInv` says of the table what its users rely on: an entry belongs
to a request in flight, under that request's own id; a request not yet in a table has an
open channel; and increments of the counter use up the requests that have no id. It needs
no more than finitely many requests and gives TablesHold. OwnAnswers and WaitersReached
need more, for an id is unique only as long as the counter has not come round: `EarlyIds`
says that no counter reaches MaxID with the requests there are, and OwnAnswers also assumes
`OwnIdsApart`, that the ids devices give their own messages are none of the issued ones, which
`client.go:271` does not check and nothing makes a device see to. They are hypotheses because
the code does not have the two properties without them (section 3), and they hold of
`ClientSafety`. `IdInv` adds to
`TableInv` that the ids of one client's requests differ (they lie between the counter's
start and the counter, which the requests without an id cannot carry past MaxID) and that
what lies in a channel, or in a session loop's hand, is for the request it lies with.

**Fleet.** No property is inductive by itself, because each premise about calls that have
met speaks of the past, and each conclusion of records that calls hold copies of.
`FleetInv` joins the premises with what is then in hand: `SlugInv` (a slug that a call has
found free stays free), `OnceInv` (a pair that a call is about to link has no link),
`HomeInv` (the product of a link to be saved exists, and one whose deletion has taken its
list has no link beside it), `HeldInv` (a link that a call holds is of the call's product
and device as long as it exists), `UnitInv` (the product in a device's record, or in
a copy of it that a call is about to save, has a link, is being deleted or has been, or is
what the device has called itself, `Accounted`, or a removal is about to clear it), and
`CodeInv` (an open code that has claimed a device is in the hands of the call that is about
to mark it). FleetInvariant; OneProductOneLink, LinksOfProducts, UnitsOfLinks, CodesClaimOnce. The proof found that the
model had a new link take an id which a product's deletion had on its list; ids in the
code are not used twice, and CreateLink now says so.

**Webhooks.** `PatienceInv`, while no two deliveries and no delivery and update have
overlapped: one delivery runs at a time, and record and copy count the recorded failures in a
row and wait at least their `Patience` after the last. `OwnerInv`, while no calls but deletions
have overlapped: a delivery's copy is the record, and the record is what the owner saved. A
refused save leaves the record as it was and the delivery without its copy, so neither has to
know of it. WebhookInvariant, BackoffIsKept, OwnersWin. BackoffIsPatience is about the loop of
`backoffFor`: for every number of failures it returns the closed form, an hour at most.

**WireCodecs.** Lemmas first: what Parse does to the option header that Marshal writes (a
delta or a length in its nibble, one byte or two), to one option, to a sequence of them,
to the marker and the payload, to padding and to the frame's length; together
ParseRoundTrip, that a packet which Marshal and WriteFrame accept is read as it was, with
its options in stable order (StableSort: what the sort of the model returns is a
permutation, ordered, and keeps the order of equal numbers). Then `WireInv`, for any
number of writers: the k-th accepted frame has its header and body at its place in the
stream, whoever holds `writeMutex` owes at most the last body, and what the reader has
taken is a prefix. WireInvariant, PacketsArrive.

**Startup.** KeyPairKept needs to know which files exist at each place of the process (a
whole private key before the public file is made, both before it listens) and that no pair
is made while a private key file exists. StartupInvariant, KeyPairIsKept.

**DeviceHandler.** An update may start because its entry was taken by an `AfterResponse`
that ran for another message. The strengthening says that whatever was taken was taken
under an answered message of the same id, and so by itself if the id is its own; messages
are told apart by session and place. HandlerInvariant, ChecksFollowAnswers.

**Accounts.** UsersInv: every creation that was answered is in the repository with its
password, and nobody creates while the server is not up. TokensInv: a token that a request
found was issued to the user it has, and was not dead before. AccountInvariant,
PasswordsAreKept, TokensAreHonoured.

**EventBroker.** Publishers send only to streams that were subscribed under the read lock,
which the closing of a channel cannot hold at the same time; events are numbered in the
order they are stored, each is offered by one publisher and once, and moving an event from
the channel to the response does not change what a stream had or will have.
BrokerInvariant, NoSendOnClosedChannel, StreamsAreExact, with lemmas about Append and Tail
from the library's theorems about sequences.

**JsonStore implements RecordStore**, under two conditions on the constants: OneRepository
(one object for the directory) and NoListAfterCrash (an object of a process that may crash
is not listed). They are hypotheses of the theorems, since the code meets neither for
every directory: section 3 shows what happens then. The refinement maps the files to the
records and a goroutine's settled result to the answer (`Calls`). Its steps are those of
RecordStore because of `StoreInv`: a goroutine that writes is the only one in the object
(`Locked`), so that a create that has found no file still finds none at its rename, and a
list that has read some names has them and the rest to read make up all records (`Reads`);
while a list runs nobody has a temporary file (CleanDirectory). StoreInvariant,
StoreIsAtomic, NoPartialRecords.

**Induction.** The library's induction theorems take an operator as a parameter, which the
installed provers cannot instantiate. `SetInduction` states induction for a set of
numbers, which is a value: if it has 0 and with each number the next, it has them all, by
a least number outside (NatLessThanWellFounded, WFMin). The loop of `backoffFor`, sums of
lengths and the sequences of options are treated with it.

**Only model-checked:** liveness (FlashReturns, ShutdownCompletes, RequestsReturn,
BrokerReturns, DescriptionsChecked, StartAndStopReturn), which needs ENABLED. Every safety
property of a passing run is stated by a theorem.

## 6. What is not modelled

- AES, RSA, HMAC, password hashing: the handshake is a step that succeeds or fails.
- Loss of power: the code never calls fsync. A crash here is the end of the
  process, and what was renamed stays.
- Disk errors in `DeviceServer`; `JsonStore` and `FlashJob` have them.
- Time stamps, texts and sizes in records; `Registry.Touch`; the exported operations
  that only tests call: `StartFlashJob`, `CompleteFlashJob`, `FailFlashJob`,
  `RegisterDevice`.
- Forms, JSON and the wording of HTTP: a request appears as the calls it makes, with
  the names as given in the path. Names, attributes but the product, descriptions, the
  quarantined and denied flags (which nothing reads), the filters of webhooks by event
  name and the bodies they send.
- The configuration file, read once at start, and the command line tool, which
  polls the API and prints: input and output without state that changes.
- Device key files: one write per upload.
- Losing packets: the transport is TCP. What a connection that breaks does is in
  `DeviceServer`, `CommandClient` and `WireCodecs`.

## 7. What is left

Done: the modules of section 2, in the order of importance in which section 1 lists
the components. Worth adding next:

1. A composition of `FlashJob` and `CommandClient`, in which an exchange of a flash
   is a request of the client, which would tell when one stays in it for ever.
2. Abstract specifications of `Accounts` and `EventBroker`, and proofs that these
   implement them.
3. The filter of webhooks and of event streams, if events get product ids.
