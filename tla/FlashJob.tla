------------------------------ MODULE FlashJob ------------------------------
(***************************************************************************)
(* The over-the-air flash jobs of one device (internal/firmware/ota.go).   *)
(*                                                                         *)
(* A job is one JSON record in the flash-job repository.  Three kinds of   *)
(* goroutine work on it, each with a copy of its own that it reads from    *)
(* and writes back to the repository without holding a lock in between:    *)
(*   - StartDeviceFlash: an HTTP request, or the update check that follows *)
(*     a device description; it creates the job, negotiates the update and *)
(*     pumps the chunks one by one;                                        *)
(*   - RetryMissedFlashChunks: started when the device reports chunks it   *)
(*     missed;                                                             *)
(*   - AbortDeviceFlash: started when the device answers with an error     *)
(*     code that no pending request waits for.                             *)
(* Every access to the repository, and every exchange with the device, is  *)
(* a step, so that the goroutines interleave wherever the code lets them.  *)
(***************************************************************************)
EXTENDS Naturals, Sequences, FiniteSets

CONSTANTS
  Jobs,        \* the job ids newFirmwareID can return
  Procs,       \* the goroutines that run flash operations for the device
  ChunkCount,  \* the number of chunks of the firmware image
  MaxMissed,   \* MaxMissedFlashChunks
  Requests,    \* the lists of missed chunk indexes the device can send
  Faults       \* what may go wrong: "cancel", "disk", "crash"

ASSUME ChunkCountAssumption == ChunkCount \in Nat \ {0}
ASSUME MaxMissedAssumption  == MaxMissed \in Nat

VARIABLES
  store,       \* the flash-job repository
  issued,      \* the job ids already given out
  proc,        \* the goroutines: program counter and local variables
  began,       \* the jobs whose UpdateBegin the device acknowledged
  acked,       \* the chunks of each job that the device acknowledged
  updateDone   \* the jobs for which UpdateDone was sent

vars == <<store, issued, proc, began, acked, updateDone>>

device == <<began, acked, updateDone>>

Chunks == 0 .. (ChunkCount - 1)

-----------------------------------------------------------------------------
(***************************************************************************)
(* Job records.  "none" stands for a job whose file does not exist.        *)
(***************************************************************************)
Status == {"none", "queued", "running", "completed", "failed"}

FlashJobs == [status : Status, flags : SUBSET Chunks, transferred : Nat]

NoJob  == [status |-> "none",   flags |-> {}, transferred |-> 0]

NewJob == [status |-> "queued", flags |-> {}, transferred |-> 0]

Running(r) ==
  [status |-> "running", flags |-> r.flags, transferred |-> r.transferred]

Failed(r) ==
  [status |-> "failed", flags |-> r.flags, transferred |-> r.transferred]

\* completeFlashJob sets every flag and the counter, whatever they were.
Completed(r) ==
  [status |-> "completed", flags |-> Chunks, transferred |-> ChunkCount]

\* Mutant: the counter moves for a chunk that was already flagged.
TransferredCountedTwice(r, c) ==
  [status      |-> IF r.status = "queued" THEN "running" ELSE r.status,
   flags       |-> r.flags \union {c},
   transferred |-> r.transferred + 1]

\* MarkFlashChunkTransferred: the counter moves only with a new flag.
Transferred(r, c) ==
  [status      |-> IF r.status = "queued" THEN "running" ELSE r.status,
   flags       |-> r.flags \union {c},
   transferred |-> IF c \in r.flags THEN r.transferred ELSE r.transferred + 1]

Indexes(request) == {request[i] : i \in DOMAIN request}

\* Mutant: indexes past the end of the image are kept.
UniqueChunkIndexes(request) == Indexes(request)

UniqueValidChunkIndexes(request) == Indexes(request) \intersect Chunks

\* The job a device signal is about: an active one, else a completed one.  The
\* code prefers the latest UpdatedAt; clocks tie and a stamp is taken before its
\* record is saved, so any job of the preferred status may be the one chosen.
ActiveFlashJobForDevice ==
  LET active == {j \in Jobs : store[j].status \in {"running", "queued"}}
  IN  IF active # {} THEN active
                     ELSE {j \in Jobs : store[j].status = "completed"}

-----------------------------------------------------------------------------
(***************************************************************************)
(* Goroutines.  The labels name what the goroutine does next.              *)
(***************************************************************************)
Labels ==
  {"idle", "create", "begin", "markBegun", "next", "finish", "retry", "load",
   "markQueued", "send", "reload", "save", "updateDone", "fail"}

Ops == {"none", "pump", "retry", "abort"}

IdleProc ==
  [pc |-> "idle", op |-> "none", job |-> "none", copy |-> NoJob,
   chunk |-> 0, todo |-> {}, ctx |-> "live"]

\* A context that has ended makes every repository call fail; so does the disk.
StoreFails(p) == proc[p].ctx = "ended" \/ "disk" \in Faults

StoreWorks(p) == proc[p].ctx = "live"

At(p, label) == proc[p].pc = label

Goto(p, label) == proc' = [proc EXCEPT ![p] = [@ EXCEPT !.pc = label]]

GotoWith(p, label, r) ==
  proc' = [proc EXCEPT ![p] = [@ EXCEPT !.pc = label, !.copy = r]]

Return(p) == proc' = [proc EXCEPT ![p] = IdleProc]

Save(p, r) == store' = [store EXCEPT ![proc[p].job] = r]

Continue(p, label) ==
  IF label = "idle" THEN Return(p) ELSE Goto(p, label)

-----------------------------------------------------------------------------
(***************************************************************************)
(* StartDeviceFlash and PumpFlashJob                                       *)
(***************************************************************************)
\* The request has passed its checks and the chunk manifest is built: the job
\* exists in memory under a new id.
StartDeviceFlash(p, j) ==
  /\ At(p, "idle")
  /\ j \notin issued
  /\ issued' = issued \union {j}
  /\ proc' = [proc EXCEPT ![p] = [IdleProc EXCEPT !.pc = "create", !.op = "pump",
                                                 !.job = j, !.copy = NewJob]]
  /\ UNCHANGED <<store, device>>

CreateFlashJob(p) ==
  /\ At(p, "create")
  /\ \/ StoreFails(p) /\ Return(p) /\ UNCHANGED store
     \/ StoreWorks(p) /\ Save(p, proc[p].copy) /\ Goto(p, "begin")
  /\ UNCHANGED <<issued, device>>

\* Mutant: chunks are pumped although the device refused the update.
BeginUnchecked(p) ==
  /\ At(p, "begin")
  /\ \/ began' = began \union {proc[p].job}
     \/ UNCHANGED began
  /\ Goto(p, "markBegun")
  /\ UNCHANGED <<store, issued, acked, updateDone>>

\* BeginFlash: the device accepts UpdateBegin, or the transport reports an error
\* (offline, ended context, refused).
BeginFlash(p) ==
  /\ At(p, "begin")
  /\ \/ began' = began \union {proc[p].job} /\ Goto(p, "markBegun")
     \/ Goto(p, "fail") /\ UNCHANGED began
  /\ UNCHANGED <<store, issued, acked, updateDone>>

\* markFlashJobRunning saves the caller's copy: the one StartDeviceFlash made,
\* or the queued one SendFlashChunk has just loaded.
MarkFlashJobRunning(p) ==
  /\ proc[p].pc \in {"markBegun", "markQueued"}
  /\ \/ StoreFails(p) /\ Return(p) /\ UNCHANGED store
     \/ /\ StoreWorks(p)
        /\ Save(p, Running(proc[p].copy))
        /\ GotoWith(p, IF At(p, "markBegun") THEN "next" ELSE "send",
                    Running(proc[p].copy))
  /\ UNCHANGED <<issued, device>>

\* SendNextFlashChunk picks the first chunk not transferred in the record it
\* loads; with none left it goes on to completeFlashJob with that record.
SendNextFlashChunk(p) ==
  LET r       == store[proc[p].job]
      missing == Chunks \ r.flags
  IN
  /\ At(p, "next")
  /\ \/ StoreFails(p) /\ Return(p)
     \/ /\ StoreWorks(p)
        /\ missing = {}
        /\ GotoWith(p, "finish", r)
     \/ /\ StoreWorks(p)
        /\ \E c \in missing :
             /\ \A d \in missing : c <= d
             /\ proc' = [proc EXCEPT ![p] = [@ EXCEPT !.pc = "load", !.chunk = c]]
  /\ UNCHANGED <<store, issued, device>>

\* completeFlashJob called by SendNextFlashChunk; PumpFlashJob then returns.
FinishFlashJob(p) ==
  /\ At(p, "finish")
  /\ \/ StoreFails(p) /\ UNCHANGED store
     \/ StoreWorks(p) /\ Save(p, Completed(proc[p].copy))
  /\ Return(p)
  /\ UNCHANGED <<issued, device>>

-----------------------------------------------------------------------------
(***************************************************************************)
(* SendFlashChunk: load the job and the chunk's bytes, send, load the job  *)
(* again, mark the chunk, save.                                            *)
(***************************************************************************)
\* Where SendFlashChunk returns to once it succeeded with the record r: the
\* pump stops on a settled job, the retry goes on with the next chunk.
AfterChunk(p, r) ==
  IF proc[p].op = "retry" THEN "retry"
  ELSE IF r.status \in {"completed", "failed"} THEN "idle" ELSE "next"

\* An unreadable binary or a checksum mismatch returns like a failed load.
LoadFlashChunk(p) ==
  LET r == store[proc[p].job] IN
  /\ At(p, "load")
  /\ \/ StoreFails(p) /\ Return(p)
     \/ /\ StoreWorks(p)
        /\ GotoWith(p, IF r.status = "queued" THEN "markQueued" ELSE "send", r)
  /\ UNCHANGED <<store, issued, device>>

\* Mutant: an error of the transport is ignored.
SendFlashChunkUnchecked(p) ==
  /\ At(p, "send")
  /\ \/ acked' = [acked EXCEPT ![proc[p].job] = @ \union {proc[p].chunk}]
     \/ UNCHANGED acked
  /\ Goto(p, "reload")
  /\ UNCHANGED <<store, issued, began, updateDone>>

\* The transport's SendFlashChunk: the device acknowledges the chunk, or not.
SendFlashChunk(p) ==
  /\ At(p, "send")
  /\ \/ /\ acked' = [acked EXCEPT ![proc[p].job] = @ \union {proc[p].chunk}]
        /\ Goto(p, "reload")
     \/ Goto(p, "fail") /\ UNCHANGED acked
  /\ UNCHANGED <<store, issued, began, updateDone>>

ReloadFlashJob(p) ==
  /\ At(p, "reload")
  /\ \/ StoreFails(p) /\ Return(p)
     \/ /\ StoreWorks(p)
        /\ GotoWith(p, "save", Transferred(store[proc[p].job], proc[p].chunk))
  /\ UNCHANGED <<store, issued, device>>

\* MarkFlashChunkTransferred once the job is loaded, with the test for the last
\* chunk and the record saved when it is not the last one.
MarkTransferred(p, last, partial) ==
  LET r == proc[p].copy IN
  /\ At(p, "save")
  /\ \/ StoreFails(p) /\ Return(p) /\ UNCHANGED store
     \/ /\ StoreWorks(p)
        /\ last
        /\ Save(p, Completed(r))
        /\ GotoWith(p, "updateDone", Completed(r))
     \/ /\ StoreWorks(p)
        /\ ~last
        /\ Save(p, partial)
        /\ Continue(p, AfterChunk(p, r))
  /\ UNCHANGED <<issued, device>>

\* Mutant: the job completes one chunk early.
MarkOneEarly(p) ==
  MarkTransferred(p, proc[p].copy.transferred + 1 >= ChunkCount, proc[p].copy)

\* Mutant: the chunk with the highest index is taken for the last one.
MarkByIndex(p) ==
  MarkTransferred(p, proc[p].chunk = ChunkCount - 1, proc[p].copy)

\* Mutant: the progress is not saved.
MarkNotSaved(p) ==
  MarkTransferred(p, proc[p].copy.transferred >= ChunkCount, store[proc[p].job])

MarkFlashChunkTransferred(p) ==
  MarkTransferred(p, proc[p].copy.transferred >= ChunkCount, proc[p].copy)

\* completeDeviceFlash: UpdateDone is written and not waited for.
CompleteDeviceFlash(p) ==
  /\ At(p, "updateDone")
  /\ \/ /\ updateDone' = updateDone \union {proc[p].job}
        /\ Continue(p, AfterChunk(p, proc[p].copy))
     \/ Goto(p, "fail") /\ UNCHANGED updateDone
  /\ UNCHANGED <<store, issued, began, acked>>

\* Mutant: the failure is returned and not saved.
FailUnsaved(p) ==
  /\ At(p, "fail")
  /\ Return(p)
  /\ UNCHANGED <<store, issued, device>>

\* failFlashJob saves the caller's copy as failed; every caller then returns.
FailFlashJob(p) ==
  /\ At(p, "fail")
  /\ \/ StoreFails(p) /\ UNCHANGED store
     \/ StoreWorks(p) /\ Save(p, Failed(proc[p].copy))
  /\ Return(p)
  /\ UNCHANGED <<issued, device>>

-----------------------------------------------------------------------------
(***************************************************************************)
(* The device's signals                                                    *)
(***************************************************************************)
\* The goroutine of a signal, with the job it found.
SignalProc(op, label, j, todo) ==
  [pc |-> label, op |-> op, job |-> j, copy |-> store[j],
   chunk |-> 0, todo |-> todo, ctx |-> "live"]

\* A request with no valid index returns without a change.
RetryMissedFlashChunks(p, request) ==
  LET indexes == UniqueValidChunkIndexes(request) IN
  /\ At(p, "idle")
  /\ \E j \in ActiveFlashJobForDevice :
       \/ /\ Len(request) > MaxMissed
          /\ proc' = [proc EXCEPT ![p] = SignalProc("retry", "fail", j, {})]
       \/ /\ Len(request) <= MaxMissed
          /\ indexes # {}
          /\ proc' = [proc EXCEPT ![p] = SignalProc("retry", "retry", j, indexes)]
  /\ UNCHANGED <<store, issued, device>>

\* The loop over the requested chunks.  The device lists them in any order.
RetryNext(p) ==
  /\ At(p, "retry")
  /\ \/ proc[p].todo = {} /\ Return(p)
     \/ \E c \in proc[p].todo :
          proc' = [proc EXCEPT ![p] = [@ EXCEPT !.pc = "load", !.chunk = c,
                                               !.todo = proc[p].todo \ {c}]]
  /\ UNCHANGED <<store, issued, device>>

AbortDeviceFlash(p) ==
  /\ At(p, "idle")
  /\ \E j \in ActiveFlashJobForDevice :
       proc' = [proc EXCEPT ![p] = SignalProc("abort", "fail", j, {})]
  /\ UNCHANGED <<store, issued, device>>

-----------------------------------------------------------------------------
(***************************************************************************)
(* The environment                                                         *)
(***************************************************************************)
\* The HTTP client goes away, or the server shuts down: the context ends.
Cancel(p) ==
  /\ "cancel" \in Faults
  /\ ~At(p, "idle")
  /\ proc[p].ctx = "live"
  /\ proc' = [proc EXCEPT ![p] = [@ EXCEPT !.ctx = "ended"]]
  /\ UNCHANGED <<store, issued, device>>

\* The server process dies and is started again: only the repository remains.
Crash ==
  /\ "crash" \in Faults
  /\ proc' = [p \in Procs |-> IdleProc]
  /\ UNCHANGED <<store, issued, device>>

-----------------------------------------------------------------------------
Init ==
  /\ store = [j \in Jobs |-> NoJob]
  /\ issued = {}
  /\ proc = [p \in Procs |-> IdleProc]
  /\ began = {}
  /\ acked = [j \in Jobs |-> {}]
  /\ updateDone = {}

\* The exchanges with the device, each of which may last for ever: a write to a device
\* that does not read has no deadline and does not look at the context, and the wait for
\* an answer ends only with the answer, the context or the connection's end.
Exchange(p) ==
  \/ BeginFlash(p)
  \/ SendFlashChunk(p)
  \/ CompleteDeviceFlash(p)

\* The steps a goroutine takes by itself once it has been started.
OwnStep(p) ==
  \/ CreateFlashJob(p)
  \/ MarkFlashJobRunning(p)
  \/ SendNextFlashChunk(p)
  \/ FinishFlashJob(p)
  \/ LoadFlashChunk(p)
  \/ ReloadFlashJob(p)
  \/ MarkFlashChunkTransferred(p)
  \/ FailFlashJob(p)
  \/ RetryNext(p)

Step(p) == OwnStep(p) \/ Exchange(p)

Signal(p) ==
  \/ \E request \in Requests : RetryMissedFlashChunks(p, request)
  \/ AbortDeviceFlash(p)

Next ==
  \/ \E p \in Procs, j \in Jobs : StartDeviceFlash(p, j)
  \/ \E p \in Procs : Step(p) \/ Signal(p) \/ Cancel(p)
  \/ Crash

Spec == Init /\ [][Next]_vars

\* A goroutine goes on with what waits for nobody.
FairSpec == Spec /\ \A p \in Procs : WF_vars(OwnStep(p))

-----------------------------------------------------------------------------
ProcRecords ==
  [pc : Labels, op : Ops, job : Jobs \union {"none"}, copy : FlashJobs,
   chunk : Chunks, todo : SUBSET Chunks, ctx : {"live", "ended"}]

\* Types of the repository, of the goroutines' local variables and of the
\* device's history.
TypeOK ==
  /\ store \in [Jobs -> FlashJobs]
  /\ issued \subseteq Jobs
  /\ proc \in [Procs -> ProcRecords]
  /\ \A p \in Procs : ~At(p, "idle") => proc[p].job \in Jobs
  /\ began \subseteq Jobs
  /\ acked \in [Jobs -> SUBSET Chunks]
  /\ updateDone \subseteq Jobs

\* However the goroutines' saves overwrite one another, a chunk that the record
\* shows as transferred is one the device acknowledged
\* (MarkFlashChunkTransferred runs only after the transport's SendFlashChunk).
TransferredWasAcked ==
  \A j \in Jobs : store[j].flags \subseteq acked[j]

\* The counter that decides when a job is complete counts exactly the chunks
\* flagged as transferred, in every record that reaches the repository, also
\* when a chunk is sent twice by the pump and a retry.
CounterMatchesFlags ==
  \A j \in Jobs : store[j].transferred = Cardinality(store[j].flags)

\* A job is reported completed only when the device has acknowledged every
\* chunk of the image.
CompletedMeansDelivered ==
  \A j \in Jobs : store[j].status = "completed" => acked[j] = Chunks

\* UpdateDone, on which the device reboots into the new image, is sent only
\* after every chunk of the job was acknowledged.
UpdateDoneAfterAllChunks ==
  \A j \in updateDone : acked[j] = Chunks

\* What every record of a job satisfies, stored or held by a goroutine.
Sound(j, r) ==
  /\ r.flags \subseteq acked[j]
  /\ r.transferred = Cardinality(r.flags)
  /\ r.status = "completed" => r.flags = Chunks

\* The inductive form of the four properties above: they hold of the records
\* that goroutines hold, and still may save, as well as of the stored ones; a
\* goroutine about to mark a chunk has its acknowledgement, and one about to
\* complete a job or to send UpdateDone holds a record with every flag set.
FlashInv ==
  /\ TypeOK
  /\ \A j \in Jobs : Sound(j, store[j])
  /\ \A p \in Procs :
       ~At(p, "idle") =>
         /\ Sound(proc[p].job, proc[p].copy)
         /\ At(p, "reload") => proc[p].chunk \in acked[proc[p].job]
         /\ proc[p].pc \in {"finish", "updateDone"} => proc[p].copy.flags = Chunks
  /\ UpdateDoneAfterAllChunks

\* Chunks are acknowledged only for a job whose UpdateBegin the device accepted,
\* as long as the device reports no missed chunks: RetryMissedFlashChunks also
\* takes a job that is still queued.
ChunksAfterBegin ==
  \A j \in Jobs : acked[j] # {} => j \in began

\* Once no goroutine works for the device any more, no job is left queued or
\* running: nothing resumes such a job, and it blocks the deletion of its
\* firmware and the next automatic update (hasActiveFlashJobForFirmware,
\* hasFlashJobForDevice).
QuiescentJobsSettled ==
  (\A p \in Procs : At(p, "idle"))
    => \A j \in Jobs : store[j].status \notin {"queued", "running"}

\* A failed job stays failed: neither the pump nor a retry brings back a job
\* that AbortDeviceFlash or a transport error has ended.
FailedStaysFailed ==
  [][\A j \in Jobs : store[j].status = "failed" => store'[j].status = "failed"]_vars

Exchanging(p) == proc[p].pc \in {"begin", "send", "updateDone"}

\* Once the device stops signalling, every flash operation returns, or one of its
\* exchanges with the device never ends: lost updates make the pump send chunks again,
\* never forever, and whatever fails or is settled meanwhile leaves no goroutine behind.
FlashReturns ==
  <>[][\A p \in Procs : ~Signal(p)]_vars
    => \A p \in Procs :
         ~At(p, "idle") ~> At(p, "idle") \/ []Exchanging(p)
=============================================================================
