--------------------------- MODULE FlashJobProofs ---------------------------
(***************************************************************************)
(* The safety of flash jobs for any number of jobs, goroutines and chunks, *)
(* any request of the device and any faults.                               *)
(***************************************************************************)
EXTENDS FlashJob, FiniteSetTheorems, TLAPS

-----------------------------------------------------------------------------
(* Chunks and job records *)

\* The image has exactly ChunkCount chunks.
LEMMA ChunksFinite ==
  IsFiniteSet(Chunks) /\ Cardinality(Chunks) = ChunkCount
<1>1. 0 \in Int /\ ChunkCount - 1 \in Int /\ ~(0 > ChunkCount - 1)
  BY ChunkCountAssumption
<1>2. QED
  BY <1>1, FS_Interval, ChunkCountAssumption DEF Chunks

\* A set of chunks as large as the image is the image: this is what lets the
\* counter of MarkFlashChunkTransferred decide that a job is complete.
LEMMA FullFlags ==
  ASSUME NEW F \in SUBSET Chunks, Cardinality(F) >= ChunkCount
  PROVE  F = Chunks
<1>1. Cardinality(F) <= Cardinality(Chunks)
  BY ChunksFinite, FS_Subset
<1>2. Cardinality(F) \in Nat
  BY ChunksFinite, FS_Subset, FS_CardinalityType
<1>3. Cardinality(F) = Cardinality(Chunks)
  BY <1>1, <1>2, ChunksFinite, ChunkCountAssumption
<1>4. QED
  BY <1>3, ChunksFinite, FS_Subset

\* MarkFlashChunkTransferred keeps a record well formed and its counter exact.
LEMMA TransferredExact ==
  ASSUME NEW r \in FlashJobs, NEW c \in Chunks,
         r.transferred = Cardinality(r.flags)
  PROVE  /\ Transferred(r, c) \in FlashJobs
         /\ Transferred(r, c).transferred = Cardinality(Transferred(r, c).flags)
<1>1. IsFiniteSet(r.flags)
  BY ChunksFinite, FS_Subset DEF FlashJobs
<1>2. Cardinality(r.flags \union {c}) =
        IF c \in r.flags THEN Cardinality(r.flags) ELSE Cardinality(r.flags) + 1
  BY <1>1, FS_AddElement
<1>3. QED
  BY <1>2 DEF Transferred, FlashJobs, Status

\* The operations on records keep them well formed.
LEMMA RecordTypes ==
  ASSUME NEW r \in FlashJobs
  PROVE  /\ Running(r) \in FlashJobs
         /\ Failed(r) \in FlashJobs
         /\ Completed(r) \in FlashJobs
         /\ NewJob \in FlashJobs
         /\ NoJob \in FlashJobs
BY ChunkCountAssumption
   DEF Running, Failed, Completed, NewJob, NoJob, FlashJobs, Status

\* A goroutine between operations has a well-formed record.
LEMMA IdleProcType == IdleProc \in ProcRecords
BY ChunkCountAssumption
   DEF IdleProc, ProcRecords, Labels, Ops, NoJob, FlashJobs, Status, Chunks

-----------------------------------------------------------------------------
(* One goroutine *)

\* What the invariant says of one goroutine, as a predicate of its record.
Good(w) ==
  /\ w \in ProcRecords
  /\ w.pc # "idle" =>
       /\ w.job \in Jobs
       /\ Sound(w.job, w.copy)
       /\ w.pc = "reload" => w.chunk \in acked[w.job]
       /\ w.pc \in {"finish", "updateDone"} => w.copy.flags = Chunks

\* A goroutine's step that only adds acknowledgements keeps the invariant
\* if it leaves sound records in the repository and in its own hands: what the
\* other goroutines hold stays sound because acknowledgements are never undone.
LEMMA OneProcStep ==
  ASSUME FlashInv, NEW p \in Procs,
         store' \in [Jobs -> FlashJobs],
         issued' \subseteq Jobs,
         began' \subseteq Jobs, updateDone' \subseteq Jobs,
         acked' \in [Jobs -> SUBSET Chunks],
         \A j \in Jobs : acked[j] \subseteq acked'[j],
         \A j \in Jobs : Sound(j, store[j])',
         UpdateDoneAfterAllChunks',
         proc' = [proc EXCEPT ![p] = proc'[p]],
         Good(proc[p])'
  PROVE  FlashInv'
<1>1. proc \in [Procs -> ProcRecords]
  BY DEF FlashInv, TypeOK
<1>2. ASSUME NEW q \in Procs PROVE Good(proc[q])'
  <2>1. CASE q = p
    BY <2>1
  <2>2. CASE q # p
    <3>1. proc'[q] = proc[q]
      BY <1>1, <2>2
    <3>2. Good(proc[q])
      BY DEF FlashInv, TypeOK, Good, At
    <3>3. QED
      BY <3>1, <3>2 DEF Good, Sound
  <2>3. QED
    BY <2>1, <2>2
<1>3. proc' \in [Procs -> ProcRecords]
  BY <1>1, <1>2 DEF Good
<1>4. TypeOK'
  BY <1>2, <1>3 DEF TypeOK, Good, At
<1>5. QED
  BY <1>2, <1>4 DEF FlashInv, Good, At

\* The invariant read for one goroutine.
LEMMA ProcFacts ==
  ASSUME FlashInv, NEW p \in Procs
  PROVE  /\ Good(proc[p])
         /\ proc \in [Procs -> ProcRecords]
         /\ proc[p].pc # "idle" =>
              /\ proc[p].job \in Jobs
              /\ proc[p].copy \in FlashJobs
              /\ Sound(proc[p].job, store[proc[p].job])
              /\ store[proc[p].job] \in FlashJobs
BY DEF FlashInv, TypeOK, Good, At, ProcRecords

\* Saving a sound record keeps the repository sound.
LEMMA SaveSound ==
  ASSUME FlashInv, NEW j \in Jobs, NEW r \in FlashJobs, Sound(j, r),
         store' = [store EXCEPT ![j] = r], UNCHANGED acked
  PROVE  /\ store' \in [Jobs -> FlashJobs]
         /\ \A i \in Jobs : Sound(i, store[i])'
BY DEF FlashInv, TypeOK, Sound

\* The operations on records keep them sound.
LEMMA RecordsSound ==
  ASSUME NEW j \in Jobs, NEW r \in FlashJobs, Sound(j, r)
  PROVE  /\ Sound(j, Running(r))
         /\ Sound(j, Failed(r))
         /\ r.flags = Chunks => Sound(j, Completed(r))
         /\ \A c \in Chunks \intersect acked[j] : Sound(j, Transferred(r, c))
<1>1. Sound(j, Running(r)) /\ Sound(j, Failed(r))
  BY DEF Sound, Running, Failed
<1>2. r.flags = Chunks => Sound(j, Completed(r))
  BY ChunksFinite DEF Sound, Completed
<1>3. ASSUME NEW c \in Chunks \intersect acked[j]
      PROVE  Sound(j, Transferred(r, c))
  <2>1. Transferred(r, c).transferred = Cardinality(Transferred(r, c).flags)
    BY TransferredExact DEF Sound
  <2>2. Transferred(r, c).flags \subseteq acked[j]
    BY DEF Sound, Transferred
  <2>3. Transferred(r, c).status = "completed" => Transferred(r, c).flags = Chunks
    BY DEF Sound, Transferred, FlashJobs
  <2>4. QED
    BY <2>1, <2>2, <2>3 DEF Sound
<1>4. QED
  BY <1>1, <1>2, <1>3

-----------------------------------------------------------------------------
(* The shapes of a goroutine's step *)

\* A step that changes nothing but the goroutine itself.
LEMMA QuietStep ==
  ASSUME FlashInv, NEW p \in Procs, UNCHANGED <<store, issued, device>>,
         proc' = [proc EXCEPT ![p] = proc'[p]], Good(proc[p])'
  PROVE  FlashInv'
BY OneProcStep DEF FlashInv, TypeOK, Sound, UpdateDoneAfterAllChunks, device

\* A step that saves a sound record of the goroutine's job.
LEMMA SavingStep ==
  ASSUME FlashInv, NEW p \in Procs, proc[p].pc # "idle",
         UNCHANGED <<issued, device>>,
         NEW r \in FlashJobs, Sound(proc[p].job, r), Save(p, r),
         proc' = [proc EXCEPT ![p] = proc'[p]], Good(proc[p])'
  PROVE  FlashInv'
<1>1. store' \in [Jobs -> FlashJobs] /\ \A i \in Jobs : Sound(i, store[i])'
  BY ProcFacts, SaveSound DEF Save, device
<1>2. QED
  BY <1>1, OneProcStep DEF FlashInv, TypeOK, UpdateDoneAfterAllChunks, device

\* A goroutine that returns is good.
LEMMA ReturnGood ==
  ASSUME NEW p \in Procs, proc \in [Procs -> ProcRecords], Return(p)
  PROVE  proc' = [proc EXCEPT ![p] = proc'[p]] /\ Good(proc[p])'
<1>1. proc'[p] = IdleProc /\ proc' = [proc EXCEPT ![p] = proc'[p]]
  BY DEF Return
<1>2. QED
  BY <1>1, IdleProcType DEF Good, IdleProc

\* A goroutine that moves on with a sound copy stays good.
LEMMA GotoWithGood ==
  ASSUME FlashInv, NEW p \in Procs, proc[p].pc # "idle",
         NEW label \in Labels \ {"idle"},
         NEW r \in FlashJobs, Sound(proc[p].job, r),
         label = "reload" => proc[p].chunk \in acked[proc[p].job],
         label \in {"finish", "updateDone"} => r.flags = Chunks,
         GotoWith(p, label, r), UNCHANGED acked
  PROVE  proc' = [proc EXCEPT ![p] = proc'[p]] /\ Good(proc[p])'
<1>0. proc \in [Procs -> ProcRecords]
  BY ProcFacts
<1>1. /\ proc' = [proc EXCEPT ![p] = proc'[p]]
      /\ proc'[p] = [pc |-> label, op |-> proc[p].op, job |-> proc[p].job, copy |-> r,
                     chunk |-> proc[p].chunk, todo |-> proc[p].todo, ctx |-> proc[p].ctx]
  BY <1>0, Zenon DEF GotoWith, ProcRecords
<1>2. /\ proc'[p].pc = label
      /\ proc'[p].copy = r
      /\ proc'[p].job = proc[p].job
      /\ proc'[p].chunk = proc[p].chunk
      /\ proc'[p] \in ProcRecords
  BY <1>1, ProcFacts DEF ProcRecords
<1>3. QED
  BY <1>1, <1>2, ProcFacts DEF Good, Sound

\* A goroutine that moves on with the copy it has stays good.
LEMMA GotoGood ==
  ASSUME FlashInv, NEW p \in Procs, proc[p].pc # "idle",
         NEW label \in Labels \ {"idle"},
         label = "reload" => proc[p].chunk \in acked[proc[p].job],
         label \in {"finish", "updateDone"} => proc[p].copy.flags = Chunks,
         Goto(p, label), UNCHANGED acked
  PROVE  proc' = [proc EXCEPT ![p] = proc'[p]] /\ Good(proc[p])'
<1>0. proc \in [Procs -> ProcRecords]
  BY ProcFacts
<1>1. /\ proc' = [proc EXCEPT ![p] = proc'[p]]
      /\ proc'[p] = [pc |-> label, op |-> proc[p].op, job |-> proc[p].job,
                     copy |-> proc[p].copy, chunk |-> proc[p].chunk,
                     todo |-> proc[p].todo, ctx |-> proc[p].ctx]
  BY <1>0, Zenon DEF Goto, ProcRecords
<1>2. /\ proc'[p].pc = label
      /\ proc'[p].copy = proc[p].copy
      /\ proc'[p].job = proc[p].job
      /\ proc'[p].chunk = proc[p].chunk
      /\ proc'[p] \in ProcRecords
  BY <1>1, ProcFacts DEF ProcRecords
<1>3. QED
  BY <1>1, <1>2, ProcFacts DEF Good, Sound

-----------------------------------------------------------------------------
(* The actions, one lemma for each *)

\* StartDeviceFlash: the new record has no flag set.
LEMMA StartDeviceFlashInv ==
  ASSUME FlashInv, NEW p \in Procs, NEW j \in Jobs, StartDeviceFlash(p, j)
  PROVE  FlashInv'
<1>1. Sound(j, NewJob)'
  BY FS_EmptySet DEF Sound, NewJob
<1>2. NewJob \in FlashJobs
  BY DEF NewJob, FlashJobs, Status
<1>3. /\ proc' = [proc EXCEPT ![p] = proc'[p]]
      /\ proc'[p] = [pc |-> "create", op |-> "pump", job |-> j, copy |-> NewJob,
                     chunk |-> 0, todo |-> {}, ctx |-> "live"]
  BY ProcFacts, Zenon DEF StartDeviceFlash, IdleProc
<1>4. /\ proc'[p] \in ProcRecords
      /\ proc'[p].pc = "create"
      /\ proc'[p].job = j
      /\ proc'[p].copy = NewJob
  BY <1>2, <1>3, ChunkCountAssumption DEF IdleProc, ProcRecords, Labels, Ops, Chunks
<1>5. Good(proc[p])'
  BY <1>1, <1>4 DEF Good, StartDeviceFlash
<1>6. QED
  BY <1>3, <1>5, OneProcStep
     DEF StartDeviceFlash, FlashInv, TypeOK, Sound, UpdateDoneAfterAllChunks, device

\* Creating the job saves the copy the goroutine holds.
LEMMA CreateFlashJobInv ==
  ASSUME FlashInv, NEW p \in Procs, CreateFlashJob(p)
  PROVE  FlashInv'
<1>1. proc[p].pc = "create" /\ UNCHANGED <<issued, device>>
  BY DEF CreateFlashJob, At
<1>2. CASE Return(p) /\ UNCHANGED store
  BY <1>1, <1>2, ProcFacts, ReturnGood, QuietStep
<1>3. CASE Save(p, proc[p].copy) /\ Goto(p, "begin")
  <2>1. proc' = [proc EXCEPT ![p] = proc'[p]] /\ Good(proc[p])'
    BY <1>1, <1>3, GotoGood DEF Labels, device
  <2>2. QED
    BY <1>1, <1>3, <2>1, ProcFacts, SavingStep DEF Good
<1>4. QED
  BY <1>2, <1>3 DEF CreateFlashJob

\* BeginFlash touches no record and no acknowledgement.
LEMMA BeginFlashInv ==
  ASSUME FlashInv, NEW p \in Procs, BeginFlash(p)
  PROVE  FlashInv'
<1>1. /\ proc[p].pc = "begin"
      /\ UNCHANGED <<store, issued, acked, updateDone>>
      /\ \E label \in {"markBegun", "fail"} : Goto(p, label)
      /\ began' = began \/ began' = began \union {proc[p].job}
  BY DEF BeginFlash, At
<1>2. proc' = [proc EXCEPT ![p] = proc'[p]] /\ Good(proc[p])'
  BY <1>1, GotoGood DEF Labels
<1>3. began' \subseteq Jobs
  BY <1>1, ProcFacts DEF FlashInv, TypeOK
<1>4. QED
  BY <1>1, <1>2, <1>3, OneProcStep DEF FlashInv, TypeOK, Sound, UpdateDoneAfterAllChunks

\* markFlashJobRunning saves the goroutine's copy, stale or not, which is sound.
LEMMA MarkFlashJobRunningInv ==
  ASSUME FlashInv, NEW p \in Procs, MarkFlashJobRunning(p)
  PROVE  FlashInv'
<1>1. proc[p].pc \in {"markBegun", "markQueued"} /\ UNCHANGED <<issued, device>>
  BY DEF MarkFlashJobRunning
<1>2. CASE Return(p) /\ UNCHANGED store
  BY <1>1, <1>2, ProcFacts, ReturnGood, QuietStep
<1>3. CASE /\ Save(p, Running(proc[p].copy))
           /\ GotoWith(p, IF At(p, "markBegun") THEN "next" ELSE "send",
                       Running(proc[p].copy))
  <2>1. Running(proc[p].copy) \in FlashJobs /\ Sound(proc[p].job, Running(proc[p].copy))
    BY <1>1, ProcFacts, RecordTypes, RecordsSound DEF Good
  <2>2. PICK label \in {"next", "send"} : GotoWith(p, label, Running(proc[p].copy))
    BY <1>3
  <2>3. proc' = [proc EXCEPT ![p] = proc'[p]] /\ Good(proc[p])'
    BY <1>1, <2>1, <2>2, GotoWithGood DEF Labels, device
  <2>4. QED
    BY <1>1, <1>3, <2>1, <2>3, SavingStep
<1>4. QED
  BY <1>2, <1>3 DEF MarkFlashJobRunning

\* SendNextFlashChunk goes on to completion only with every flag set.
LEMMA SendNextFlashChunkInv ==
  ASSUME FlashInv, NEW p \in Procs, SendNextFlashChunk(p)
  PROVE  FlashInv'
<1>1. proc[p].pc = "next" /\ UNCHANGED <<store, issued, device>>
  BY DEF SendNextFlashChunk, At
<1>2. CASE Return(p)
  BY <1>1, <1>2, ProcFacts, ReturnGood, QuietStep
<1>3. CASE /\ Chunks \ store[proc[p].job].flags = {}
           /\ GotoWith(p, "finish", store[proc[p].job])
  <2>1. store[proc[p].job].flags = Chunks
    BY <1>1, <1>3, ProcFacts DEF FlashJobs
  <2>2. proc' = [proc EXCEPT ![p] = proc'[p]] /\ Good(proc[p])'
    BY <1>1, <1>3, <2>1, ProcFacts, GotoWithGood DEF Labels, device
  <2>3. QED
    BY <1>1, <2>2, QuietStep
<1>4. CASE \E c \in Chunks :
             proc' = [proc EXCEPT ![p] = [@ EXCEPT !.pc = "load", !.chunk = c]]
  <2>1. PICK c \in Chunks :
          proc' = [proc EXCEPT ![p] = [@ EXCEPT !.pc = "load", !.chunk = c]]
    BY <1>4
  <2>2. proc \in [Procs -> ProcRecords]
    BY ProcFacts
  <2>3. /\ proc' = [proc EXCEPT ![p] = proc'[p]]
        /\ proc'[p] = [pc |-> "load", op |-> proc[p].op, job |-> proc[p].job,
                       copy |-> proc[p].copy, chunk |-> c, todo |-> proc[p].todo,
                       ctx |-> proc[p].ctx]
    BY <2>1, <2>2, Zenon DEF ProcRecords
  <2>4. Good(proc[p])'
    BY <1>1, <2>2, <2>3, ProcFacts DEF Good, Sound, ProcRecords, Labels, device
  <2>5. QED
    BY <1>1, <2>3, <2>4, QuietStep
<1>5. QED
  BY <1>2, <1>3, <1>4 DEF SendNextFlashChunk

\* Completing from SendNextFlashChunk: the copy has every flag set.
LEMMA FinishFlashJobInv ==
  ASSUME FlashInv, NEW p \in Procs, FinishFlashJob(p)
  PROVE  FlashInv'
<1>1. proc[p].pc = "finish" /\ Return(p) /\ UNCHANGED <<issued, device>>
  BY DEF FinishFlashJob, At
<1>2. proc' = [proc EXCEPT ![p] = proc'[p]] /\ Good(proc[p])'
  BY <1>1, ProcFacts, ReturnGood
<1>3. CASE UNCHANGED store
  BY <1>1, <1>2, <1>3, QuietStep
<1>4. CASE Save(p, Completed(proc[p].copy))
  <2>1. Completed(proc[p].copy) \in FlashJobs /\ Sound(proc[p].job, Completed(proc[p].copy))
    BY <1>1, ProcFacts, RecordTypes, RecordsSound DEF Good
  <2>2. QED
    BY <1>1, <1>2, <1>4, <2>1, SavingStep
<1>5. QED
  BY <1>3, <1>4 DEF FinishFlashJob

\* SendFlashChunk's load takes a sound copy from the repository.
LEMMA LoadFlashChunkInv ==
  ASSUME FlashInv, NEW p \in Procs, LoadFlashChunk(p)
  PROVE  FlashInv'
<1>1. proc[p].pc = "load" /\ UNCHANGED <<store, issued, device>>
  BY DEF LoadFlashChunk, At
<1>2. CASE Return(p)
  BY <1>1, <1>2, ProcFacts, ReturnGood, QuietStep
<1>3. CASE \E label \in {"markQueued", "send"} : GotoWith(p, label, store[proc[p].job])
  <2>1. proc' = [proc EXCEPT ![p] = proc'[p]] /\ Good(proc[p])'
    BY <1>1, <1>3, ProcFacts, GotoWithGood DEF Labels, device
  <2>2. QED
    BY <1>1, <2>1, QuietStep
<1>4. QED
  BY <1>2, <1>3 DEF LoadFlashChunk

\* An acknowledged chunk only adds to the acknowledgements.
LEMMA SendFlashChunkInv ==
  ASSUME FlashInv, NEW p \in Procs, SendFlashChunk(p)
  PROVE  FlashInv'
<1>1. proc[p].pc = "send" /\ UNCHANGED <<store, issued, began, updateDone>>
  BY DEF SendFlashChunk, At
<1>2. CASE Goto(p, "fail") /\ UNCHANGED acked
  <2>1. proc' = [proc EXCEPT ![p] = proc'[p]] /\ Good(proc[p])'
    BY <1>1, <1>2, GotoGood DEF Labels
  <2>2. QED
    BY <1>1, <1>2, <2>1, QuietStep DEF device
<1>3. CASE /\ acked' = [acked EXCEPT ![proc[p].job] = @ \union {proc[p].chunk}]
           /\ Goto(p, "reload")
  <2>1. /\ acked \in [Jobs -> SUBSET Chunks]
        /\ proc[p].job \in Jobs
        /\ proc[p].chunk \in Chunks
    BY <1>1, ProcFacts DEF FlashInv, TypeOK, Good, ProcRecords
  <2>2. /\ acked' \in [Jobs -> SUBSET Chunks]
        /\ \A j \in Jobs : acked[j] \subseteq acked'[j]
        /\ proc[p].chunk \in acked'[proc[p].job]
    BY <1>3, <2>1
  <2>3. proc \in [Procs -> ProcRecords]
    BY ProcFacts
  <2>4. /\ proc' = [proc EXCEPT ![p] = proc'[p]]
        /\ proc'[p] = [pc |-> "reload", op |-> proc[p].op, job |-> proc[p].job,
                       copy |-> proc[p].copy, chunk |-> proc[p].chunk,
                       todo |-> proc[p].todo, ctx |-> proc[p].ctx]
    BY <1>3, <2>3, Zenon DEF Goto, ProcRecords
  <2>5. Good(proc[p])'
    BY <1>1, <2>1, <2>2, <2>3, <2>4, ProcFacts DEF Good, Sound, ProcRecords, Labels
  <2>6. \A j \in Jobs : Sound(j, store[j])'
    BY <1>1, <2>2 DEF FlashInv, Sound
  <2>7. ASSUME NEW j \in updateDone PROVE acked'[j] = Chunks
    <3>1. j \in Jobs /\ acked[j] = Chunks
      BY DEF FlashInv, TypeOK, UpdateDoneAfterAllChunks
    <3>2. acked'[j] \in SUBSET Chunks /\ acked[j] \subseteq acked'[j]
      BY <2>2, <3>1
    <3>3. QED
      BY <3>1, <3>2
  <2>8. UpdateDoneAfterAllChunks'
    BY <1>1, <2>7 DEF UpdateDoneAfterAllChunks
  <2>9. QED
    BY <1>1, <2>2, <2>4, <2>5, <2>6, <2>8, OneProcStep DEF FlashInv, TypeOK
<1>4. QED
  BY <1>2, <1>3 DEF SendFlashChunk

\* Marking a chunk whose acknowledgement the goroutine has keeps the copy sound.
LEMMA ReloadFlashJobInv ==
  ASSUME FlashInv, NEW p \in Procs, ReloadFlashJob(p)
  PROVE  FlashInv'
<1>1. proc[p].pc = "reload" /\ UNCHANGED <<store, issued, device>>
  BY DEF ReloadFlashJob, At
<1>2. CASE Return(p)
  BY <1>1, <1>2, ProcFacts, ReturnGood, QuietStep
<1>3. CASE GotoWith(p, "save", Transferred(store[proc[p].job], proc[p].chunk))
  <2>1. proc[p].chunk \in Chunks \intersect acked[proc[p].job]
    BY <1>1, ProcFacts DEF Good, ProcRecords
  <2>2. /\ Transferred(store[proc[p].job], proc[p].chunk) \in FlashJobs
        /\ Sound(proc[p].job, Transferred(store[proc[p].job], proc[p].chunk))
    BY <1>1, <2>1, ProcFacts, TransferredExact, RecordsSound DEF Sound
  <2>3. proc' = [proc EXCEPT ![p] = proc'[p]] /\ Good(proc[p])'
    BY <1>1, <1>3, <2>2, GotoWithGood DEF Labels, device
  <2>4. QED
    BY <1>1, <2>3, QuietStep
<1>4. QED
  BY <1>2, <1>3 DEF ReloadFlashJob

\* The end of SendFlashChunk: the goroutine returns or goes on to the next chunk.
LEMMA ContinueGood ==
  ASSUME FlashInv, NEW p \in Procs, proc[p].pc # "idle", NEW r,
         Continue(p, AfterChunk(p, r)), UNCHANGED acked
  PROVE  proc' = [proc EXCEPT ![p] = proc'[p]] /\ Good(proc[p])'
<1>1. Return(p) \/ \E label \in {"retry", "next"} : Goto(p, label)
  BY DEF Continue, AfterChunk
<1>2. QED
  BY <1>1, ProcFacts, ReturnGood, GotoGood DEF Labels

\* MarkFlashChunkTransferred: the counter reaches ChunkCount only with every flag.
LEMMA MarkFlashChunkTransferredInv ==
  ASSUME FlashInv, NEW p \in Procs, MarkFlashChunkTransferred(p)
  PROVE  FlashInv'
<1> DEFINE r == proc[p].copy
<1>1. proc[p].pc = "save" /\ UNCHANGED <<issued, device>>
  BY DEF MarkFlashChunkTransferred, MarkTransferred, At
<1>2. r \in FlashJobs /\ Sound(proc[p].job, r)
  BY <1>1, ProcFacts DEF Good
<1>3. CASE Return(p) /\ UNCHANGED store
  BY <1>1, <1>3, ProcFacts, ReturnGood, QuietStep
<1>4. CASE /\ r.transferred >= ChunkCount
           /\ Save(p, Completed(r))
           /\ GotoWith(p, "updateDone", Completed(r))
  <2>1. r.flags = Chunks
    BY <1>2, <1>4, FullFlags DEF Sound, FlashJobs
  <2>2. Completed(r) \in FlashJobs /\ Sound(proc[p].job, Completed(r))
    BY <1>1, <1>2, <2>1, ProcFacts, RecordTypes, RecordsSound
  <2>3. Completed(r).flags = Chunks
    BY DEF Completed
  <2>4. proc' = [proc EXCEPT ![p] = proc'[p]] /\ Good(proc[p])'
    BY <1>1, <1>4, <2>2, <2>3, GotoWithGood DEF Labels, device
  <2>5. QED
    BY <1>1, <1>4, <2>2, <2>4, SavingStep
<1>5. CASE Save(p, r) /\ Continue(p, AfterChunk(p, r))
  <2>1. proc' = [proc EXCEPT ![p] = proc'[p]] /\ Good(proc[p])'
    BY <1>1, <1>5, ContinueGood DEF device
  <2>2. QED
    BY <1>1, <1>2, <1>5, <2>1, SavingStep
<1>6. QED
  BY <1>3, <1>4, <1>5 DEF MarkFlashChunkTransferred, MarkTransferred

\* UpdateDone goes out with a copy that has every flag set.
LEMMA CompleteDeviceFlashInv ==
  ASSUME FlashInv, NEW p \in Procs, CompleteDeviceFlash(p)
  PROVE  FlashInv'
<1>1. proc[p].pc = "updateDone" /\ UNCHANGED <<store, issued, began, acked>>
  BY DEF CompleteDeviceFlash, At
<1>2. CASE Goto(p, "fail") /\ UNCHANGED updateDone
  <2>1. proc' = [proc EXCEPT ![p] = proc'[p]] /\ Good(proc[p])'
    BY <1>1, <1>2, GotoGood DEF Labels
  <2>2. QED
    BY <1>1, <1>2, <2>1, QuietStep DEF device
<1>3. CASE /\ updateDone' = updateDone \union {proc[p].job}
           /\ Continue(p, AfterChunk(p, proc[p].copy))
  <2>1. proc[p].job \in Jobs /\ acked[proc[p].job] = Chunks
    <3>1. proc[p].job \in Jobs /\ proc[p].copy.flags = Chunks
      BY <1>1, ProcFacts DEF Good
    <3>2. Chunks \subseteq acked[proc[p].job]
      BY <1>1, <3>1, ProcFacts DEF Good, Sound
    <3>3. acked[proc[p].job] \in SUBSET Chunks
      BY <3>1 DEF FlashInv, TypeOK
    <3>4. QED
      BY <3>1, <3>2, <3>3
  <2>2. proc' = [proc EXCEPT ![p] = proc'[p]] /\ Good(proc[p])'
    BY <1>1, <1>3, ContinueGood
  <2>3. QED
    BY <1>1, <1>3, <2>1, <2>2, OneProcStep
       DEF FlashInv, TypeOK, Sound, UpdateDoneAfterAllChunks
<1>4. QED
  BY <1>2, <1>3 DEF CompleteDeviceFlash

\* failFlashJob saves the goroutine's copy as failed.
LEMMA FailFlashJobInv ==
  ASSUME FlashInv, NEW p \in Procs, FailFlashJob(p)
  PROVE  FlashInv'
<1>1. proc[p].pc = "fail" /\ Return(p) /\ UNCHANGED <<issued, device>>
  BY DEF FailFlashJob, At
<1>2. proc' = [proc EXCEPT ![p] = proc'[p]] /\ Good(proc[p])'
  BY <1>1, ProcFacts, ReturnGood
<1>3. CASE UNCHANGED store
  BY <1>1, <1>2, <1>3, QuietStep
<1>4. CASE Save(p, Failed(proc[p].copy))
  <2>1. Failed(proc[p].copy) \in FlashJobs /\ Sound(proc[p].job, Failed(proc[p].copy))
    BY <1>1, ProcFacts, RecordTypes, RecordsSound DEF Good
  <2>2. QED
    BY <1>1, <1>2, <1>4, <2>1, SavingStep
<1>5. QED
  BY <1>3, <1>4 DEF FailFlashJob

\* A goroutine started by a device signal, with the job it found.
LEMMA SignalInv ==
  ASSUME FlashInv, NEW p \in Procs, NEW j \in ActiveFlashJobForDevice,
         NEW label \in {"fail", "retry"}, NEW op \in Ops, NEW T \in SUBSET Chunks,
         proc' = [proc EXCEPT ![p] = SignalProc(op, label, j, T)],
         UNCHANGED <<store, issued, device>>
  PROVE  FlashInv'
<1>1. j \in Jobs /\ store[j] \in FlashJobs /\ Sound(j, store[j])
  BY DEF ActiveFlashJobForDevice, FlashInv, TypeOK
<1>2. /\ proc' = [proc EXCEPT ![p] = proc'[p]]
      /\ proc'[p] = SignalProc(op, label, j, T)
  BY ProcFacts
<1>3. proc'[p] \in ProcRecords
  BY <1>1, <1>2, ChunkCountAssumption DEF SignalProc, ProcRecords, Labels, Chunks
<1>4. Good(proc[p])'
  BY <1>1, <1>2, <1>3 DEF SignalProc, Good, Sound, device
<1>5. QED
  BY <1>2, <1>4, QuietStep

\* RetryMissedFlashChunks takes valid indexes and a stored record.
LEMMA RetryMissedFlashChunksInv ==
  ASSUME FlashInv, NEW p \in Procs, NEW request, RetryMissedFlashChunks(p, request)
  PROVE  FlashInv'
<1>1. UniqueValidChunkIndexes(request) \in SUBSET Chunks
  BY DEF UniqueValidChunkIndexes
<1>2. UNCHANGED <<store, issued, device>>
  BY DEF RetryMissedFlashChunks
<1>3. PICK j \in ActiveFlashJobForDevice, label \in {"fail", "retry"}, T \in SUBSET Chunks :
        proc' = [proc EXCEPT ![p] = SignalProc("retry", label, j, T)]
  BY <1>1 DEF RetryMissedFlashChunks
<1>4. QED
  BY <1>2, <1>3, SignalInv DEF Ops

\* The retry loop picks one of the indexes left.
LEMMA RetryNextInv ==
  ASSUME FlashInv, NEW p \in Procs, RetryNext(p)
  PROVE  FlashInv'
<1>1. proc[p].pc = "retry" /\ UNCHANGED <<store, issued, device>>
  BY DEF RetryNext, At
<1>2. CASE Return(p)
  BY <1>1, <1>2, ProcFacts, ReturnGood, QuietStep
<1>3. CASE \E c \in proc[p].todo :
             proc' = [proc EXCEPT ![p] =
                        [@ EXCEPT !.pc = "load", !.chunk = c, !.todo = proc[p].todo \ {c}]]
  <2>1. PICK c \in proc[p].todo :
             proc' = [proc EXCEPT ![p] =
                        [@ EXCEPT !.pc = "load", !.chunk = c, !.todo = proc[p].todo \ {c}]]
    BY <1>3
  <2>2. proc \in [Procs -> ProcRecords]
    BY ProcFacts
  <2>3. /\ proc' = [proc EXCEPT ![p] = proc'[p]]
        /\ proc'[p] = [pc |-> "load", op |-> proc[p].op, job |-> proc[p].job,
                       copy |-> proc[p].copy, chunk |-> c, todo |-> proc[p].todo \ {c},
                       ctx |-> proc[p].ctx]
    BY <2>1, <2>2, Zenon DEF ProcRecords
  <2>4. Good(proc[p])'
    BY <1>1, <2>2, <2>3, ProcFacts DEF Good, Sound, ProcRecords, Labels, device
  <2>5. QED
    BY <1>1, <2>3, <2>4, QuietStep
<1>4. QED
  BY <1>2, <1>3 DEF RetryNext

\* AbortDeviceFlash takes a stored record.
LEMMA AbortDeviceFlashInv ==
  ASSUME FlashInv, NEW p \in Procs, AbortDeviceFlash(p)
  PROVE  FlashInv'
<1>1. UNCHANGED <<store, issued, device>>
  BY DEF AbortDeviceFlash
<1>2. PICK j \in ActiveFlashJobForDevice :
        proc' = [proc EXCEPT ![p] = SignalProc("abort", "fail", j, {})]
  BY DEF AbortDeviceFlash
<1>3. "abort" \in Ops /\ "fail" \in {"fail", "retry"} /\ {} \in SUBSET Chunks
  BY DEF Ops
<1>4. QED
  BY <1>1, <1>2, <1>3, SignalInv

\* A context that ends changes nothing else.
LEMMA CancelInv ==
  ASSUME FlashInv, NEW p \in Procs, Cancel(p)
  PROVE  FlashInv'
<1>1. proc \in [Procs -> ProcRecords]
  BY ProcFacts
<1>2. /\ proc' = [proc EXCEPT ![p] = proc'[p]]
      /\ proc'[p] = [pc |-> proc[p].pc, op |-> proc[p].op, job |-> proc[p].job,
                     copy |-> proc[p].copy, chunk |-> proc[p].chunk,
                     todo |-> proc[p].todo, ctx |-> "ended"]
  BY <1>1, Zenon DEF Cancel, ProcRecords
<1>3. UNCHANGED <<store, issued, device>>
  BY DEF Cancel
<1>4. Good(proc[p])'
  BY <1>1, <1>2, <1>3, ProcFacts DEF Good, Sound, ProcRecords, device
<1>5. QED
  BY <1>2, <1>3, <1>4, QuietStep

\* A crash leaves the repository as it is and no goroutine.
LEMMA CrashInv ==
  ASSUME FlashInv, Crash
  PROVE  FlashInv'
<1>1. \A p \in Procs : proc'[p] = IdleProc /\ proc'[p].pc = "idle"
  BY DEF Crash, IdleProc
<1>2. proc' \in [Procs -> ProcRecords]
  BY IdleProcType DEF Crash
<1>3. QED
  BY <1>1, <1>2
     DEF Crash, FlashInv, TypeOK, At, Sound, UpdateDoneAfterAllChunks, device

-----------------------------------------------------------------------------
\* The invariant holds before the first job.
LEMMA InitInv == Init => FlashInv
<1> SUFFICES ASSUME Init PROVE FlashInv
  OBVIOUS
<1>1. NoJob \in FlashJobs
  BY DEF NoJob, FlashJobs, Status
<1>2. \A p \in Procs : proc[p] = IdleProc /\ proc[p].pc = "idle"
  BY DEF Init, IdleProc
<1>3. TypeOK
  BY <1>1, <1>2, IdleProcType DEF Init, TypeOK, At
<1>4. \A j \in Jobs : Sound(j, store[j])
  BY FS_EmptySet DEF Init, Sound, NoJob
<1>5. QED
  BY <1>2, <1>3, <1>4 DEF FlashInv, At, UpdateDoneAfterAllChunks, Init

\* Every step, and every stutter, keeps the invariant.
LEMMA NextInv == FlashInv /\ [Next]_vars => FlashInv'
<1> SUFFICES ASSUME FlashInv, [Next]_vars PROVE FlashInv'
  OBVIOUS
<1>1. CASE \E p \in Procs, j \in Jobs : StartDeviceFlash(p, j)
  BY <1>1, StartDeviceFlashInv
<1>2. ASSUME NEW p \in Procs, Step(p) PROVE FlashInv'
  BY <1>2, CreateFlashJobInv, BeginFlashInv, MarkFlashJobRunningInv,
     SendNextFlashChunkInv, FinishFlashJobInv, LoadFlashChunkInv, SendFlashChunkInv,
     ReloadFlashJobInv, MarkFlashChunkTransferredInv, CompleteDeviceFlashInv,
     FailFlashJobInv, RetryNextInv DEF Step, OwnStep, Exchange
<1>3. ASSUME NEW p \in Procs, Signal(p) PROVE FlashInv'
  BY <1>3, RetryMissedFlashChunksInv, AbortDeviceFlashInv DEF Signal
<1>4. ASSUME NEW p \in Procs, Cancel(p) PROVE FlashInv'
  BY <1>4, CancelInv
<1>5. CASE Crash
  BY <1>5, CrashInv
<1>6. CASE UNCHANGED vars
  BY <1>6 DEF vars, FlashInv, TypeOK, At, Sound, UpdateDoneAfterAllChunks
<1>7. QED
  BY <1>1, <1>2, <1>3, <1>4, <1>5, <1>6 DEF Next

\* Every reachable state satisfies the inductive invariant: stored records and
\* the copies goroutines still may save are backed by acknowledgements.
THEOREM FlashInvariant == Spec => []FlashInv
BY InitInv, NextInv, PTL DEF Spec

\* The flash-job records, the goroutines' variables and the device's history keep
\* their types.
THEOREM FlashTypes == Spec => []TypeOK
<1>1. FlashInv => TypeOK
  BY DEF FlashInv
<1>2. QED
  BY <1>1, FlashInvariant, PTL

\* A chunk recorded as transferred was acknowledged by the device.
THEOREM TransferredChunksAcked == Spec => []TransferredWasAcked
<1>1. FlashInv => TransferredWasAcked
  BY DEF FlashInv, Sound, TransferredWasAcked
<1>2. QED
  BY <1>1, FlashInvariant, PTL

\* The progress counter counts exactly the chunks flagged as transferred.
THEOREM CounterExact == Spec => []CounterMatchesFlags
<1>1. FlashInv => CounterMatchesFlags
  BY DEF FlashInv, Sound, CounterMatchesFlags
<1>2. QED
  BY <1>1, FlashInvariant, PTL

\* A completed job delivered the whole image, whatever the goroutines' saves
\* overwrote on the way.
THEOREM CompletedDelivered == Spec => []CompletedMeansDelivered
<1>1. FlashInv => CompletedMeansDelivered
  <2> SUFFICES ASSUME FlashInv, NEW j \in Jobs, store[j].status = "completed"
               PROVE  acked[j] = Chunks
    BY DEF CompletedMeansDelivered
  <2>1. Chunks \subseteq acked[j]
    BY DEF FlashInv, Sound
  <2>2. acked[j] \in SUBSET Chunks
    BY DEF FlashInv, TypeOK
  <2>3. QED
    BY <2>1, <2>2
<1>2. QED
  BY <1>1, FlashInvariant, PTL

\* UpdateDone is sent only once the device has acknowledged the whole image.
THEOREM UpdateDoneSafe == Spec => []UpdateDoneAfterAllChunks
<1>1. FlashInv => UpdateDoneAfterAllChunks
  BY DEF FlashInv
<1>2. QED
  BY <1>1, FlashInvariant, PTL

-----------------------------------------------------------------------------
(* Orderly flashing: the device reports no missed chunks that are its image's *)

\* No request for missed chunks makes a goroutine send any.
NoRetries ==
  \A request \in Requests :
    Len(request) <= MaxMissed => UniqueValidChunkIndexes(request) = {}

\* Goroutine p moves to a label; the others stay, and p keeps its job unless it
\* returns.
Moves(p, label) ==
  /\ \A q \in Procs : q # p => proc'[q] = proc[q]
  /\ proc'[p].pc = label
  /\ label # "idle" =>
       /\ proc'[p].op = proc[p].op
       /\ proc'[p].job = proc[p].job
  /\ proc'[p].ctx = proc[p].ctx \/ proc'[p].ctx = "live"

\* The ways in which an action of FlashJob moves a goroutine.
LEMMA MovesBy ==
  ASSUME proc \in [Procs -> ProcRecords], NEW p \in Procs
  PROVE  /\ Return(p) => Moves(p, "idle")
         /\ \A label : Goto(p, label) => Moves(p, label)
         /\ \A label, r : GotoWith(p, label, r) => Moves(p, label)
<1>1. ASSUME Return(p) PROVE Moves(p, "idle")
  BY <1>1 DEF Return, Moves, IdleProc
<1>2. ASSUME NEW label, Goto(p, label) PROVE Moves(p, label)
  <2>1. /\ \A q \in Procs : q # p => proc'[q] = proc[q]
        /\ proc'[p] = [pc |-> label, op |-> proc[p].op, job |-> proc[p].job,
                       copy |-> proc[p].copy, chunk |-> proc[p].chunk,
                       todo |-> proc[p].todo, ctx |-> proc[p].ctx]
    BY <1>2, Zenon DEF Goto, ProcRecords
  <2>2. QED
    BY <2>1 DEF Moves
<1>3. ASSUME NEW label, NEW r, GotoWith(p, label, r) PROVE Moves(p, label)
  <2>1. /\ \A q \in Procs : q # p => proc'[q] = proc[q]
        /\ proc'[p] = [pc |-> label, op |-> proc[p].op, job |-> proc[p].job, copy |-> r,
                       chunk |-> proc[p].chunk, todo |-> proc[p].todo, ctx |-> proc[p].ctx]
    BY <1>3, Zenon DEF GotoWith, ProcRecords
  <2>2. QED
    BY <2>1 DEF Moves
<1>4. QED
  BY <1>1, <1>2, <1>3

\* SendNextFlashChunk moves on with a chunk in hand.
LEMMA SendNextMoves ==
  ASSUME proc \in [Procs -> ProcRecords], NEW p \in Procs, SendNextFlashChunk(p)
  PROVE  (Moves(p, "idle") /\ StoreFails(p)) \/ Moves(p, "finish") \/ Moves(p, "load")
<1>1. ASSUME NEW c, proc' = [proc EXCEPT ![p] = [@ EXCEPT !.pc = "load", !.chunk = c]]
      PROVE  Moves(p, "load")
  <2>1. /\ \A q \in Procs : q # p => proc'[q] = proc[q]
        /\ proc'[p] = [pc |-> "load", op |-> proc[p].op, job |-> proc[p].job,
                       copy |-> proc[p].copy, chunk |-> c,
                       todo |-> proc[p].todo, ctx |-> proc[p].ctx]
    BY <1>1, Zenon DEF ProcRecords
  <2>2. QED
    BY <2>1 DEF Moves
<1>2. QED
  BY <1>1, MovesBy DEF SendNextFlashChunk

\* A signal starts a goroutine, which without retries can only fail the job.
LEMMA SignalMoves ==
  ASSUME NoRetries, proc \in [Procs -> ProcRecords], NEW p \in Procs, Signal(p)
  PROVE  /\ proc[p].pc = "idle"
         /\ \A q \in Procs : q # p => proc'[q] = proc[q]
         /\ proc'[p].pc = "fail"
         /\ proc'[p].op \in {"retry", "abort"}
         /\ proc'[p].job \in Jobs
         /\ proc'[p].ctx = "live"
         /\ UNCHANGED <<store, issued, device>>
<1>1. ASSUME NEW op \in {"retry", "abort"}, NEW j \in Jobs,
             proc' = [proc EXCEPT ![p] = SignalProc(op, "fail", j, {})]
      PROVE  /\ \A q \in Procs : q # p => proc'[q] = proc[q]
             /\ proc'[p].pc = "fail"
             /\ proc'[p].op \in {"retry", "abort"}
             /\ proc'[p].job \in Jobs
             /\ proc'[p].ctx = "live"
  BY <1>1 DEF SignalProc
<1>2. ActiveFlashJobForDevice \subseteq Jobs
  BY DEF ActiveFlashJobForDevice
<1>3. CASE AbortDeviceFlash(p)
  BY <1>1, <1>2, <1>3 DEF AbortDeviceFlash, At
<1>4. ASSUME NEW request \in Requests, RetryMissedFlashChunks(p, request)
      PROVE  /\ proc[p].pc = "idle"
             /\ UNCHANGED <<store, issued, device>>
             /\ \E j \in Jobs :
                  proc' = [proc EXCEPT ![p] = SignalProc("retry", "fail", j, {})]
  BY <1>2, <1>4 DEF RetryMissedFlashChunks, NoRetries, At
<1>5. QED
  BY <1>1, <1>3, <1>4 DEF Signal

-----------------------------------------------------------------------------
(* Chunks after begin *)

BegunLabels ==
  {"markBegun", "next", "finish", "load", "markQueued", "send", "reload", "save",
   "updateDone"}

\* A goroutine past BeginFlash works on a job the device has begun; those that a
\* signal started only fail theirs.
OrderlyProc(w) ==
  /\ w.pc # "retry"
  /\ w.pc \notin {"idle", "fail"} => w.op = "pump"
  /\ w.pc \in BegunLabels => w.job \in began

OrderlyInv ==
  /\ \A p \in Procs : OrderlyProc(proc[p])
  /\ ChunksAfterBegin

\* What the device has begun it has begun for good.
LEMMA OrderlyMove ==
  ASSUME OrderlyInv, NEW p \in Procs, \A q \in Procs : q # p => proc'[q] = proc[q],
         began \subseteq began', ChunksAfterBegin', OrderlyProc(proc[p])'
  PROVE  OrderlyInv'
BY DEF OrderlyInv, OrderlyProc

\* A goroutine's own step keeps the order of UpdateBegin and chunks.
LEMMA StepOrderly ==
  ASSUME TypeOK, OrderlyInv, NEW p \in Procs, Step(p)
  PROVE  OrderlyInv'
<1> USE DEF OrderlyProc, BegunLabels, Moves, At
<1>0. proc \in [Procs -> ProcRecords] /\ OrderlyProc(proc[p])
  BY DEF TypeOK, OrderlyInv
<1>1. ASSUME UNCHANGED <<began, acked>>, NEW label, Moves(p, label), label # "retry",
             label \notin {"idle", "fail"} => proc[p].op = "pump",
             label \in BegunLabels => proc[p].job \in began
      PROVE  OrderlyInv'
  BY <1>1, OrderlyMove DEF OrderlyInv, ChunksAfterBegin
<1>2. ASSUME UNCHANGED <<began, acked>>, NEW r, proc[p].op = "pump",
             proc[p].job \in began, Continue(p, AfterChunk(p, r))
      PROVE  OrderlyInv'
  BY <1>0, <1>1, <1>2, MovesBy DEF Continue, AfterChunk
<1>3. CASE CreateFlashJob(p)
  BY <1>0, <1>1, <1>3, MovesBy DEF CreateFlashJob, device
<1>4. CASE BeginFlash(p)
  <2>1. CASE began' = began \union {proc[p].job} /\ Goto(p, "markBegun")
    BY <1>0, <1>4, <2>1, MovesBy, OrderlyMove DEF BeginFlash, OrderlyInv, ChunksAfterBegin
  <2>2. CASE Goto(p, "fail") /\ UNCHANGED began
    BY <1>0, <1>1, <1>4, <2>2, MovesBy DEF BeginFlash
  <2>3. QED
    BY <1>4, <2>1, <2>2 DEF BeginFlash
<1>5. CASE MarkFlashJobRunning(p)
  BY <1>0, <1>1, <1>5, MovesBy DEF MarkFlashJobRunning, device
<1>6. CASE SendNextFlashChunk(p)
  BY <1>0, <1>1, <1>6, SendNextMoves DEF SendNextFlashChunk, device
<1>7. CASE FinishFlashJob(p)
  BY <1>0, <1>1, <1>7, MovesBy DEF FinishFlashJob, device
<1>8. CASE LoadFlashChunk(p)
  BY <1>0, <1>1, <1>8, MovesBy DEF LoadFlashChunk, device
<1>9. CASE SendFlashChunk(p)
  <2>1. CASE /\ acked' = [acked EXCEPT ![proc[p].job] = @ \union {proc[p].chunk}]
             /\ Goto(p, "reload")
    <3>1. ChunksAfterBegin'
      BY <1>0, <1>9, <2>1 DEF SendFlashChunk, OrderlyInv, ChunksAfterBegin, TypeOK
    <3>2. QED
      BY <1>0, <1>9, <2>1, <3>1, MovesBy, OrderlyMove DEF SendFlashChunk
  <2>2. CASE Goto(p, "fail") /\ UNCHANGED acked
    BY <1>0, <1>1, <1>9, <2>2, MovesBy DEF SendFlashChunk
  <2>3. QED
    BY <1>9, <2>1, <2>2 DEF SendFlashChunk
<1>10. CASE ReloadFlashJob(p)
  BY <1>0, <1>1, <1>10, MovesBy DEF ReloadFlashJob, device
<1>11. CASE MarkFlashChunkTransferred(p)
  BY <1>0, <1>1, <1>2, <1>11, MovesBy DEF MarkFlashChunkTransferred, MarkTransferred, device
<1>12. CASE CompleteDeviceFlash(p)
  BY <1>0, <1>1, <1>2, <1>12, MovesBy DEF CompleteDeviceFlash
<1>13. CASE FailFlashJob(p)
  BY <1>0, <1>1, <1>13, MovesBy DEF FailFlashJob, device
<1>14. CASE RetryNext(p)
  BY <1>0, <1>14 DEF RetryNext
<1>15. QED
  BY <1>3, <1>4, <1>5, <1>6, <1>7, <1>8, <1>9, <1>10, <1>11, <1>12, <1>13, <1>14
     DEF Step, OwnStep, Exchange

\* Every step keeps it: requests, signals and faults send nothing.
LEMMA NextOrderly ==
  ASSUME NoRetries, TypeOK, OrderlyInv, [Next]_vars
  PROVE  OrderlyInv'
<1>0. proc \in [Procs -> ProcRecords]
  BY DEF TypeOK
<1>1. ASSUME NEW p \in Procs, NEW j \in Jobs, StartDeviceFlash(p, j)
      PROVE  OrderlyInv'
  <2>1. OrderlyProc(proc[p])' /\ \A q \in Procs : q # p => proc'[q] = proc[q]
    BY <1>0, <1>1 DEF StartDeviceFlash, OrderlyProc, BegunLabels, IdleProc
  <2>2. QED
    BY <1>1, <2>1, OrderlyMove DEF StartDeviceFlash, OrderlyInv, ChunksAfterBegin, device
<1>2. ASSUME NEW p \in Procs, Step(p) PROVE OrderlyInv'
  BY <1>2, StepOrderly
<1>3. ASSUME NEW p \in Procs, Signal(p) PROVE OrderlyInv'
  <2>1. OrderlyProc(proc[p])' /\ \A q \in Procs : q # p => proc'[q] = proc[q]
    BY <1>0, <1>3, SignalMoves DEF OrderlyProc, BegunLabels
  <2>2. QED
    BY <1>0, <1>3, <2>1, SignalMoves, OrderlyMove DEF OrderlyInv, ChunksAfterBegin, device
<1>4. ASSUME NEW p \in Procs, Cancel(p) PROVE OrderlyInv'
  <2>1. /\ \A q \in Procs : q # p => proc'[q] = proc[q]
        /\ proc'[p] = [pc |-> proc[p].pc, op |-> proc[p].op, job |-> proc[p].job,
                       copy |-> proc[p].copy, chunk |-> proc[p].chunk,
                       todo |-> proc[p].todo, ctx |-> "ended"]
    BY <1>0, <1>4, Zenon DEF Cancel, ProcRecords
  <2>2. OrderlyProc(proc[p])'
    BY <1>4, <2>1 DEF Cancel, OrderlyInv, OrderlyProc, device
  <2>3. QED
    BY <1>4, <2>1, <2>2, OrderlyMove DEF Cancel, OrderlyInv, ChunksAfterBegin, device
<1>5. CASE Crash
  BY <1>5 DEF Crash, OrderlyInv, OrderlyProc, BegunLabels, IdleProc, ChunksAfterBegin, device
<1>6. CASE UNCHANGED vars
  BY <1>6 DEF vars, OrderlyInv, OrderlyProc, ChunksAfterBegin
<1>7. QED
  BY <1>1, <1>2, <1>3, <1>4, <1>5, <1>6 DEF Next

\* Without missed chunks, no chunk precedes the UpdateBegin that the device accepted,
\* for any number of pumps and aborts and any faults (StartDeviceFlash).
THEOREM ChunksFollowBegin ==
  ASSUME NoRetries
  PROVE  Spec => []ChunksAfterBegin
<1>1. Init => OrderlyInv
  BY DEF Init, OrderlyInv, OrderlyProc, BegunLabels, IdleProc, ChunksAfterBegin
<1>2. TypeOK /\ OrderlyInv /\ [Next]_vars => OrderlyInv'
  BY NextOrderly
<1>3. OrderlyInv => ChunksAfterBegin
  BY DEF OrderlyInv
<1>4. QED
  BY <1>1, <1>2, <1>3, FlashTypes, PTL DEF Spec

-----------------------------------------------------------------------------
(* Settled jobs: no cancelled context, no failing disk, no crash *)

Settled(r) == r.status \notin {"queued", "running"}

Pumps(p, j) == proc[p].pc # "idle" /\ proc[p].op = "pump" /\ proc[p].job = j

\* A job that is not settled has its pump, which is the only one it will ever have,
\* and which stops only when it has settled the job or found it settled.
SettledInv ==
  /\ \A p \in Procs : proc[p].ctx = "live"
  /\ \A p \in Procs, j \in Jobs : Pumps(p, j) => j \in issued
  /\ \A p, q \in Procs, j \in Jobs : Pumps(p, j) /\ Pumps(q, j) => p = q
  /\ \A p \in Procs, j \in Jobs :
       Pumps(p, j) /\ proc[p].pc = "updateDone" => Settled(store[j])
  /\ \A j \in Jobs : ~Settled(store[j]) => \E p \in Procs : Pumps(p, j)

\* A goroutine that touches no other job than its own keeps SettledInv if the job is
\* settled when it ends, when it sends UpdateDone, and when it is not the job's pump.
LEMMA SettledMove ==
  ASSUME SettledInv, NEW p \in Procs, proc[p].pc # "idle", proc[p].job \in Jobs,
         NEW label, Moves(p, label), UNCHANGED issued,
         \A j \in Jobs : j # proc[p].job => store'[j] = store[j],
         \/ proc[p].op = "pump" /\ label \notin {"idle", "updateDone"}
         \/ Settled(store'[proc[p].job])
  PROVE  SettledInv'
<1> DEFINE i == proc[p].job
<1>1. \A q \in Procs : q # p => proc'[q] = proc[q]
  BY DEF Moves
<1>2. \A j \in Jobs : Pumps(p, j)' => Pumps(p, j)
  BY DEF Moves, Pumps
<1>3. \A q \in Procs, j \in Jobs : Pumps(q, j)' => Pumps(q, j)
  BY <1>1, <1>2 DEF Pumps
<1>4. \A q \in Procs : proc'[q].ctx = "live"
  BY <1>1 DEF SettledInv, Moves
<1>5. ASSUME NEW q \in Procs, NEW j \in Jobs, Pumps(q, j)', proc'[q].pc = "updateDone"
      PROVE  Settled(store'[j])
  <2>1. CASE Settled(store'[i])
    BY <1>1, <1>3, <1>5, <2>1 DEF SettledInv, Pumps
  <2>2. CASE proc[p].op = "pump" /\ label \notin {"idle", "updateDone"}
    <3>1. q # p
      BY <1>5, <2>2 DEF Moves
    <3>2. j # i
      BY <1>3, <1>5, <2>2, <3>1 DEF SettledInv, Pumps
    <3>3. QED
      BY <1>1, <1>3, <1>5, <3>1, <3>2 DEF SettledInv, Pumps
  <2>3. QED
    BY <2>1, <2>2
<1>6. ASSUME NEW j \in Jobs, ~Settled(store'[j])
      PROVE  \E q \in Procs : Pumps(q, j)'
  <2>1. CASE j = i
    BY <1>6, <2>1 DEF Moves, Pumps
  <2>2. CASE j # i
    <3>1. PICK q \in Procs : Pumps(q, j)
      BY <1>6, <2>2 DEF SettledInv
    <3>2. q # p
      BY <2>2, <3>1 DEF Pumps
    <3>3. QED
      BY <1>1, <3>1, <3>2 DEF Pumps
  <2>3. QED
    BY <2>1, <2>2
<1>7. QED
  BY <1>3, <1>4, <1>5, <1>6 DEF SettledInv

\* A goroutine's own step leaves no job behind when nothing fails.
LEMMA StepSettled ==
  ASSUME Faults = {}, TypeOK, OrderlyInv, SettledInv, NEW p \in Procs, Step(p)
  PROVE  SettledInv'
<1> DEFINE i == proc[p].job
<1>0. /\ proc \in [Procs -> ProcRecords] /\ OrderlyProc(proc[p])
      /\ store \in [Jobs -> FlashJobs]
      /\ proc[p].pc # "idle" => i \in Jobs
  BY DEF TypeOK, OrderlyInv, At
<1>1. ~StoreFails(p)
  BY DEF StoreFails, SettledInv
<1>2. ASSUME proc[p].pc \notin {"idle", "fail"}, UNCHANGED issued, NEW label, Moves(p, label),
             label \notin {"idle", "updateDone"}, UNCHANGED store \/ \E r : Save(p, r)
      PROVE  SettledInv'
  BY <1>0, <1>2, SettledMove DEF Save, OrderlyProc
<1>3. ASSUME proc[p].pc # "idle", UNCHANGED issued, NEW label, Moves(p, label),
             \E r : Save(p, r) /\ Settled(r)
      PROVE  SettledInv'
  BY <1>0, <1>3, SettledMove DEF Save
<1>4. CASE CreateFlashJob(p)
  BY <1>0, <1>1, <1>2, <1>4, MovesBy DEF CreateFlashJob, At
<1>5. CASE BeginFlash(p)
  BY <1>0, <1>2, <1>5, MovesBy DEF BeginFlash, At
<1>6. CASE MarkFlashJobRunning(p)
  BY <1>0, <1>1, <1>2, <1>6, MovesBy DEF MarkFlashJobRunning, At
<1>7. CASE SendNextFlashChunk(p)
  <2>1. Moves(p, "finish") \/ Moves(p, "load")
    BY <1>0, <1>1, <1>7, SendNextMoves
  <2>2. QED
    BY <1>2, <1>7, <2>1 DEF SendNextFlashChunk, At
<1>8. CASE FinishFlashJob(p)
  <2>1. Settled(Completed(proc[p].copy))
    BY DEF Settled, Completed
  <2>2. QED
    BY <1>0, <1>1, <1>3, <1>8, <2>1, MovesBy DEF FinishFlashJob, At
<1>9. CASE LoadFlashChunk(p)
  BY <1>0, <1>1, <1>2, <1>9, MovesBy DEF LoadFlashChunk, At
<1>10. CASE SendFlashChunk(p)
  BY <1>0, <1>2, <1>10, MovesBy DEF SendFlashChunk, At
<1>11. CASE ReloadFlashJob(p)
  BY <1>0, <1>1, <1>2, <1>11, MovesBy DEF ReloadFlashJob, At
<1>12. CASE MarkFlashChunkTransferred(p)
  <2> DEFINE r == proc[p].copy
  <2>1. CASE Save(p, Completed(r)) /\ GotoWith(p, "updateDone", Completed(r))
    <3>1. Settled(Completed(r))
      BY DEF Settled, Completed
    <3>2. QED
      BY <1>0, <1>3, <1>12, <2>1, <3>1, MovesBy
         DEF MarkFlashChunkTransferred, MarkTransferred, At
  <2>2. CASE Save(p, r) /\ Continue(p, AfterChunk(p, r))
    <3>1. proc[p].pc = "save" /\ proc[p].op = "pump" /\ UNCHANGED issued
      BY <1>0, <1>12 DEF MarkFlashChunkTransferred, MarkTransferred, At, OrderlyProc
    <3>2. CASE Settled(r) /\ Return(p)
      BY <1>0, <1>3, <2>2, <3>1, <3>2, MovesBy
    <3>3. CASE Goto(p, "next")
      BY <1>0, <1>2, <2>2, <3>1, <3>3, MovesBy
    <3>4. QED
      BY <2>2, <3>1, <3>2, <3>3 DEF Continue, AfterChunk, Settled
  <2>3. QED
    BY <1>1, <1>12, <2>1, <2>2 DEF MarkFlashChunkTransferred, MarkTransferred
<1>13. CASE CompleteDeviceFlash(p)
  <2>1. /\ proc[p].pc = "updateDone" /\ proc[p].op = "pump" /\ i \in Jobs
        /\ UNCHANGED <<store, issued>>
    BY <1>0, <1>13 DEF CompleteDeviceFlash, At, OrderlyProc
  <2>2. Settled(store'[i])
    BY <2>1 DEF SettledInv, Pumps
  <2>3. \E label : Moves(p, label)
    BY <1>0, <1>13, MovesBy DEF CompleteDeviceFlash, Continue
  <2>4. QED
    BY <2>1, <2>2, <2>3, SettledMove
<1>14. CASE FailFlashJob(p)
  <2>1. Settled(Failed(proc[p].copy))
    BY DEF Settled, Failed
  <2>2. QED
    BY <1>0, <1>1, <1>3, <1>14, <2>1, MovesBy DEF FailFlashJob, At
<1>15. CASE RetryNext(p)
  BY <1>0, <1>15 DEF RetryNext, OrderlyProc, At
<1>16. QED
  BY <1>4, <1>5, <1>6, <1>7, <1>8, <1>9, <1>10, <1>11, <1>12, <1>13, <1>14, <1>15
     DEF Step, OwnStep, Exchange

\* Requests get new ids, and signals start goroutines that are no pumps.
LEMMA NextSettled ==
  ASSUME Faults = {}, NoRetries, TypeOK, OrderlyInv, SettledInv, [Next]_vars
  PROVE  SettledInv'
<1>0. proc \in [Procs -> ProcRecords]
  BY DEF TypeOK
<1>1. ASSUME NEW p \in Procs, NEW j \in Jobs, StartDeviceFlash(p, j)
      PROVE  SettledInv'
  <2>1. /\ proc[p].pc = "idle" /\ j \notin issued /\ issued' = issued \union {j}
        /\ store' = store
        /\ \A q \in Procs : q # p => proc'[q] = proc[q]
        /\ proc'[p].pc = "create" /\ proc'[p].op = "pump" /\ proc'[p].job = j
        /\ proc'[p].ctx = "live"
    BY <1>0, <1>1 DEF StartDeviceFlash, IdleProc, At
  <2>2. QED
    BY <2>1 DEF SettledInv, Pumps
<1>2. ASSUME NEW p \in Procs, Step(p) PROVE SettledInv'
  BY <1>2, StepSettled
<1>3. ASSUME NEW p \in Procs, Signal(p) PROVE SettledInv'
  BY <1>0, <1>3, SignalMoves DEF SettledInv, Pumps
<1>4. CASE (\E p \in Procs : Cancel(p)) \/ Crash
  BY <1>4 DEF Cancel, Crash
<1>5. CASE UNCHANGED vars
  BY <1>5 DEF vars, SettledInv, Pumps
<1>6. QED
  BY <1>1, <1>2, <1>3, <1>4, <1>5 DEF Next

\* When nothing fails and no chunks are missed, no job is left queued or running once
\* its goroutines are gone, however many pumps and aborts cross (FailFlashJob and
\* completeFlashJob save whatever copy they hold).
THEOREM QuiescentSettled ==
  ASSUME NoRetries, Faults = {}
  PROVE  Spec => []QuiescentJobsSettled
<1>1. Init => OrderlyInv /\ SettledInv
  BY DEF Init, OrderlyInv, OrderlyProc, BegunLabels, IdleProc, ChunksAfterBegin,
         SettledInv, Settled, Pumps, NoJob
<1>2. TypeOK /\ OrderlyInv /\ SettledInv /\ [Next]_vars => (OrderlyInv /\ SettledInv)'
  BY NextOrderly, NextSettled
<1>3. SettledInv => QuiescentJobsSettled
  BY DEF SettledInv, Settled, Pumps, QuiescentJobsSettled, At
<1>4. QED
  BY <1>1, <1>2, <1>3, FlashTypes, PTL DEF Spec
=============================================================================
