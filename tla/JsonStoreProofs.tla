-------------------------- MODULE JsonStoreProofs --------------------------
(***************************************************************************)
(* One repository object that is not listed after a crash implements       *)
(* RecordStore, for any number of goroutines, records and values: its lock *)
(* and the rename make every operation take effect in one step.            *)
(***************************************************************************)
EXTENDS JsonStore, TLAPS

\* One object for the directory.
OneRepository == \A s, t \in Stores : s = t

\* Nobody lists what crashes leave behind.
NoListAfterCrash == "crash" \in Faults => \A s \in Stores : "list" \notin Uses[s]

-----------------------------------------------------------------------------
Goroutines ==
  [pc : Labels, store : Stores \union {"none"}, kind : Kinds \union {"none"},
   id : Ids \union {"none"}, value : Values \union {"none"},
   todo : SUBSET [of : {"file", "temp", "orphan"}, name : Ids \union Procs \union Temps],
   seen : SUBSET (Ids \X Values), result : Results]

StoreTypes ==
  /\ files \in [Ids -> Values \union {Absent}]
  /\ temp \in [Procs -> Temps]
  /\ orphans \subseteq Temps
  /\ lock \in [Stores -> [readers : SUBSET Procs, writers : SUBSET Procs]]
  /\ proc \in [Procs -> Goroutines]

\* A goroutine that has its lock and is not done.
Working(r) ==
  r.pc \in {"stat", "temp", "encode", "rename", "remove", "read", "readDir", "readEntry"}

\* Where each operation may be; a list has read nothing before it has read the directory.
Places(r) ==
  /\ r.pc = "stat" => r.kind = "create"
  /\ r.pc \in {"temp", "encode", "rename"} => r.kind \in {"create", "save"}
  /\ r.pc = "remove" => r.kind = "delete"
  /\ r.pc = "read" => r.kind = "get"
  /\ r.pc \in {"readDir", "readEntry"} => r.kind = "list"
  /\ r.pc \in {"lock", "readDir"} => r.seen = {}

\* An operation that was called has its arguments, and a result when it is done.
Shape(r) ==
  /\ r.pc # "idle" => /\ r.store \in Stores /\ r.kind \in Kinds
                      /\ r.id \in Ids /\ r.value \in Values
  /\ r.pc = "unlock" <=> r.result # NoResult
  /\ Places(r)
  /\ r.result.status # "decode"
  /\ r.kind = "list" => r.result.status # "notFound" /\ "crash" \notin Faults

\* A writer is alone with the files of the lock's object, readers are without writers.
Locked(p) ==
  LET r == proc[p] IN
  Working(r) =>
    IF r.kind \in Writing THEN lock[r.store].writers = {p} /\ lock[r.store].readers = {}
    ELSE lock[r.store].writers = {} /\ p \in lock[r.store].readers

AllRecords == UNION {Found(i) : i \in Ids}

FileEntry(i) == [of |-> "file", name |-> i]

\* A create still finds no record; a list has read what it has not still to read.
Reads(r) ==
  /\ r.pc \in {"temp", "encode", "rename"} /\ r.kind = "create" => files[r.id] = Absent
  /\ r.pc = "readEntry" =>
       /\ r.todo \subseteq {FileEntry(i) : i \in {j \in Ids : files[j] # Absent}}
       /\ r.seen \union UNION {Found(e.name) : e \in r.todo} = AllRecords

ProcInv(p) ==
  /\ Shape(proc[p])
  /\ Locked(p)
  /\ Reads(proc[p])
  /\ temp[p] # NoTemp <=> proc[p].pc \in {"encode", "rename"}

StoreInv ==
  /\ StoreTypes
  /\ "crash" \notin Faults => orphans = {}
  /\ \A p \in Procs : ProcInv(p)

-----------------------------------------------------------------------------
\* The abstract calls when one goroutine moves.
LEMMA CallsMove ==
  ASSUME proc \in [Procs -> Goroutines], NEW p \in Procs, NEW r,
         proc' = [proc EXCEPT ![p] = r]
  PROVE  Calls' = [Calls EXCEPT ![p] = CallOf(r)]
BY DEF Calls

LEMMA Outcomes ==
  /\ NoResult \in Results /\ Idle \in Goroutines
  /\ \A status \in {"ok", "conflict", "notFound", "error"}, found \in SUBSET (Ids \X Values) :
       /\ Result(status, found) \in Results
       /\ Result(status, found) # NoResult
       /\ Result(status, found).status = status
  /\ NoTemp \in Temps
BY DEF NoResult, Results, Idle, Goroutines, Labels, Kinds, Result, NoTemp, Temps

LEMMA FoundTypes ==
  ASSUME StoreTypes, NEW i \in Ids
  PROVE  Found(i) \in SUBSET (Ids \X Values)
BY DEF StoreTypes, Found

\* Whoever works with a writer is that writer.
LEMMA WritersAlone ==
  ASSUME OneRepository, StoreInv, NEW p \in Procs, NEW q \in Procs, p # q,
         Working(proc[p]), proc[p].kind \in Writing
  PROVE  ~Working(proc[q])
<1>1. proc[p].store \in Stores /\ lock[proc[p].store].writers = {p}
      /\ lock[proc[p].store].readers = {}
  BY DEF StoreInv, ProcInv, Shape, Locked, Working
<1>2. ASSUME Working(proc[q]) PROVE FALSE
  <2>1. proc[q].store \in Stores
    BY <1>2 DEF StoreInv, ProcInv, Shape, Working
  <2>2. proc[q].store = proc[p].store
    BY <1>1, <2>1 DEF OneRepository
  <2> QED BY <1>1, <1>2, <2>2 DEF StoreInv, ProcInv, Locked
<1> QED BY <1>2

\* What a goroutine relies on stays while it works, if the files and its lock do.
LEMMA OthersKept ==
  ASSUME NEW q \in Procs, ProcInv(q), proc'[q] = proc[q], temp'[q] = temp[q],
         Working(proc[q]) => files' = files /\ Locked(q)'
  PROVE  ProcInv(q)'
<1>1. Shape(proc[q])'
  BY DEF ProcInv, Shape, Places
<1>2. Locked(q)'
  BY DEF Locked
<1>3. Reads(proc[q])'
  BY DEF ProcInv, Reads, Working, AllRecords, Found
<1> QED BY <1>1, <1>2, <1>3 DEF ProcInv

\* One goroutine moves, and the lock stays.
LEMMA Moves ==
  ASSUME StoreInv, NEW p \in Procs, NEW r \in Goroutines,
         proc' = [proc EXCEPT ![p] = r], UNCHANGED lock, UNCHANGED orphans,
         files' \in [Ids -> Values \union {Absent}], temp' \in [Procs -> Temps],
         \A q \in Procs \ {p} : temp'[q] = temp[q],
         \A q \in Procs \ {p} : Working(proc[q]) => files' = files,
         ProcInv(p)'
  PROVE  StoreInv'
<1>1. StoreTypes'
  BY DEF StoreInv, StoreTypes
<1>2. ASSUME NEW q \in Procs, q # p PROVE ProcInv(q)'
  <2>1. proc'[q] = proc[q] /\ ProcInv(q)
    BY <1>2 DEF StoreInv, StoreTypes
  <2>2. Working(proc[q]) => Locked(q)'
    BY <2>1 DEF ProcInv, Locked
  <2> QED BY <1>2, <2>1, <2>2, OthersKept
<1> QED BY <1>1, <1>2 DEF StoreInv

-----------------------------------------------------------------------------
(***************************************************************************)
(* Every step keeps the invariant and is a step of RecordStore             *)
(***************************************************************************)
Implements == StoreInv' /\ [Records!Next]_<<files, Calls>>

\* A goroutine gives its lock back, or takes it.
LEMMA Relocks ==
  ASSUME StoreInv, NEW p \in Procs, NEW r \in Goroutines,
         proc' = [proc EXCEPT ![p] = r], UNCHANGED <<files, temp, orphans>>,
         lock' \in [Stores -> [readers : SUBSET Procs, writers : SUBSET Procs]],
         \A q \in Procs \ {p} : Working(proc[q]) => Locked(q)',
         ProcInv(p)'
  PROVE  StoreInv'
<1>1. StoreTypes'
  BY DEF StoreInv, StoreTypes
<1>2. ASSUME NEW q \in Procs, q # p PROVE ProcInv(q)'
  <2>1. proc'[q] = proc[q] /\ ProcInv(q) /\ temp'[q] = temp[q]
    BY <1>2 DEF StoreInv, StoreTypes
  <2> QED BY <1>2, <2>1, OthersKept
<1> QED BY <1>1, <1>2 DEF StoreInv

\* A step inside an operation, after which there is still no result.
LEMMA Stutters ==
  ASSUME StoreInv, NEW p \in Procs, NEW r \in Goroutines,
         proc' = [proc EXCEPT ![p] = r], UNCHANGED files,
         CallOf(r) = CallOf(proc[p])
  PROVE  UNCHANGED <<files, Calls>>
<1>1. Calls' = [Calls EXCEPT ![p] = CallOf(r)]
  BY CallsMove DEF StoreInv, StoreTypes
<1> QED BY <1>1 DEF Calls

LEMMA CallStep ==
  ASSUME NoListAfterCrash, StoreInv, NEW p \in Procs, NEW s \in Stores, NEW kind \in Kinds,
         NEW i \in Ids, NEW v \in Values, Call(p, s, kind, i, v)
  PROVE  Implements
<1> DEFINE r == [Idle EXCEPT !.pc = "lock", !.store = s, !.kind = kind, !.id = i, !.value = v]
<1>1. /\ proc' = [proc EXCEPT ![p] = r] /\ proc[p].pc = "idle" /\ kind \in Uses[s]
      /\ UNCHANGED <<files, temp, orphans, lock>>
  BY DEF Call, At
<1>2. /\ r \in Goroutines /\ r.pc = "lock" /\ r.kind = kind /\ r.store = s /\ r.id = i
      /\ r.value = v /\ r.result = NoResult /\ r.seen = {}
  BY Outcomes DEF Idle, Goroutines, Labels
<1>3. Shape(r)
  BY <1>1, <1>2 DEF Shape, Places, NoResult, NoListAfterCrash
<1> HIDE DEF r
<1>4. proc'[p] = r /\ ProcInv(p)
  BY <1>1 DEF StoreInv, StoreTypes
<1>5. ProcInv(p)'
  BY <1>1, <1>2, <1>3, <1>4 DEF ProcInv, Shape, Places, Locked, Reads, Working
<1>6. StoreInv'
  BY <1>1, <1>2, <1>5, Moves DEF StoreInv, StoreTypes
<1>7. Calls' = [Calls EXCEPT ![p] = CallOf(r)] /\ Calls[p] = Records!NoCall
  BY <1>1, <1>2, CallsMove DEF StoreInv, StoreTypes, Calls, CallOf, Records!NoCall,
     Records!NoResult, NoResult
<1>8. Records!Call(p, kind, i, v)
  BY <1>1, <1>2, <1>7 DEF Records!Call, CallOf, Records!NoResult, NoResult
<1> QED BY <1>6, <1>8 DEF Implements, Records!Next

LEMMA FinishStep ==
  ASSUME StoreInv, NEW p \in Procs, NEW result \in Results, proc[p].pc \notin {"idle", "unlock"},
         Finish(p, result), result # NoResult, result.status # "decode",
         proc[p].kind = "list" => result.status # "notFound"
  PROVE  /\ \E r \in Goroutines :
              /\ proc' = [proc EXCEPT ![p] = r] /\ r.pc = "unlock"
              /\ proc'[p] = r
         /\ Shape(proc[p])' /\ Locked(p)' /\ Reads(proc[p])' /\ proc'[p].pc = "unlock"
         /\ Calls[p] = [kind |-> proc[p].kind, id |-> proc[p].id, value |-> proc[p].value,
                        result |-> NoResult]
         /\ Calls' = [Calls EXCEPT ![p].result = result]
         /\ proc[p].kind \in Kinds /\ proc[p].id \in Ids /\ proc[p].value \in Values
<1> DEFINE r == [proc[p] EXCEPT !.pc = "unlock", !.result = result]
<1>1. proc[p] \in Goroutines /\ ProcInv(p) /\ proc' = [proc EXCEPT ![p] = r] /\ proc'[p] = r
  BY DEF StoreInv, StoreTypes, Finish
<1>2. /\ r \in Goroutines /\ r.pc = "unlock" /\ r.result = result /\ r.kind = proc[p].kind
      /\ r.store = proc[p].store /\ r.id = proc[p].id /\ r.value = proc[p].value
  BY <1>1 DEF Goroutines, Labels
<1> HIDE DEF r
<1>3. Shape(proc[p])' /\ Locked(p)' /\ Reads(proc[p])'
  BY <1>1, <1>2 DEF ProcInv, Shape, Places, Locked, Reads, Working
<1>4. proc[p].result = NoResult /\ proc[p].kind \in Kinds /\ proc[p].id \in Ids
      /\ proc[p].value \in Values
  BY <1>1 DEF ProcInv, Shape
<1>5. Calls[p] = [kind |-> proc[p].kind, id |-> proc[p].id, value |-> proc[p].value,
                  result |-> NoResult]
  BY <1>4 DEF Calls, CallOf
<1>6. Calls' = [Calls EXCEPT ![p] = CallOf(r)]
  BY <1>1, CallsMove DEF StoreInv, StoreTypes
<1>7. CallOf(r) = [Calls[p] EXCEPT !.result = result]
  BY <1>2, <1>5 DEF CallOf
<1> QED BY <1>1, <1>2, <1>3, <1>4, <1>5, <1>6, <1>7

\* An operation that ends with an error has changed nothing.
LEMMA Fails ==
  ASSUME StoreInv, NEW p \in Procs, proc[p].pc \notin {"idle", "unlock"},
         Finish(p, Result("error", {})), UNCHANGED <<files, orphans, lock>>,
         temp' = [temp EXCEPT ![p] = NoTemp]
  PROVE  Implements
<1>1. /\ Result("error", {}) \in Results /\ Result("error", {}) # NoResult
      /\ Result("error", {}).status = "error"
  BY Outcomes
<1>2. PICK r \in Goroutines :
        proc' = [proc EXCEPT ![p] = r] /\ r.pc = "unlock" /\ proc'[p] = r
  BY <1>1, FinishStep
<1>3. ProcInv(p)'
  BY <1>1, FinishStep, Outcomes DEF ProcInv, StoreInv, StoreTypes
<1>4. StoreInv'
  BY <1>2, <1>3, Moves, Outcomes DEF StoreInv, StoreTypes
<1>5. /\ Calls[p] = [kind |-> proc[p].kind, id |-> proc[p].id, value |-> proc[p].value,
                      result |-> NoResult]
      /\ Calls' = [Calls EXCEPT ![p].result = Result("error", {})]
      /\ proc[p].kind \in Kinds
  BY <1>1, FinishStep
<1>6. Calls[p].kind # "none" /\ Calls[p].result = NoResult
  BY <1>5 DEF Kinds, Writing
<1>7. Records!Fail(p)
  BY <1>5, <1>6 DEF Records!Fail, Records!Answer, Records!Result, Records!NoCall,
     Records!NoResult, Result, NoResult
<1> QED BY <1>4, <1>7 DEF Implements, Records!Next

\* An operation that ends under its lock.
LEMMA Ends ==
  ASSUME StoreInv, NEW p \in Procs, NEW result \in Results, Working(proc[p]),
         Finish(p, result), result # NoResult, result.status # "decode",
         proc[p].kind = "list" => result.status # "notFound",
         UNCHANGED <<orphans, lock>>, temp' = [temp EXCEPT ![p] = NoTemp],
         files' \in [Ids -> Values \union {Absent}],
         \A q \in Procs \ {p} : Working(proc[q]) => files' = files
  PROVE  StoreInv'
<1>1. PICK r \in Goroutines :
        proc' = [proc EXCEPT ![p] = r] /\ r.pc = "unlock" /\ proc'[p] = r
  BY FinishStep DEF Working
<1>2. Shape(proc[p])' /\ Locked(p)' /\ proc'[p].pc = "unlock"
  BY FinishStep DEF Working
<1>3. ProcInv(p)'
  BY <1>2, Outcomes DEF ProcInv, StoreInv, StoreTypes, Reads
<1> QED BY <1>1, <1>3, Moves, Outcomes DEF StoreInv, StoreTypes

\* A goroutine that has no temporary file leaves the table of them as it is.
LEMMA NoTempKept ==
  ASSUME StoreInv, NEW p \in Procs, proc[p].pc \notin {"encode", "rename"}, UNCHANGED temp
  PROVE  temp' = [temp EXCEPT ![p] = NoTemp]
BY DEF StoreInv, StoreTypes, ProcInv

LEMMA ContextEndedStep ==
  ASSUME StoreInv, NEW p \in Procs, ContextEnded(p)
  PROVE  Implements
BY Fails, NoTempKept DEF ContextEnded, At

LEMMA LockStep ==
  ASSUME OneRepository, StoreInv, NEW p \in Procs, Lock(p)
  PROVE  Implements
<1> DEFINE r == [proc[p] EXCEPT !.pc = Body(proc[p].kind)]
           s == proc[p].store
<1>1. /\ proc[p] \in Goroutines /\ ProcInv(p) /\ proc[p].pc = "lock" /\ s \in Stores
      /\ proc' = [proc EXCEPT ![p] = r] /\ proc'[p] = r /\ proc[p].kind \in Kinds
      /\ UNCHANGED <<files, temp, orphans>>
  BY DEF StoreInv, StoreTypes, ProcInv, Shape, Lock, At, Goto
<1>2. /\ Body(proc[p].kind) \in Labels \ {"idle", "lock", "unlock", "encode", "rename",
                                          "readEntry"}
      /\ proc[p].kind = "create" => Body(proc[p].kind) = "stat"
      /\ proc[p].kind = "save" => Body(proc[p].kind) = "temp"
      /\ proc[p].kind = "delete" => Body(proc[p].kind) = "remove"
      /\ proc[p].kind = "get" => Body(proc[p].kind) = "read"
      /\ proc[p].kind = "list" => Body(proc[p].kind) = "readDir"
  BY <1>1 DEF Body, Kinds, Writing, Labels
<1>3. /\ r \in Goroutines /\ r.pc = Body(proc[p].kind) /\ r.kind = proc[p].kind
      /\ r.store = s /\ r.id = proc[p].id /\ r.value = proc[p].value
      /\ r.result = proc[p].result /\ r.seen = proc[p].seen
  BY <1>1, <1>2 DEF Goroutines
<1>4. /\ lock[s].writers = {}
      /\ IF proc[p].kind \in Writing
         THEN lock[s].readers = {} /\ lock' = [lock EXCEPT ![s].writers = {p}]
         ELSE lock' = [lock EXCEPT ![s].readers = @ \union {p}]
      /\ lock \in [Stores -> [readers : SUBSET Procs, writers : SUBSET Procs]]
  BY DEF Lock, StoreInv, StoreTypes
<1> HIDE DEF r
<1>5. lock' \in [Stores -> [readers : SUBSET Procs, writers : SUBSET Procs]]
  BY <1>1, <1>4
<1>6. Shape(proc[p])' /\ Reads(proc[p])'
  BY <1>1, <1>2, <1>3 DEF ProcInv, Shape, Places, Reads, Kinds, Writing
<1>7. Locked(p)'
  BY <1>1, <1>3, <1>4 DEF Locked
<1>8. ProcInv(p)'
  BY <1>1, <1>2, <1>3, <1>6, <1>7 DEF ProcInv
<1>9. ASSUME NEW q \in Procs \ {p}, Working(proc[q]) PROVE Locked(q)'
  <2>1. proc'[q] = proc[q] /\ Locked(q) /\ proc[q].store \in Stores /\ proc[q].store = s
    BY <1>1, <1>9 DEF StoreInv, StoreTypes, ProcInv, Shape, Working, OneRepository
  <2>2. proc[q].kind \notin Writing /\ q \in lock[s].readers
    BY <1>4, <1>9, <2>1 DEF Locked
  <2>3. lock' = [lock EXCEPT ![s].readers = @ \union {p}]
    BY <1>4, <2>2
  <2>4. lock'[s].writers = {} /\ q \in lock'[s].readers
    BY <1>1, <1>4, <2>2, <2>3
  <2> QED BY <2>1, <2>2, <2>4 DEF Locked
<1>10. StoreInv'
  BY <1>1, <1>3, <1>5, <1>8, <1>9, Relocks
<1>11. CallOf(r) = CallOf(proc[p])
  BY <1>1, <1>2, <1>3 DEF CallOf
<1>12. UNCHANGED <<files, Calls>>
  BY <1>1, <1>3, <1>11, Stutters
<1> QED BY <1>10, <1>12 DEF Implements

LEMMA UnlockStep ==
  ASSUME OneRepository, StoreInv, NEW p \in Procs, Unlock(p)
  PROVE  Implements
<1> DEFINE s == proc[p].store
<1>1. /\ proc[p] \in Goroutines /\ ProcInv(p) /\ proc[p].pc = "unlock" /\ s \in Stores
      /\ proc' = [proc EXCEPT ![p] = Idle] /\ proc'[p] = Idle
      /\ UNCHANGED <<files, temp, orphans>>
      /\ lock \in [Stores -> [readers : SUBSET Procs, writers : SUBSET Procs]]
      /\ lock' = [lock EXCEPT ![s] = [readers |-> lock[s].readers \ {p},
                                      writers |-> lock[s].writers \ {p}]]
  BY DEF StoreInv, StoreTypes, ProcInv, Shape, Unlock, At
<1>2. lock' \in [Stores -> [readers : SUBSET Procs, writers : SUBSET Procs]]
  BY <1>1
<1>3. Idle \in Goroutines /\ Idle.pc = "idle" /\ Idle.kind = "none" /\ Idle.result = NoResult
  BY Outcomes DEF Idle
<1>4. ProcInv(p)'
  BY <1>1, <1>3 DEF ProcInv, Shape, Places, Locked, Reads, Working, NoResult
<1>5. ASSUME NEW q \in Procs \ {p}, Working(proc[q]) PROVE Locked(q)'
  <2>1. proc'[q] = proc[q] /\ Locked(q) /\ proc[q].store = s
    BY <1>1, <1>5 DEF StoreInv, StoreTypes, ProcInv, Shape, Working, OneRepository
  <2>2. proc[q].kind \in Writing => ~(p \in lock[s].writers)
    BY <1>5, <2>1 DEF Locked
  <2> QED BY <1>1, <1>5, <2>1, <2>2 DEF Locked
<1>6. StoreInv'
  BY <1>1, <1>2, <1>3, <1>4, <1>5, Relocks
<1>7. Calls' = [Calls EXCEPT ![p] = Records!NoCall]
  BY <1>1, <1>3, CallsMove DEF StoreInv, StoreTypes, CallOf, Records!NoCall,
     Records!NoResult, NoResult
<1>8. Calls[p].result # Records!NoResult
  BY <1>1 DEF ProcInv, Shape, Calls, CallOf, Records!NoResult, NoResult
<1>9. Records!Return(p)
  BY <1>1, <1>7, <1>8 DEF Records!Return
<1> QED BY <1>6, <1>9 DEF Implements, Records!Next

\* A goroutine that goes on in its operation, keeping its arguments and the files.
LEMMA GoesOn ==
  ASSUME StoreInv, NEW p \in Procs, Working(proc[p]), NEW r \in Goroutines,
         proc' = [proc EXCEPT ![p] = r], Working(r), r.store = proc[p].store,
         r.kind = proc[p].kind, r.id = proc[p].id, r.value = proc[p].value,
         r.result = proc[p].result, Places(r), Reads(r),
         UNCHANGED <<files, orphans, lock>>, temp' \in [Procs -> Temps],
         \A q \in Procs \ {p} : temp'[q] = temp[q],
         temp'[p] # NoTemp <=> r.pc \in {"encode", "rename"}
  PROVE  Implements
<1>1. proc'[p] = r /\ ProcInv(p) /\ files' \in [Ids -> Values \union {Absent}]
  BY DEF StoreInv, StoreTypes
<1>2. Shape(r) /\ Locked(p)'
  BY <1>1 DEF ProcInv, Shape, Locked, Working
<1>3. Reads(proc[p])'
  BY <1>1 DEF Reads, AllRecords, Found
<1>4. ProcInv(p)'
  BY <1>1, <1>2, <1>3 DEF ProcInv, Shape, Places
<1>5. StoreInv'
  BY <1>4, Moves, <1>1
<1>6. CallOf(r) = CallOf(proc[p])
  BY DEF CallOf, Working
<1>7. UNCHANGED <<files, Calls>>
  BY <1>6, Stutters
<1> QED BY <1>5, <1>7 DEF Implements

\* The same, when only the label changes.
LEMMA GoesTo ==
  ASSUME StoreInv, NEW p \in Procs, Working(proc[p]), NEW label \in Labels, Goto(p, label),
         Working([proc[p] EXCEPT !.pc = label]), Places([proc[p] EXCEPT !.pc = label]),
         Reads([proc[p] EXCEPT !.pc = label]),
         UNCHANGED <<files, orphans, lock>>, temp' \in [Procs -> Temps],
         \A q \in Procs \ {p} : temp'[q] = temp[q],
         temp'[p] # NoTemp <=> label \in {"encode", "rename"}
  PROVE  Implements
<1> DEFINE r == [proc[p] EXCEPT !.pc = label]
<1>1. proc[p] \in Goroutines /\ proc' = [proc EXCEPT ![p] = r]
  BY DEF StoreInv, StoreTypes, Goto
<1>2. /\ r \in Goroutines /\ r.pc = label /\ r.store = proc[p].store /\ r.kind = proc[p].kind
      /\ r.id = proc[p].id /\ r.value = proc[p].value /\ r.result = proc[p].result
  BY <1>1 DEF Goroutines
<1> QED BY <1>1, <1>2, GoesOn

LEMMA StatStep ==
  ASSUME StoreInv, NEW p \in Procs, Stat(p)
  PROVE  Implements
<1>1. /\ proc[p].pc = "stat" /\ Working(proc[p]) /\ proc[p] \in Goroutines /\ ProcInv(p)
      /\ proc[p].kind = "create" /\ UNCHANGED <<files, temp, orphans, lock>>
      /\ temp[p] = NoTemp /\ temp \in [Procs -> Temps]
      /\ files \in [Ids -> Values \union {Absent}]
      /\ temp' = [temp EXCEPT ![p] = NoTemp]
  BY NoTempKept DEF Stat, At, Working, StoreInv, StoreTypes, ProcInv, Shape, Places
<1>2. CASE files[proc[p].id] = Absent /\ Goto(p, "temp")
  <2> DEFINE r == [proc[p] EXCEPT !.pc = "temp"]
  <2>1. /\ r.pc = "temp" /\ r.kind = "create" /\ r.id = proc[p].id
    BY <1>1 DEF Goroutines
  <2>2. Working(r) /\ Places(r) /\ Reads(r) /\ "temp" \in Labels
    BY <1>2, <2>1 DEF Working, Places, Reads, Labels
  <2> QED BY <1>1, <1>2, <2>2, GoesTo
<1>3. CASE files[proc[p].id] # Absent /\ Finish(p, Result("conflict", {}))
  <2>1. /\ Result("conflict", {}) \in Results /\ Result("conflict", {}) # NoResult
        /\ Result("conflict", {}).status = "conflict"
    BY Outcomes
  <2>2. StoreInv'
    BY <1>1, <1>3, <2>1, Ends
  <2>3. /\ Calls[p] = [kind |-> proc[p].kind, id |-> proc[p].id, value |-> proc[p].value,
                       result |-> NoResult]
        /\ Calls' = [Calls EXCEPT ![p].result = Result("conflict", {})]
    BY <1>1, <1>3, <2>1, FinishStep
  <2>4. Records!Create(p)
    BY <1>1, <1>3, <2>3 DEF Records!Create, Records!Pending, Records!Answer, Records!Result,
       Records!NoResult, Result, NoResult, Records!Absent, Absent
  <2> QED BY <2>2, <2>4 DEF Implements, Records!Next
<1>4. CASE Finish(p, Result("error", {}))
  BY <1>1, <1>4, Fails
<1> QED BY <1>2, <1>3, <1>4 DEF Stat

LEMMA CreateTempStep ==
  ASSUME StoreInv, NEW p \in Procs, CreateTemp(p)
  PROVE  Implements
<1>1. /\ proc[p].pc = "temp" /\ Working(proc[p]) /\ proc[p] \in Goroutines /\ ProcInv(p)
      /\ proc[p].id \in Ids /\ proc[p].value \in Values
      /\ UNCHANGED <<files, orphans, lock>> /\ temp \in [Procs -> Temps]
  BY DEF CreateTemp, At, Working, StoreInv, StoreTypes, ProcInv, Shape
<1>2. CASE /\ temp' = [temp EXCEPT ![p] = [state |-> "partial", id |-> proc[p].id,
                                           value |-> proc[p].value]]
           /\ Goto(p, "encode")
  <2> DEFINE r == [proc[p] EXCEPT !.pc = "encode"]
  <2>1. r.pc = "encode" /\ r.kind = proc[p].kind /\ r.id = proc[p].id
    BY <1>1 DEF Goroutines
  <2>2. Working(r) /\ Places(r) /\ Reads(r) /\ "encode" \in Labels
    BY <1>1, <2>1 DEF Working, Places, Reads, Labels, ProcInv, Shape
  <2>3. /\ temp' \in [Procs -> Temps] /\ temp'[p] # NoTemp
        /\ \A q \in Procs \ {p} : temp'[q] = temp[q]
    BY <1>1, <1>2 DEF Temps, NoTemp
  <2> QED BY <1>1, <1>2, <2>2, <2>3, GoesTo
<1>3. CASE Finish(p, Result("error", {})) /\ UNCHANGED temp
  BY <1>1, <1>3, Fails, NoTempKept
<1> QED BY <1>2, <1>3 DEF CreateTemp

LEMMA EncodeStep ==
  ASSUME StoreInv, NEW p \in Procs, Encode(p)
  PROVE  Implements
<1>1. /\ proc[p].pc = "encode" /\ Working(proc[p]) /\ proc[p] \in Goroutines /\ ProcInv(p)
      /\ UNCHANGED <<files, orphans, lock>> /\ temp \in [Procs -> Temps]
  BY DEF Encode, At, Working, StoreInv, StoreTypes
<1>2. CASE temp' = [temp EXCEPT ![p].state = "whole"] /\ Goto(p, "rename")
  <2> DEFINE r == [proc[p] EXCEPT !.pc = "rename"]
  <2>1. r.pc = "rename" /\ r.kind = proc[p].kind /\ r.id = proc[p].id
    BY <1>1 DEF Goroutines
  <2>2. Working(r) /\ Places(r) /\ Reads(r) /\ "rename" \in Labels
    BY <1>1, <2>1 DEF Working, Places, Reads, Labels, ProcInv, Shape
  <2>3. /\ temp' \in [Procs -> Temps] /\ temp'[p] # NoTemp
        /\ \A q \in Procs \ {p} : temp'[q] = temp[q]
    BY <1>1, <1>2 DEF Temps, NoTemp
  <2> QED BY <1>1, <1>2, <2>2, <2>3, GoesTo
<1>3. CASE temp' = [temp EXCEPT ![p] = NoTemp] /\ Finish(p, Result("error", {}))
  BY <1>1, <1>3, Fails
<1> QED BY <1>2, <1>3 DEF Encode

\* A goroutine that writes is the only one for which the files matter.
LEMMA RenameStep ==
  ASSUME OneRepository, StoreInv, NEW p \in Procs, Rename(p)
  PROVE  Implements
<1>1. /\ proc[p].pc = "rename" /\ Working(proc[p]) /\ proc[p] \in Goroutines /\ ProcInv(p)
      /\ proc[p].kind \in {"create", "save"} /\ proc[p].id \in Ids /\ proc[p].value \in Values
      /\ UNCHANGED <<orphans, lock>> /\ temp' = [temp EXCEPT ![p] = NoTemp]
      /\ files \in [Ids -> Values \union {Absent}]
  BY DEF Rename, At, Working, StoreInv, StoreTypes, ProcInv, Shape, Places
<1>2. CASE /\ files' = [files EXCEPT ![proc[p].id] = proc[p].value]
           /\ Finish(p, Result("ok", {}))
  <2>1. /\ Result("ok", {}) \in Results /\ Result("ok", {}) # NoResult
        /\ Result("ok", {}).status = "ok"
    BY Outcomes
  <2>2. \A q \in Procs \ {p} : ~Working(proc[q])
    BY <1>1, WritersAlone DEF Writing
  <2>3. files' \in [Ids -> Values \union {Absent}]
    BY <1>1, <1>2
  <2>4. StoreInv'
    BY <1>1, <1>2, <2>1, <2>2, <2>3, Ends
  <2>5. /\ Calls[p] = [kind |-> proc[p].kind, id |-> proc[p].id, value |-> proc[p].value,
                       result |-> NoResult]
        /\ Calls' = [Calls EXCEPT ![p].result = Result("ok", {})]
    BY <1>1, <1>2, <2>1, FinishStep
  <2>6. proc[p].kind = "create" => files[proc[p].id] = Absent
    BY <1>1 DEF ProcInv, Reads
  <2>7. Records!Create(p) \/ Records!Save(p)
    BY <1>1, <1>2, <2>5, <2>6 DEF Records!Create, Records!Save, Records!Pending, Records!Answer,
       Records!Result, Records!NoResult, Result, NoResult, Records!Absent, Absent
  <2> QED BY <2>4, <2>7 DEF Implements, Records!Next
<1>3. CASE Finish(p, Result("error", {})) /\ UNCHANGED files
  BY <1>1, <1>3, Fails
<1> QED BY <1>2, <1>3 DEF Rename

LEMMA RemoveStep ==
  ASSUME OneRepository, StoreInv, NEW p \in Procs, Remove(p)
  PROVE  Implements
<1> DEFINE i == proc[p].id
           result == Result(IF files[i] = Absent THEN "notFound" ELSE "ok", {})
<1>1. /\ proc[p].pc = "remove" /\ Working(proc[p]) /\ proc[p] \in Goroutines /\ ProcInv(p)
      /\ proc[p].kind = "delete" /\ i \in Ids
      /\ UNCHANGED <<temp, orphans, lock>> /\ temp' = [temp EXCEPT ![p] = NoTemp]
      /\ files \in [Ids -> Values \union {Absent}]
  BY NoTempKept DEF Remove, At, Working, StoreInv, StoreTypes, ProcInv, Shape, Places
<1>2. CASE files' = [files EXCEPT ![i] = Absent] /\ Finish(p, result)
  <2>1. result \in Results /\ result # NoResult /\ result.status # "decode"
    BY Outcomes
  <2>2. \A q \in Procs \ {p} : ~Working(proc[q])
    BY <1>1, WritersAlone DEF Writing
  <2>3. files' \in [Ids -> Values \union {Absent}]
    BY <1>1, <1>2
  <2> HIDE DEF result
  <2>4. StoreInv'
    BY <1>1, <1>2, <2>1, <2>2, <2>3, Ends
  <2>5. /\ Calls[p] = [kind |-> proc[p].kind, id |-> proc[p].id, value |-> proc[p].value,
                       result |-> NoResult]
        /\ Calls' = [Calls EXCEPT ![p].result = result]
    BY <1>1, <1>2, <2>1, FinishStep
  <2>6. Records!Delete(p)
    BY <1>1, <1>2, <2>5 DEF Records!Delete, Records!Pending, Records!Answer, result,
       Records!Result, Records!NoResult, Result, NoResult, Records!Absent, Absent
  <2> QED BY <2>4, <2>6 DEF Implements, Records!Next
<1>3. CASE Finish(p, Result("error", {})) /\ UNCHANGED files
  BY <1>1, <1>3, Fails
<1> QED BY <1>2, <1>3 DEF Remove

LEMMA ReadFileStep ==
  ASSUME StoreInv, NEW p \in Procs, ReadFile(p)
  PROVE  Implements
<1> DEFINE found == Found(proc[p].id)
           result == Result(IF found = {} THEN "notFound" ELSE "ok", found)
<1>1. /\ proc[p].pc = "read" /\ Working(proc[p]) /\ proc[p] \in Goroutines /\ ProcInv(p)
      /\ proc[p].kind = "get" /\ proc[p].id \in Ids
      /\ UNCHANGED <<files, temp, orphans, lock>> /\ temp' = [temp EXCEPT ![p] = NoTemp]
      /\ files \in [Ids -> Values \union {Absent}]
  BY NoTempKept DEF ReadFile, At, Working, StoreInv, StoreTypes, ProcInv, Shape, Places
<1>2. CASE Finish(p, result)
  <2>1. result \in Results /\ result # NoResult /\ result.status # "decode"
    BY <1>1, Outcomes, FoundTypes DEF StoreInv
  <2> HIDE DEF result
  <2>2. StoreInv'
    BY <1>1, <1>2, <2>1, Ends
  <2>3. /\ Calls[p] = [kind |-> proc[p].kind, id |-> proc[p].id, value |-> proc[p].value,
                       result |-> NoResult]
        /\ Calls' = [Calls EXCEPT ![p].result = result]
    BY <1>1, <1>2, <2>1, FinishStep
  <2>4. found = Records!Found(files, Calls[p].id)
    BY <2>3 DEF Found, Records!Found, Records!Absent, Absent
  <2>5. Records!GetByID(p)
    BY <1>1, <2>3, <2>4 DEF Records!GetByID, Records!Pending, Records!Answer,
       result, Records!Result, Records!NoResult, Result, NoResult
  <2> QED BY <2>2, <2>5 DEF Implements, Records!Next
<1>3. CASE Finish(p, Result("error", {}))
  BY <1>1, <1>3, Fails
<1> QED BY <1>2, <1>3 DEF ReadFile

\* The directory that a list reads holds the records' files and nothing else.
LEMMA CleanDirectory ==
  ASSUME OneRepository, StoreInv, NEW p \in Procs, proc[p].pc = "readDir"
  PROVE  Entries = {FileEntry(i) : i \in {j \in Ids : files[j] # Absent}}
<1>1. Working(proc[p]) /\ proc[p].kind = "list" /\ orphans = {}
  BY DEF Working, StoreInv, ProcInv, Shape, Places
<1>2. ASSUME NEW q \in Procs, temp[q] # NoTemp PROVE FALSE
  <2>1. proc[q].pc \in {"encode", "rename"} /\ Working(proc[q]) /\ proc[q].kind \in Writing
    BY <1>2 DEF StoreInv, ProcInv, Shape, Places, Working, Writing
  <2> QED BY <1>1, <2>1, WritersAlone
<1> QED BY <1>1, <1>2 DEF Entries, FileEntry

LEMMA EntryFound ==
  ASSUME NEW i
  PROVE  FileEntry(i).of = "file" /\ FileEntry(i).name = i
BY DEF FileEntry

LEMMA ReadDirStep ==
  ASSUME OneRepository, StoreInv, NEW p \in Procs, ReadDir(p)
  PROVE  Implements
<1>1. /\ proc[p].pc = "readDir" /\ Working(proc[p]) /\ proc[p] \in Goroutines /\ ProcInv(p)
      /\ proc[p].kind = "list" /\ proc[p].seen = {}
      /\ UNCHANGED <<files, temp, orphans, lock>> /\ temp' = [temp EXCEPT ![p] = NoTemp]
      /\ temp[p] = NoTemp /\ temp \in [Procs -> Temps]
      /\ files \in [Ids -> Values \union {Absent}]
  BY NoTempKept DEF ReadDir, At, Working, StoreInv, StoreTypes, ProcInv, Shape, Places
<1>2. CASE proc' = [proc EXCEPT ![p] = [@ EXCEPT !.pc = "readEntry", !.todo = Entries]]
  <2> DEFINE r == [proc[p] EXCEPT !.pc = "readEntry", !.todo = Entries]
             stored == {j \in Ids : files[j] # Absent}
  <2>1. Entries = {FileEntry(i) : i \in stored}
    BY <1>1, CleanDirectory
  <2>2. Entries \in SUBSET [of : {"file", "temp", "orphan"}, name : Ids \union Procs \union Temps]
    BY <2>1 DEF FileEntry
  <2>3. /\ r \in Goroutines /\ r.pc = "readEntry" /\ r.store = proc[p].store
        /\ r.kind = "list" /\ r.id = proc[p].id /\ r.value = proc[p].value
        /\ r.result = proc[p].result /\ r.todo = Entries /\ r.seen = {}
    BY <1>1, <2>2 DEF Goroutines, Labels
  <2>4. proc' = [proc EXCEPT ![p] = r]
    BY <1>2
  <2> HIDE DEF r
  <2>5. UNION {Found(e.name) : e \in Entries} = UNION {Found(i) : i \in stored}
    BY <2>1, EntryFound
  <2>6. \A i \in Ids : i \notin stored => Found(i) = {}
    BY DEF Found
  <2>7. UNION {Found(i) : i \in stored} = AllRecords
    BY <2>6 DEF AllRecords
  <2>8. Reads(r)
    BY <2>1, <2>3, <2>5, <2>7 DEF Reads
  <2>9. Working(r) /\ Places(r)
    BY <2>3 DEF Working, Places
  <2> QED BY <1>1, <2>3, <2>4, <2>8, <2>9, GoesOn
<1>3. CASE Finish(p, Result("error", {}))
  BY <1>1, <1>3, Fails
<1> QED BY <1>2, <1>3 DEF ReadDir

LEMMA ReadEntryStep ==
  ASSUME StoreInv, NEW p \in Procs, ReadEntry(p)
  PROVE  Implements
<1> DEFINE todo == proc[p].todo
           seen == proc[p].seen
<1>1. /\ proc[p].pc = "readEntry" /\ Working(proc[p]) /\ proc[p] \in Goroutines /\ ProcInv(p)
      /\ proc[p].kind = "list"
      /\ UNCHANGED <<files, temp, orphans, lock>> /\ temp' = [temp EXCEPT ![p] = NoTemp]
      /\ temp[p] = NoTemp /\ temp \in [Procs -> Temps]
      /\ files \in [Ids -> Values \union {Absent}]
  BY NoTempKept DEF ReadEntry, At, Working, StoreInv, StoreTypes, ProcInv, Shape, Places
<1>2. /\ seen \in SUBSET (Ids \X Values)
      /\ todo \subseteq {FileEntry(i) : i \in {j \in Ids : files[j] # Absent}}
      /\ seen \union UNION {Found(e.name) : e \in todo} = AllRecords
  BY <1>1 DEF ProcInv, Reads, Goroutines
<1>3. CASE todo = {} /\ Finish(p, Result("ok", seen))
  <2>1. /\ Result("ok", seen) \in Results /\ Result("ok", seen) # NoResult
        /\ Result("ok", seen).status = "ok"
    BY <1>2, Outcomes
  <2>2. StoreInv'
    BY <1>1, <1>3, <2>1, Ends
  <2>3. /\ Calls[p] = [kind |-> proc[p].kind, id |-> proc[p].id, value |-> proc[p].value,
                       result |-> NoResult]
        /\ Calls' = [Calls EXCEPT ![p].result = Result("ok", seen)]
    BY <1>1, <1>3, <2>1, FinishStep
  <2>4. seen = UNION {Records!Found(files, i) : i \in Ids}
    BY <1>2, <1>3 DEF AllRecords, Found, Records!Found, Records!Absent, Absent
  <2>5. Records!List(p)
    BY <1>1, <2>3, <2>4 DEF Records!List, Records!Pending, Records!Answer, Records!Result,
       Records!NoResult, Result, NoResult
  <2> QED BY <2>2, <2>5 DEF Implements, Records!Next
<1>4. ASSUME NEW e \in todo
      PROVE  ReadResult(e).status = "ok" /\ ReadResult(e).found = Found(e.name)
             /\ Found(e.name) \in SUBSET (Ids \X Values)
  <2>1. PICK i \in Ids : e = FileEntry(i) /\ files[i] # Absent
    BY <1>2, <1>4
  <2>2. e.of = "file" /\ e.name = i
    BY <2>1, EntryFound
  <2>3. <<i, files[i]>> # <<i, Absent>>
    BY <2>1
  <2>4. <<i, files[i]>> \in Found(i)
    BY <2>3 DEF Found
  <2>5. Found(i) # {} /\ Found(i) \in SUBSET (Ids \X Values)
    BY <2>4, FoundTypes DEF StoreInv
  <2> QED BY <2>2, <2>5 DEF ReadResult, Result
<1>5. ASSUME NEW e \in todo,
             proc' = [proc EXCEPT ![p] = [@ EXCEPT !.todo = todo \ {e},
                                                  !.seen = seen \union ReadResult(e).found]]
      PROVE  Implements
  <2> DEFINE left == todo \ {e}
             more == seen \union ReadResult(e).found
             r == [proc[p] EXCEPT !.todo = left, !.seen = more]
  <2>1. /\ left \in SUBSET [of : {"file", "temp", "orphan"}, name : Ids \union Procs \union Temps]
        /\ more \in SUBSET (Ids \X Values) /\ more = seen \union Found(e.name)
    BY <1>1, <1>2, <1>4, <1>5 DEF Goroutines
  <2> HIDE DEF left, more
  <2>2. /\ r \in Goroutines /\ r.pc = "readEntry" /\ r.store = proc[p].store
        /\ r.kind = "list" /\ r.id = proc[p].id /\ r.value = proc[p].value
        /\ r.result = proc[p].result /\ r.todo = left /\ r.seen = more
    BY <1>1, <2>1 DEF Goroutines
  <2>3. /\ r \in Goroutines /\ r.pc = "readEntry" /\ r.store = proc[p].store
        /\ r.kind = "list" /\ r.id = proc[p].id /\ r.value = proc[p].value
        /\ r.result = proc[p].result /\ r.todo = todo \ {e} /\ r.seen = seen \union Found(e.name)
    BY <2>1, <2>2 DEF left
  <2>4. proc' = [proc EXCEPT ![p] = r]
    BY <1>5 DEF left, more
  <2> HIDE DEF r
  <2>5. UNION {Found(x.name) : x \in todo}
          = Found(e.name) \union UNION {Found(x.name) : x \in todo \ {e}}
    BY <1>5
  <2>6. r.seen \union UNION {Found(x.name) : x \in r.todo} = AllRecords
    BY <1>2, <2>3, <2>5
  <2>7. Reads(r)
    BY <1>2, <2>3, <2>6 DEF Reads
  <2>8. Working(r) /\ Places(r)
    BY <2>3 DEF Working, Places
  <2> QED BY <1>1, <2>3, <2>4, <2>7, <2>8, GoesOn
<1>6. CASE Finish(p, Result("error", {}))
  BY <1>1, <1>6, Fails
<1> QED BY <1>3, <1>4, <1>5, <1>6 DEF ReadEntry

LEMMA CrashStep ==
  ASSUME StoreInv, Crash
  PROVE  Implements
<1>1. /\ "crash" \in Faults /\ UNCHANGED files
      /\ proc' = [p \in Procs |-> Idle] /\ temp' = [p \in Procs |-> NoTemp]
      /\ orphans' = orphans \union ({temp[p] : p \in Procs} \ {NoTemp})
      /\ lock' = [s \in Stores |-> [readers |-> {}, writers |-> {}]]
  BY DEF Crash
<1>2. StoreTypes'
  BY <1>1, Outcomes DEF StoreInv, StoreTypes
<1>3. ASSUME NEW p \in Procs PROVE ProcInv(p)'
  BY <1>1 DEF ProcInv, Shape, Places, Locked, Reads, Working, Idle, NoResult
<1>4. Records!Crash
  BY <1>1 DEF Records!Crash, Calls, CallOf, Idle, Records!NoCall, Records!NoResult, NoResult
<1> QED BY <1>1, <1>2, <1>3, <1>4 DEF Implements, StoreInv, Records!Next

-----------------------------------------------------------------------------
LEMMA StoreInitInv == Init => StoreInv /\ Records!Init
<1> SUFFICES ASSUME Init PROVE StoreInv /\ Records!Init
  OBVIOUS
<1>1. StoreTypes
  BY Outcomes DEF Init, StoreTypes
<1>2. ASSUME NEW p \in Procs PROVE ProcInv(p)
  BY DEF Init, ProcInv, Shape, Places, Locked, Reads, Working, Idle, NoResult
<1>3. Records!Init
  BY DEF Init, Records!Init, Calls, CallOf, Idle, Records!NoCall, Records!NoResult, NoResult,
     Records!Absent, Absent
<1> QED BY <1>1, <1>2, <1>3 DEF Init, StoreInv

LEMMA StoreNext ==
  ASSUME OneRepository, NoListAfterCrash, StoreInv, [Next]_vars
  PROVE  Implements
<1>1. CASE UNCHANGED vars
  <2>1. StoreInv'
    BY <1>1 DEF vars, StoreInv, StoreTypes, ProcInv, Shape, Places, Locked, Reads, Working,
       AllRecords, Found
  <2>2. UNCHANGED <<files, Calls>>
    BY <1>1 DEF vars, Calls
  <2> QED BY <2>1, <2>2 DEF Implements
<1>2. CASE Next
  BY <1>2, CallStep, ContextEndedStep, LockStep, UnlockStep, StatStep, CreateTempStep,
     EncodeStep, RenameStep, RemoveStep, ReadFileStep, ReadDirStep, ReadEntryStep, CrashStep
     DEF Next
<1> QED BY <1>1, <1>2

\* The inductive invariant of one repository object: who works with the files, what a
\* create and a list rely on, and where the temporary files are.
THEOREM StoreInvariant ==
  ASSUME OneRepository, NoListAfterCrash
  PROVE  Spec => []StoreInv
<1>1. Init => StoreInv
  BY StoreInitInv
<1>2. StoreInv /\ [Next]_vars => StoreInv'
  BY StoreNext DEF Implements
<1> QED BY <1>1, <1>2, PTL DEF Spec

\* jsonfile.Repository, with one object for a directory that is not listed after a crash:
\* every operation takes effect at once or not at all, whatever others do, disks fail,
\* contexts end or the process crashes.
THEOREM StoreIsAtomic ==
  ASSUME OneRepository, NoListAfterCrash
  PROVE  Spec => OperationsAtomic
<1>1. Init => StoreInv /\ Records!Init
  BY StoreInitInv
<1>2. StoreInv /\ [Next]_vars => StoreInv' /\ [Records!Next]_<<files, Calls>>
  BY StoreNext DEF Implements
<1> QED BY <1>1, <1>2, PTL DEF Spec, OperationsAtomic, Records!Spec

\* No operation of such an object meets half a document or a vanished name.
THEOREM NoPartialRecords ==
  ASSUME OneRepository, NoListAfterCrash
  PROVE  Spec => []NoPartialRead
<1>1. StoreInv => NoPartialRead
  BY DEF StoreInv, StoreTypes, ProcInv, Shape, NoPartialRead, TypeOK, Goroutines
<1> QED BY <1>1, StoreInvariant, PTL

=============================================================================
