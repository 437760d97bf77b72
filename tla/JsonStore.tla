----------------------------- MODULE JsonStore -----------------------------
(***************************************************************************)
(* The generic JSON repository (internal/jsonfile/store.go): one file per  *)
(* record, written to a temporary file of the same directory and renamed.  *)
(*                                                                         *)
(* A repository object locks the operations of its own callers.  Two       *)
(* objects may work on one directory: the application makes two device     *)
(* repositories (internal/app/app.go:54 and 66), each with its own lock.   *)
(*                                                                         *)
(* Every access to the file system is a step; a crash may happen between   *)
(* any two.                                                                *)
(***************************************************************************)
EXTENDS Naturals, FiniteSets

CONSTANTS
  Procs,    \* the goroutines that use the repository
  Stores,   \* the repository objects that share the directory
  Uses,     \* for each repository object, the operations it is used for
  Ids,      \* record ids
  Values,   \* record contents
  Faults    \* what may go wrong: "disk", "crash", "cancel"

VARIABLES
  files,    \* the record files: absent or a whole document
  temp,     \* each goroutine's temporary file
  orphans,  \* the temporary files that crashes have left behind
  lock,     \* each object's RWMutex: the readers and the writers inside
  proc      \* the goroutines: program counter, operation, result

vars == <<files, temp, orphans, lock, proc>>

Absent == "absent"

Writing == {"create", "save", "delete"}

Kinds == Writing \union {"get", "list"}

\* A temporary file holds nothing complete yet, or a whole document.
NoTemp == [state |-> "none", id |-> "none", value |-> "none"]

NoResult == [status |-> "none", found |-> {}]

Result(status, found) == [status |-> status, found |-> found]

Idle ==
  [pc |-> "idle", store |-> "none", kind |-> "none", id |-> "none",
   value |-> "none", todo |-> {}, seen |-> {}, result |-> NoResult]

\* The labels of a goroutine: each names the step it takes next.
Labels ==
  {"idle", "lock", "stat", "temp", "encode", "rename", "remove", "read",
   "readDir", "readEntry", "unlock"}

At(p, label) == proc[p].pc = label

Goto(p, label) == proc' = [proc EXCEPT ![p].pc = label]

\* The operation's outcome is settled; what is left is to release the lock.
Finish(p, result) ==
  proc' = [proc EXCEPT ![p] = [@ EXCEPT !.pc = "unlock", !.result = result]]

Found(i) == {<<i, files[i]>>} \ {<<i, Absent>>}

DiskFails == "disk" \in Faults

-----------------------------------------------------------------------------
(***************************************************************************)
(* Calls and locks                                                         *)
(***************************************************************************)
Call(p, s, kind, i, v) ==
  /\ At(p, "idle")
  /\ kind \in Uses[s]
  /\ proc' = [proc EXCEPT ![p] = [Idle EXCEPT !.pc = "lock", !.store = s,
                                    !.kind = kind, !.id = i, !.value = v]]
  /\ UNCHANGED <<files, temp, orphans, lock>>

\* Every method begins with ctx.Err().
ContextEnded(p) ==
  /\ "cancel" \in Faults
  /\ At(p, "lock")
  /\ Finish(p, Result("error", {}))
  /\ UNCHANGED <<files, temp, orphans, lock>>

\* The first step of each method under its lock.
Body(kind) ==
  CASE kind = "create" -> "stat"
    [] kind = "save"   -> "temp"
    [] kind = "delete" -> "remove"
    [] kind = "get"    -> "read"
    [] kind = "list"   -> "readDir"

\* Mutant: writers do not exclude one another.
LockShared(p) ==
  LET s == proc[p].store IN
  /\ At(p, "lock")
  /\ IF proc[p].kind \in Writing
     THEN /\ lock[s].readers = {}
          /\ lock' = [lock EXCEPT ![s].writers = @ \union {p}]
     ELSE /\ lock[s].writers = {}
          /\ lock' = [lock EXCEPT ![s].readers = @ \union {p}]
  /\ Goto(p, Body(proc[p].kind))
  /\ UNCHANGED <<files, temp, orphans>>

\* Mutant: readers take no lock.
LockWriters(p) ==
  LET s == proc[p].store IN
  /\ At(p, "lock")
  /\ \/ /\ proc[p].kind \in Writing
        /\ lock[s].writers = {}
        /\ lock' = [lock EXCEPT ![s].writers = {p}]
     \/ proc[p].kind \notin Writing /\ UNCHANGED lock
  /\ Goto(p, Body(proc[p].kind))
  /\ UNCHANGED <<files, temp, orphans>>

\* mutex.Lock for the methods that write, mutex.RLock for those that read.
Lock(p) ==
  LET s == proc[p].store IN
  /\ At(p, "lock")
  /\ lock[s].writers = {}
  /\ \/ /\ proc[p].kind \in Writing
        /\ lock[s].readers = {}
        /\ lock' = [lock EXCEPT ![s].writers = {p}]
     \/ /\ proc[p].kind \notin Writing
        /\ lock' = [lock EXCEPT ![s].readers = @ \union {p}]
  /\ Goto(p, Body(proc[p].kind))
  /\ UNCHANGED <<files, temp, orphans>>

Unlock(p) ==
  LET s == proc[p].store IN
  /\ At(p, "unlock")
  /\ lock' = [lock EXCEPT ![s] = [readers |-> @.readers \ {p},
                                  writers |-> @.writers \ {p}]]
  /\ proc' = [proc EXCEPT ![p] = Idle]
  /\ UNCHANGED <<files, temp, orphans>>

-----------------------------------------------------------------------------
(***************************************************************************)
(* Writing                                                                 *)
(***************************************************************************)
\* Create looks for the record's file.
Stat(p) ==
  /\ At(p, "stat")
  /\ \/ files[proc[p].id] = Absent /\ Goto(p, "temp")
     \/ files[proc[p].id] # Absent /\ Finish(p, Result("conflict", {}))
     \/ DiskFails /\ Finish(p, Result("error", {}))
  /\ UNCHANGED <<files, temp, orphans, lock>>

\* writeFile: the temporary file appears, empty.
CreateTemp(p) ==
  /\ At(p, "temp")
  /\ \/ /\ temp' = [temp EXCEPT ![p] = [state |-> "partial", id |-> proc[p].id,
                                       value |-> proc[p].value]]
        /\ Goto(p, "encode")
     \/ DiskFails /\ Finish(p, Result("error", {})) /\ UNCHANGED temp
  /\ UNCHANGED <<files, orphans, lock>>

\* Mutant: the record's file itself is written, and can be seen half written.
EncodeInPlace(p) ==
  /\ At(p, "encode")
  /\ temp' = [temp EXCEPT ![p].state = "whole"]
  /\ files' = [files EXCEPT ![proc[p].id] = "partial"]
  /\ Goto(p, "rename")
  /\ UNCHANGED <<orphans, lock>>

\* The document is encoded into the temporary file; an error removes it.
Encode(p) ==
  /\ At(p, "encode")
  /\ \/ /\ temp' = [temp EXCEPT ![p].state = "whole"]
        /\ Goto(p, "rename")
     \/ /\ DiskFails
        /\ temp' = [temp EXCEPT ![p] = NoTemp]
        /\ Finish(p, Result("error", {}))
  /\ UNCHANGED <<files, orphans, lock>>

\* Mutant: a rename that fails leaves the temporary file.
RenameNoCleanup(p) ==
  /\ At(p, "rename")
  /\ \/ /\ files' = [files EXCEPT ![proc[p].id] = proc[p].value]
        /\ temp' = [temp EXCEPT ![p] = NoTemp]
        /\ Finish(p, Result("ok", {}))
     \/ DiskFails /\ Finish(p, Result("error", {})) /\ UNCHANGED <<files, temp>>
  /\ UNCHANGED <<orphans, lock>>

\* The rename commits; a rename that fails removes the temporary file.
Rename(p) ==
  /\ At(p, "rename")
  /\ \/ /\ files' = [files EXCEPT ![proc[p].id] = proc[p].value]
        /\ Finish(p, Result("ok", {}))
     \/ DiskFails /\ Finish(p, Result("error", {})) /\ UNCHANGED files
  /\ temp' = [temp EXCEPT ![p] = NoTemp]
  /\ UNCHANGED <<orphans, lock>>

Remove(p) ==
  LET i == proc[p].id IN
  /\ At(p, "remove")
  /\ \/ /\ files' = [files EXCEPT ![i] = Absent]
        /\ Finish(p, Result(IF files[i] = Absent THEN "notFound" ELSE "ok", {}))
     \/ DiskFails /\ Finish(p, Result("error", {})) /\ UNCHANGED files
  /\ UNCHANGED <<temp, orphans, lock>>

-----------------------------------------------------------------------------
(***************************************************************************)
(* Reading                                                                 *)
(***************************************************************************)
ReadFile(p) ==
  LET found == Found(proc[p].id) IN
  /\ At(p, "read")
  /\ \/ Finish(p, Result(IF found = {} THEN "notFound" ELSE "ok", found))
     \/ DiskFails /\ Finish(p, Result("error", {}))
  /\ UNCHANGED <<files, temp, orphans, lock>>

\* List takes the names of the directory.  A temporary file is called
\* .tmp-*.json, and List reads every .json file.
Entries ==
  {[of |-> "file", name |-> i] : i \in {j \in Ids : files[j] # Absent}}
    \union {[of |-> "temp", name |-> p] : p \in {q \in Procs : temp[q] # NoTemp}}
    \union {[of |-> "orphan", name |-> t] : t \in orphans}

ReadDir(p) ==
  /\ At(p, "readDir")
  /\ \/ proc' = [proc EXCEPT ![p] = [@ EXCEPT !.pc = "readEntry", !.todo = Entries]]
     \/ DiskFails /\ Finish(p, Result("error", {}))
  /\ UNCHANGED <<files, temp, orphans, lock>>

\* What readFile finds under a name by now: nothing, a document that cannot be
\* decoded, or a record.
ReadResult(e) ==
  LET t == CASE e.of = "temp" -> temp[e.name] [] e.of = "orphan" -> e.name
               [] e.of = "file" -> NoTemp
  IN
  IF e.of = "file"
  THEN Result(IF Found(e.name) = {} THEN "notFound" ELSE "ok", Found(e.name))
  ELSE IF t.state = "whole" THEN Result("ok", {<<t.id, t.value>>})
  ELSE Result(IF t.state = "partial" THEN "decode" ELSE "notFound", {})

\* List reads the files one by one; the first error ends it.
ReadEntry(p) ==
  /\ At(p, "readEntry")
  /\ \/ proc[p].todo = {} /\ Finish(p, Result("ok", proc[p].seen))
     \/ \E e \in proc[p].todo :
          LET read == ReadResult(e) IN
          \/ /\ read.status = "ok"
             /\ proc' = [proc EXCEPT ![p] = [@ EXCEPT !.todo = proc[p].todo \ {e},
                                                     !.seen = proc[p].seen \union read.found]]
          \/ read.status # "ok" /\ Finish(p, Result(read.status, {}))
     \/ DiskFails /\ Finish(p, Result("error", {}))
  /\ UNCHANGED <<files, temp, orphans, lock>>

-----------------------------------------------------------------------------
\* The process dies and starts again; nothing removes its temporary files.
Crash ==
  /\ "crash" \in Faults
  /\ proc' = [p \in Procs |-> Idle]
  /\ temp' = [p \in Procs |-> NoTemp]
  /\ orphans' = orphans \union ({temp[p] : p \in Procs} \ {NoTemp})
  /\ lock' = [s \in Stores |-> [readers |-> {}, writers |-> {}]]
  /\ UNCHANGED files

Init ==
  /\ files = [i \in Ids |-> Absent]
  /\ temp = [p \in Procs |-> NoTemp]
  /\ orphans = {}
  /\ lock = [s \in Stores |-> [readers |-> {}, writers |-> {}]]
  /\ proc = [p \in Procs |-> Idle]

Next ==
  \/ \E p \in Procs, s \in Stores, kind \in Kinds, i \in Ids, v \in Values :
       Call(p, s, kind, i, v)
  \/ \E p \in Procs :
       \/ ContextEnded(p) \/ Lock(p) \/ Unlock(p)
       \/ Stat(p) \/ CreateTemp(p) \/ Encode(p) \/ Rename(p) \/ Remove(p)
       \/ ReadFile(p) \/ ReadDir(p) \/ ReadEntry(p)
  \/ Crash

Spec == Init /\ [][Next]_vars

-----------------------------------------------------------------------------
Temps == [state : {"none", "partial", "whole"}, id : Ids \union {"none"},
          value : Values \union {"none"}]

Results == [status : {"none", "ok", "conflict", "notFound", "decode", "error"},
            found : SUBSET (Ids \X Values)]

\* Types of the directory, the locks and the goroutines.  A goroutine that has
\* called an operation works on a record of the repository, and one past its
\* rename has no temporary file any more.
TypeOK ==
  /\ files \in [Ids -> Values \union {Absent}]
  /\ temp \in [Procs -> Temps]
  /\ orphans \subseteq Temps
  /\ lock \in [Stores -> [readers : SUBSET Procs, writers : SUBSET Procs]]
  /\ \A p \in Procs :
       /\ proc[p].pc \in Labels
       /\ proc[p].kind \in Kinds \union {"none"}
       /\ proc[p].todo \subseteq [of : {"file", "temp", "orphan"},
                                 name : Ids \union Procs \union Temps]
       /\ proc[p].seen \subseteq Ids \X Values
       /\ proc[p].result \in Results
       /\ temp[p] # NoTemp <=> proc[p].pc \in {"encode", "rename"}

\* Types; and no operation meets a document that is only partly written, nor a name
\* that has vanished under a List.
NoPartialRead ==
  /\ TypeOK
  /\ \A p \in Procs :
       /\ proc[p].result.status # "decode"
       /\ proc[p].kind = "list" => proc[p].result.status # "notFound"

\* The repository as its callers see it: the files are the records, and an
\* operation has taken effect when its result is settled.
CallOf(r) ==
  IF r.pc = "idle" THEN [kind |-> "none", id |-> "none", value |-> "none", result |-> NoResult]
  ELSE [kind |-> r.kind, id |-> r.id, value |-> r.value, result |-> r.result]

Calls == [p \in Procs |-> CallOf(proc[p])]

Records == INSTANCE RecordStore WITH records <- files, call <- Calls

\* Every operation is atomic: Create detects every conflict, and List returns the
\* records of one moment, whatever the other goroutines do meanwhile; what an
\* operation has written survives a crash, and one that was cut off leaves the
\* old record whole.
OperationsAtomic == Records!Spec
=============================================================================
