---------------------------- MODULE RecordStore ----------------------------
(***************************************************************************)
(* What the services rely on when they use a JSON repository: a map from   *)
(* ids to records whose operations are atomic and, once they have taken    *)
(* effect, durable (the methods of internal/jsonfile/store.go as their     *)
(* callers see them).  An operation takes effect once, between its call    *)
(* and its return, or fails and changes nothing.                           *)
(***************************************************************************)
CONSTANTS
  Procs,    \* the goroutines that use the repository
  Ids,      \* record ids
  Values,   \* record contents
  Kinds     \* the operations in use

VARIABLES
  records,  \* the stored records
  call      \* the operation each goroutine has called, and its result

Absent == "absent"

\* What an operation returns, and the records it returns.
NoResult == [status |-> "none", found |-> {}]

Result(status, found) == [status |-> status, found |-> found]

NoCall == [kind |-> "none", id |-> "none", value |-> "none", result |-> NoResult]

\* The record of an id, as the set that GetByID returns and List collects.
Found(r, i) == {<<i, r[i]>>} \ {<<i, Absent>>}

Call(p, kind, i, v) ==
  /\ call[p] = NoCall
  /\ call' = [call EXCEPT ![p] = [kind |-> kind, id |-> i, value |-> v,
                                  result |-> NoResult]]
  /\ UNCHANGED records

Pending(p, kind) == call[p].kind = kind /\ call[p].result = NoResult

Answer(p, result) == call' = [call EXCEPT ![p].result = result]

Create(p) ==
  LET i == call[p].id IN
  /\ Pending(p, "create")
  /\ \/ /\ records[i] = Absent
        /\ records' = [records EXCEPT ![i] = call[p].value]
        /\ Answer(p, Result("ok", {}))
     \/ /\ records[i] # Absent
        /\ Answer(p, Result("conflict", {}))
        /\ UNCHANGED records

Save(p) ==
  /\ Pending(p, "save")
  /\ records' = [records EXCEPT ![call[p].id] = call[p].value]
  /\ Answer(p, Result("ok", {}))

Delete(p) ==
  LET i == call[p].id IN
  /\ Pending(p, "delete")
  /\ records' = [records EXCEPT ![i] = Absent]
  /\ Answer(p, Result(IF records[i] = Absent THEN "notFound" ELSE "ok", {}))

GetByID(p) ==
  LET found == Found(records, call[p].id) IN
  /\ Pending(p, "get")
  /\ Answer(p, Result(IF found = {} THEN "notFound" ELSE "ok", found))
  /\ UNCHANGED records

List(p) ==
  /\ Pending(p, "list")
  /\ Answer(p, Result("ok", UNION {Found(records, i) : i \in Ids}))
  /\ UNCHANGED records

Fail(p) ==
  /\ call[p] # NoCall
  /\ call[p].result = NoResult
  /\ Answer(p, Result("error", {}))
  /\ UNCHANGED records

Return(p) ==
  /\ call[p].result # NoResult
  /\ call' = [call EXCEPT ![p] = NoCall]
  /\ UNCHANGED records

\* The process dies: calls are lost, whether they had taken effect or not.
Crash ==
  /\ call' = [p \in Procs |-> NoCall]
  /\ UNCHANGED records

Init ==
  /\ records = [i \in Ids |-> Absent]
  /\ call = [p \in Procs |-> NoCall]

Next ==
  \/ \E p \in Procs, kind \in Kinds, i \in Ids, v \in Values : Call(p, kind, i, v)
  \/ \E p \in Procs :
       \/ Create(p) \/ Save(p) \/ Delete(p) \/ GetByID(p) \/ List(p)
       \/ Fail(p) \/ Return(p)
  \/ Crash

Spec == Init /\ [][Next]_<<records, call>>
=============================================================================
