---------------------------- MODULE MCJsonStore ----------------------------
(* Small instances of JsonStore. *)
EXTENDS JsonStore, TLC

CONSTANTS s1, s2

\* One repository object, used for everything.
UsesOne == s1 :> Kinds

\* The device service's repository, and the one the product service reads and
\* saves devices through.
UsesDevices == (s1 :> Kinds) @@ (s2 :> {"get", "save"})

\* Nobody lists what a crash has left behind, and one orphan is enough.
NoListOverOrphans ==
  /\ orphans = {} \/ \A p \in Procs : proc[p].kind # "list"
  /\ Cardinality(orphans) <= 1

\* Three goroutines with one value, or two with both.
ThreeOrTwo ==
  Cardinality({p \in Procs : ~At(p, "idle")}) = 3 =>
    \A v, w \in Values \cap ({files[i] : i \in Ids} \union {proc[p].value : p \in Procs}) : v = w

MCSpec == Init /\ [][Next /\ NoListOverOrphans' /\ ThreeOrTwo']_vars

Symmetry == Permutations(Procs) \union Permutations(Ids) \union Permutations(Values)
=============================================================================
