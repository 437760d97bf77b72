SPECIFICATION MCSpec
SYMMETRY Symmetry
CONSTANTS
  s1 = s1
  s2 = s2
  Procs = {p1, p2, p3}
  Stores = {s1}
  Uses <- UsesOne
  Ids = {i1, i2}
  Values = {v1, v2}
  Faults = {"disk", "crash", "cancel"}
INVARIANTS
  NoPartialRead
PROPERTY OperationsAtomic
