SPECIFICATION Spec
CONSTANTS
  p1 = p1
  p2 = p2
  NoId = NoId
  Id = {p1, p2}
  n1 = n1
  n2 = n2
  Name = {n1, n2}
  k1 = k1
  Secret = {k1}
  Mishaps = {"refuse", "gone", "crash", "meanwhile"}
  MaxOps = 5
INVARIANTS WellFormed NoOrphans RestoreAtomic RestoreExact
