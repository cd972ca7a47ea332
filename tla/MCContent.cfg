SPECIFICATION Spec
CONSTANTS
  Procs = {p, q}
  Caches = {"w2-client"}
  Files = {"f", "g"}
  Manifest <- TwoFiles
  MaxRelease = 2
  MaxExe = 1
SYMMETRY Alike
INVARIANTS RecordedIsThere
CHECK_DEADLOCK FALSE
