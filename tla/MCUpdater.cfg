SPECIFICATION FairSpec
CONSTANTS
  Procs = {"p", "q"}
  Caches = {"w2-client"}
  Files = {"f"}
  Manifest <- OneFile
  MaxRelease = 1
  MaxExe = 2
INVARIANTS ExeKept
PROPERTIES Settles
CHECK_DEADLOCK FALSE
