SPECIFICATION FairSpec
CONSTANTS
  Servers = {a,b,c}
  Loopback = Loopback
  MaxEntries = 2
  MaxStored = 3
  MaxGets = 1
  MaxWrites = 2
  MaxLosses = 1
  MaxSessions = 2
INVARIANTS WellKept StoredAsExpected
PROPERTIES EventuallyRetrieved
