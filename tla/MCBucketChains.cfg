SPECIFICATION ChainSpec
CONSTANTS
  Addresses = {"a", "b", "c"}
  Hashes = {1, 2}
  HashOf <- MCHashOf
  MaxBuckets = 2
  Burst = 2
  Period = 2
  Half = 32
  Starts <- MCStarts
  Duration = 10
  Watched = "a"
INVARIANTS RateKept PatientIsHeard
PROPERTIES FindsAll
CHECK_DEADLOCK FALSE
