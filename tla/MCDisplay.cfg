SPECIFICATION BrowserSpec
CONSTANTS
  Addresses = {"a", "b", "c", "d"}
  Filtered = {"a"}
  StoredList <- MCStored
  Packets <- MCPackets
  Latencies = {1, 2}
  MaxGlobal = 4
  MaxStoredServers = 2
  MaxSlots = 2
  MaxRefreshes = 2
INVARIANTS NotTwice InfoIsOwn Sorted AllAsked
CHECK_DEADLOCK FALSE
