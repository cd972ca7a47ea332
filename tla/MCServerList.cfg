SPECIFICATION FairBrowserSpec
CONSTANTS
  Addresses = {"a", "b", "c", "d"}
  Filtered = {"a"}
  StoredList <- MCStored
  Packets <- MCPackets
  Latencies = {1}
  MaxGlobal = 2
  MaxStoredServers = 2
  MaxSlots = 2
  MaxRefreshes = 2
PROPERTIES RefreshEnds
CHECK_DEADLOCK FALSE
