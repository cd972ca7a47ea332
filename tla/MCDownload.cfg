SPECIFICATION FairSpec
CONSTANTS
  Servers = {"A", "B"}
  Unset = "unset"
  Protocols = {1, 2}
  MaxJoins = 2
  Files = {"f", "g", "old"}
  Required <- MCRequired
  Disks <- MCDisks
  MaxGamestates = 2
INVARIANTS PlacedIsAnswer NoMixup
PROPERTIES JoinsAsAsked NoLateJoin KeepsFiles DownloadEnds Listed
CHECK_DEADLOCK FALSE
