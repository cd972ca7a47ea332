SPECIFICATION FairSpec
CONSTANTS
  MaxClients = 3
  Types = {"kick"}
  VoteMin <- Two
  VoteLimit <- One
  VoteDelay <- Zero
  VoteRatio <- SixTenths
  MaxPersons = 3
  MaxTime = 1
INVARIANTS FairCount HeldToOwnCalls
PROPERTIES VotesEnd
CHECK_DEADLOCK FALSE
