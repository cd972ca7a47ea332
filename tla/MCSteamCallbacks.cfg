SPECIFICATION FairSpec
CONSTANTS
  Created = "created"
  Entered = "entered"
  MaxResults = 4
  MaxHandlers = 2
INVARIANTS AllHear
PROPERTIES InOrderOnce Answered
CHECK_DEADLOCK FALSE
