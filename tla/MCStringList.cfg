SPECIFICATION Spec
CONSTANTS
  Strings = {upper, lower}
  Lower <- LowerCase
  Long = {lower}
  Threads = {t1, t2}
  Users = {u1, u2}
  None = None
  MaxId = 3
  MaxRefs = 2
  upper = upper
  lower = lower
SYMMETRY OwnerSymmetry
CONSTRAINT Explored
INVARIANTS TableMatches FirstFreeIsFree CountedUnlessBorrowed
PROPERTIES KeepsMeaning
CHECK_DEADLOCK FALSE
