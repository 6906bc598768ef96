SPECIFICATION FairSpec
CONSTANTS
  w1 = w1
  w2 = w2
  Words <- MCWords
  MaxPublished = 4
INVARIANTS
  NoTornRead
  NewestIsOffered
PROPERTIES
  ImplementsFairRegister
CHECK_DEADLOCK FALSE
