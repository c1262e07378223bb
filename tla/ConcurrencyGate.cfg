SPECIFICATION FairSpec
CONSTANTS
  Tasks = {t1, t2, t3, t4, t5}
  Concurrency = 2
  MaxQueue = 2
INVARIANTS PermitsAreHeld
PROPERTIES GrantsInOrder WaitersAreServed
