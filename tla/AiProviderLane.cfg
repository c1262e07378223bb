SPECIFICATION LaneSpec
CONSTANTS
  Requests = {r1, r2, r3, r4, r5}
  MaxActive = 2
  Lanes = {l1, l2}
  NoLane = NoLane
INVARIANT OneLane
PROPERTIES LaneGrantsInOrder
