SPECIFICATION Spec
CONSTANTS
  Agents = {a1, a2}
  LocalAgents = {a2}
  HomeAgent = a1
  Ops = {w1, w2}
  NoOp = NoOp
  NoRecord = NoRecord
  MaxTime = 2
  MaxEpoch = 2
  MaxCopies = 2
INVARIANTS OwnerCopyIsFreshest RecordIsUsable
PROPERTIES WritesAreFenced CaptureNeverRegresses GoneForGood ImplementsOwnership
