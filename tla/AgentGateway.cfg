SPECIFICATION FairSpec
CONSTANTS
  Conns = {c1, c2}
  Procs = {p1, p2}
  Reqs = {r1, r2}
  Maintenance = {r2}
  Limit = 1
  QueueLimit = 1
  NoConn = NoConn
INVARIANTS PendingIsAwaited CapacityRespected QueueIsCounted
PROPERTIES OpenSessionKeepsItsPlace BusyOnlyFromAbandoned RequestsSettle DeadSessionYields
