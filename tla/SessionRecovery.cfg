SPECIFICATION FairSpec
CONSTANTS
  Agents = {a1, a2, a3}
  Home = a1
  Procs = {p1, p2}
  Requests = {w1, w2}
  Outages = {{}, {a1}}
  MaxFaults = 1
PROPERTIES RequestsAreAnswered QuietLossIsRecovered OnlyFailedNodesAreLeft
