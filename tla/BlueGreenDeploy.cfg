SPECIFICATION Spec
CONSTANTS
  Releases = {r0, r1, r2}
  Initial = r0
  Files = {f1, f2}
  Ports = {blue, green}
SYMMETRY Symmetry
INVARIANTS TrafficIsServed OneWorker ActiveIsAlone PageHasItsRelease
           ReleasesAreKept RecoveryIsPossible
PROPERTIES ConnectionsAreNotCut SeenEditsSurvive BotIsHandedOver
