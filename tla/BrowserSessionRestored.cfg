SPECIFICATION Spec
CONSTANTS
  Procs = {p1, p2}
  Keys = {"session", "revoked"}
  Revocations = {"revoked"}
  Requests = {w1, w2}
  Failures = {{}}
SYMMETRY Symmetry
INVARIANTS LogoutHolds
