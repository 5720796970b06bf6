\* A key claimed in one window and settled in the next.
SPECIFICATION Spec
CONSTANTS
  r1 = r1
  r2 = r2
  r3 = r3
  r4 = r4
  k1 = k1
  k2 = k2
  k3 = k3
  a1 = a1
  a2 = a2
  a3 = a3
  NoTx = NoTx
  Reqs = {r1, r2, r3}
  Proc <- ByServer
  McpReqs = {}
  UpstreamDown = FALSE
  Keys = {k1, k2}
  Auths = {a1, a2}
  Offers <- OwnPayment
  Price = 1
  MaxDaily = 1
  Window = 1
  Rolling = FALSE
  MaxRetries = 0
  Lossy = {}
  MaxTime = 1
  MaxCrashes = 0
  MaxInFlight = 1
SYMMETRY Symmetry
CHECK_DEADLOCK FALSE
PROPERTIES
  AdmittedWithinMax
