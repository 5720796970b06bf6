\* A settle whose answer is lost, and a buyer that signs again for its retry.
SPECIFICATION Spec
CONSTANTS
  r1 = r1
  r2 = r2
  r3 = r3
  r4 = r4
  k1 = k1
  k2 = k2
  k3 = k3
  a1 = a1
  a2 = a2
  a3 = a3
  NoTx = NoTx
  Reqs = {r1, r2}
  Proc <- ByServer
  McpReqs = {}
  UpstreamDown = FALSE
  Keys = {k1}
  Auths = {a1, a2}
  Offers <- SignsAgain
  Price = 1
  MaxDaily = 3
  Window = 1
  Rolling = FALSE
  MaxRetries = 0
  Lossy = {k1}
  MaxTime = 0
  MaxCrashes = 0
  MaxInFlight = 1
SYMMETRY Symmetry
CHECK_DEADLOCK FALSE
INVARIANTS
  OneChargePerKey
