\* A tool call whose upstream cannot be reached, after it has claimed its key.
SPECIFICATION FairSystem
CONSTANTS
  r1 = r1
  r2 = r2
  r3 = r3
  r4 = r4
  k1 = k1
  k2 = k2
  k3 = k3
  a1 = a1
  a2 = a2
  a3 = a3
  NoTx = NoTx
  Reqs = {r1, r2}
  Proc <- ByServer
  McpReqs = {r2}
  UpstreamDown = TRUE
  Keys = {k1}
  Auths = {a1, a2}
  Offers <- BothRails
  Price = 1
  MaxDaily = 3
  Window = 1
  Rolling = FALSE
  MaxRetries = 1
  Lossy = {}
  MaxTime = 0
  MaxCrashes = 0
  MaxInFlight = 2
CHECK_DEADLOCK FALSE
PROPERTIES
  ClaimResolves
