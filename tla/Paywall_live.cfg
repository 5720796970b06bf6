\* Every claim comes to an end: an HTTP request and a tool call, lost answers,
\* retries, a clock that moves once, no restart, and an upstream that can be
\* reached.  The requests are finitely many, so the system ends.
SPECIFICATION FairSystem
CONSTANTS
  r1 = r1
  r2 = r2
  r3 = r3
  r4 = r4
  k1 = k1
  k2 = k2
  k3 = k3
  a1 = a1
  a2 = a2
  a3 = a3
  NoTx = NoTx
  Reqs = {r1, r2}
  Proc <- ByServer
  McpReqs = {r2}
  UpstreamDown = FALSE
  Keys = {k1, k2}
  Auths = {a1, a2}
  Offers <- BothRails
  Price = 1
  MaxDaily = 3
  Window = 1
  Rolling = FALSE
  MaxRetries = 1
  Lossy = {k1, k2}
  MaxTime = 1
  MaxCrashes = 0
  MaxInFlight = 2
CHECK_DEADLOCK FALSE
PROPERTIES
  ClaimResolves
  RequestAnswered
