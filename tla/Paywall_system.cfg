\* Two HTTP requests and a tool call over one ledger.  Every settle call for k1
\* is answered; those for k2 may outlive the client's timeout.  k1 comes with
\* an x402 authorization or, over HTTP, a Visa credential; k2 with the same
\* authorization.  One restart of either process.  The requests are finitely
\* many, so the system ends.
SPECIFICATION SystemSpec
CONSTANTS
  r1 = r1
  r2 = r2
  r3 = r3
  r4 = r4
  k1 = k1
  k2 = k2
  k3 = k3
  a1 = a1
  a2 = a2
  a3 = a3
  NoTx = NoTx
  Reqs = {r1, r2, r3}
  Proc <- ByServer
  McpReqs = {r3}
  UpstreamDown = TRUE
  Keys = {k1, k2}
  Auths = {a1, a2}
  Offers <- BothRails
  Price = 1
  MaxDaily = 3
  Window = 1
  Rolling = FALSE
  MaxRetries = 1
  Lossy = {k2}
  MaxTime = 0
  MaxCrashes = 1
  MaxInFlight = 2
SYMMETRY HttpSymmetry
CHECK_DEADLOCK FALSE
INVARIANTS
  TypeOK
  ExclusiveClaim
  PendingHasOwner
  IndInv
  SettledIsCharged
  ReceiptsAgree
  SettleOnlyAfter2xx
  WebhookOnlySettled
  PaidMeansCharged
  OneChargeUnlessLost
PROPERTIES
  SettledIsFinal
  NoSettleAfterSettled
  ImplementsLease
