\* Three requests, two of them at the same time, over three keys, each with an
\* authorization of its own, a budget for one, and one restart.  The requests
\* are finitely many, so the system ends.
SPECIFICATION PgSpec
CONSTANTS
  r1 = r1
  r2 = r2
  r3 = r3
  k1 = k1
  k2 = k2
  k3 = k3
  a1 = a1
  a2 = a2
  a3 = a3
  NoTx = NoTx
  Reqs = {r1, r2, r3}
  Proc <- OneProcess
  Keys = {k1, k2, k3}
  Auths = {a1, a2, a3}
  Offers <- Own
  Price = 1
  MaxDaily = 1
  Window = 1
  Rolling = FALSE
  MaxRetries = 0
  Lossy = {}
  MaxTime = 1
  MaxCrashes = 1
  MaxInFlight = 2
  Rethrows = FALSE
SYMMETRY Symmetry
CHECK_DEADLOCK FALSE
INVARIANTS
  PgTypeOK
  ReceiptsAgree
  SettledIsCharged
  OvershootBounded
PROPERTIES
  SettledIsFinal
  ImplementsLease
