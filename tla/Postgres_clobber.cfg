\* A settle answer that cannot be read: the hook runs again on its own error,
\* while the next request settles the key.
SPECIFICATION PgSpec
CONSTANTS
  r1 = r1
  r2 = r2
  r3 = r3
  k1 = k1
  k2 = k2
  k3 = k3
  a1 = a1
  a2 = a2
  a3 = a3
  NoTx = NoTx
  Reqs = {r1, r2}
  Proc <- OneProcess
  Keys = {k1}
  Auths = {a1, a2, a3}
  Offers <- Own
  Price = 1
  MaxDaily = 3
  Window = 1
  Rolling = FALSE
  MaxRetries = 0
  Lossy = {}
  MaxTime = 0
  MaxCrashes = 0
  MaxInFlight = 2
  Rethrows = TRUE
SYMMETRY Symmetry
CHECK_DEADLOCK FALSE
PROPERTIES
  SettledIsFinal
