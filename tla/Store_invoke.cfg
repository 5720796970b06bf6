\* Two invocations over two keys, two buyers and two listings (one id is free),
\* one change of a listing, three checkouts of which one completes unpaid, a
\* flush of the payouts, and one crash.  The workers are finitely many, so the
\* system ends.
SPECIFICATION Spec
CONSTANTS
  r1 = r1
  r2 = r2
  r3 = r3
  f1 = f1
  f2 = f2
  k1 = k1
  k2 = k2
  b1 = b1
  b2 = b2
  l1 = l1
  l2 = l2
  a1 = a1
  a2 = a2
  d1 = d1
  d2 = d2
  d3 = d3
  Reqs = {r1, r2}
  Flushes = {f1}
  Keys = {k1, k2}
  Buyers = {b1, b2}
  Seeded <- Shop
  Prices = {1, 2}
  Addresses = {a1, a2}
  Offers <- Changes
  MaxEdits = 1
  Fundings <- Checkouts
  Delayed = {d3}
  BadUrls = TRUE
  Lossy = TRUE
  MaxCrashes = 1
SYMMETRY Symmetry
CHECK_DEADLOCK FALSE
INVARIANTS
  TypeOK
  Conservation
  PayoutIsDebited
  ReceiptIsTrue
  NothingStranded
PROPERTIES
  OutcomesAreFinal
