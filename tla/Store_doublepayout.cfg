\* A flush lists a payout that a request is about to make.
SPECIFICATION Spec
CONSTANTS
  r1 = r1
  r2 = r2
  r3 = r3
  f1 = f1
  f2 = f2
  k1 = k1
  k2 = k2
  b1 = b1
  b2 = b2
  l1 = l1
  l2 = l2
  a1 = a1
  a2 = a2
  d1 = d1
  d2 = d2
  d3 = d3
  Reqs = {r1}
  Flushes = {f1}
  Keys = {k1}
  Buyers = {b1}
  Seeded <- Shop
  Prices = {1}
  Addresses = {a1}
  Offers = {}
  MaxEdits = 0
  Fundings <- OneCheckout
  Delayed = {}
  BadUrls = FALSE
  Lossy = FALSE
  MaxCrashes = 0
CHECK_DEADLOCK FALSE
PROPERTIES
  PaidIsNotPaidAgain
