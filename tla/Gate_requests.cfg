\* Three requests, two at a time, under four configurations.  The requests are
\* finitely many, so the system ends.
SPECIFICATION Spec
CONSTANTS
  None = None
  r1 = r1
  r2 = r2
  r3 = r3
  o1 = o1
  o2 = o2
  t1 = t1
  t2 = t2
  n1 = n1
  n2 = n2
  n3 = n3
  ip1 = ip1
  Reqs = {r1, r2, r3}
  Ops = {o1, o2}
  Tenants = {t1, t2}
  Nonces = {n1, n2, n3}
  Addrs = {ip1}
  Signatures <- SomeSignatures
  Arrivals <- SomeArrivals
  Configs <- SomeConfigs
  MaxWindow = 2
  MaxEntries = 2
  RateWindow = 2
  MaxTime = 2
  MaxInFlight = 2
SYMMETRY Symmetry
CHECK_DEADLOCK FALSE
INVARIANTS
  TypeOK
  FailsClosed
  RateBounded
  LimitsKept
PROPERTIES
  ReplayRejected
