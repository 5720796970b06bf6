\* Traces of up to four events, filed as fixtures or not; a trace may end
\* anywhere, so that the longest ones have no next event.
SPECIFICATION Spec
CONSTANTS
  None = None
  o1 = o1
  o2 = o2
  c1 = c1
  c2 = c2
  c3 = c3
  k1 = k1
  Ops = {o1, o2}
  Calls = {c1, c2, c3}
  CallOp <- OpOf
  Keys = {k1}
  Events <- SomeEvents
  MaxEvents = 4
CHECK_DEADLOCK FALSE
INVARIANTS
  TypeOK
  RulesAgree
  SettleJudgedByOwnReply
  GateHolds
