\* One payment, with up to three POSTs of each call.
SPECIFICATION Spec
CONSTANTS
  Request = Request
  Key = Key
  Auth = Auth
  NoTx = NoTx
  MaxRetries = 2
CHECK_DEADLOCK FALSE
INVARIANTS
  TypeOK
  OneEventPerSettlement
PROPERTIES
  ImplementsPaywall
  CallEnds
