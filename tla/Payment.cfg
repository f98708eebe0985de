SPECIFICATION NarrowSpec
CONSTANTS
  p1 = p1
  t1 = t1
  Users = {u1}
  Orders = {o1, o2}
  Plans = {p1}
  Plan <- SamePlan
  Txns = {t1, t2}
  Workers = {w1, w2}
  NoUser = NoUser
  NoTxn = NoTxn
  NoOrder = NoOrder
  MaxCrashes = 1
INVARIANTS
  PaidIsDeliveredOnce
  AckedIsSettled
  OneOrderPerTransaction
PROPERTIES
  ChargedIsSettled
  ImplementsEntitlement
CHECK_DEADLOCK FALSE
