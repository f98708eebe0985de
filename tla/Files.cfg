SPECIFICATION Spec
CONSTANTS
  fa = fa
  fb = fb
  ea = ea
  eb = eb
  ra = ra
  Images = {fa, fb}
  Entries = {ea}
  Requests = {ra}
  Limit = 1
  Faulty = {"put", "undo", "object"}
  CanCrash = TRUE
  None = None
INVARIANTS
  ReferencedIsStored
  RefundedOnce
  UnderLimit
CHECK_DEADLOCK FALSE
