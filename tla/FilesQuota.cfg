SPECIFICATION Spec
CONSTANTS
  fa = fa
  fb = fb
  ea = ea
  eb = eb
  ra = ra
  Images = {fa}
  Entries = {ea}
  Requests = {ra}
  Limit = 1
  Faulty = {}
  CanCrash = FALSE
  None = None
INVARIANT
  ChargedIsStored
CHECK_DEADLOCK FALSE
