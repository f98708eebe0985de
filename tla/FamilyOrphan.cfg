SPECIFICATION Spec
CONSTANTS
  ua = ua
  ub = ub
  uc = uc
  fa = fa
  fb = fb
  fc = fc
  Users = {ua, ub, uc}
  Personal <- MCPersonal
  NewFams = {f, g}
  Requests = {r1, r2}
  MaxMembers = 2
  MaxTries = 2
  Starts <- LockedStarts
  NoFam = NoFam
  NoUser = NoUser
INVARIANT
  NoOrphanFamily
CHECK_DEADLOCK FALSE
