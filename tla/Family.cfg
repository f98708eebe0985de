SPECIFICATION Spec
CONSTANTS
  ua = ua
  ub = ub
  uc = uc
  fa = fa
  fb = fb
  fc = fc
  Users = {ua, ub, uc}
  Personal <- MCPersonal
  NewFams = {f, g}
  Requests = {r1, r2}
  MaxMembers = 2
  MaxTries = 2
  Starts <- MCStarts
  NoFam = NoFam
  NoUser = NoUser
SYMMETRY Symmetry
INVARIANTS
  TypeOK
  OneHome
  PersonalIsPrivate
  WithinLimit
  FounderOwns
PROPERTY
  MovedByOwner
CHECK_DEADLOCK FALSE
