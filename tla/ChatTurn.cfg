SPECIFICATION ChatFairSpec
CONSTANTS
  t1 = t1
  t2 = t2
  q1 = q1
  q2 = q2
  Turns = {t1, t2}
  Requests = {q1, q2}
  Resends <- MCResends
  PlainQuota = 1
  VIPQuota = 2
  Absent = Absent
  MaxKinds = 2
  Faulty = {"redis", "db"}
  CanCrash = TRUE
  CanOutlive = TRUE
INVARIANTS
  OneAtATime
  PaidIsAnswered
  CountersAgree
PROPERTIES
  Served
  Unblocked
CHECK_DEADLOCK FALSE
