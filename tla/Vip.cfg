SPECIFICATION VipSpec
CONSTANTS
  u1 = u1
  month = month
  trial = trial
  VipUsers = {u1}
  VipPlans = {month, trial}
  Grants <- MCGrants
  User <- MCUser
  Kind <- MCKind
  PlanOf <- MCPlanOf
  Duration <- MCDuration
  MaxNow = 3
  MaxRetries = 2
INVARIANTS
  NothingLost
  NothingInvented
  OncePerUser
PROPERTY
  EveryGrantCounts
CHECK_DEADLOCK FALSE
