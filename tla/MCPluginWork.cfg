CONSTANTS
  Minute = 2
  MinutesPerHour = 1
  HoursPerDay = 1
  DaysPerWeek = 3
  DaysPerMonth = 2
  MonthsPerYear = 2
  CronLimit = 24
  Star = Star
  Invalid = Invalid
  Never = Never
  Absent = Absent
  PackageJobIds = {j1, j2}
  Ticks = {1, 2}
  Requests <- MCRequests
  MaxTime = 3
  Items = {1, 2}
  ItemKeys = {key1}
  NoKey = NoKey
  Priorities = {0, 1}
  MaxAttempts = 1
  Lease = 1
  Delay = 1
  Gates = {g1}
  Setups = {s1}
  Runs = {3, 4}
  Answers = {a1}
  Ttl = 1
  Confirms <- MCConfirms
  Budgets <- MCBudgets
SPECIFICATION WorkSpec
INVARIANTS WorkSound JobsAsAsked
PROPERTIES DueRuns
CHECK_DEADLOCK FALSE
