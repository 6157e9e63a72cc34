SPECIFICATION Spec
CONSTANTS
  c1 = c1
  c2 = c2
  c3 = c3
  la = la
  lb = lb
  Commands = {c1, c2, c3}
  Resource <- MCResource
  Names = {s1}
  Launches = {la, lb}
  Probed = {la}
  Restarts <- MCRestarts
  Callers = {p1, p2}
  NoName = NoName
  NoLaunch = NoLaunch
  MaxStarts = 6
  Budgets <- MCBudgets
INVARIANTS ClosedQuiet SidecarsSound
PROPERTIES EverythingReturns
CHECK_DEADLOCK FALSE
