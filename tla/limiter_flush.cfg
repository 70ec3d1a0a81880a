SPECIFICATION Spec
CONSTANTS
  s1 = s1
  s2 = s2
  Senders = {s1}
  GlobalScope = GlobalScope
  NoOverride = NoOverride
  Strategy = "both"
  HourlyLimit <- MCHourlyLimit
  SenderDefault = 2
  GlobalLimit = 2
  MaxHour = 0
  Callers = {c1, c2}
  MaxCalls = 3
  MaxFaults = 1
SYMMETRY Symmetry
CHECK_DEADLOCK FALSE
INVARIANTS
  LimitSurvivesFlush
