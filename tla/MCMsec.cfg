SPECIFICATION Spec
CONSTANTS
  t1 = t1
  t2 = t2
  Timers = {t1, t2}
  Requests <- MCRequests
INVARIANTS
  SetAsAsked
