SPECIFICATION FairSpec
CONSTANTS
  r1 = r1
  r2 = r2
  t1 = t1
  t2 = t2
  Runners = {r1, r2}
  Terminators = {t1, t2}
  MaxEvents = 2
  PipeCapacity = 1
INVARIANTS
  RunsAreRequested
  NoBrokenPipe
PROPERTIES
  RequestEndsRun
CHECK_DEADLOCK FALSE
