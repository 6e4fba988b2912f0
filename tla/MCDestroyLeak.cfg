SPECIFICATION Spec
CONSTANTS
  m1 = m1
  m2 = m2
  Machines = {m1, m2}
  MaxFd = 3
  UsePipe2 = TRUE
  Careful = TRUE
INVARIANTS
  DestroyCleansUp
