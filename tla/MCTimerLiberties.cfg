SPECIFICATION Spec
CONSTANTS
  t1 = t1
  t2 = t2
  t3 = t3
  Timers = {t1, t2, t3}
  MaxFd = 2
  MaxEvents = 2
  MaxExpirations = 2
  Liberties = {"destroy_self", "destroy_peer"}
INVARIANTS
  TypeOK
  DescriptorsExact
CHECK_DEADLOCK FALSE
SYMMETRY TimerSymmetry
