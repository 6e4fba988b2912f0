SPECIFICATION Spec
CONSTANTS
  t1 = t1
  t2 = t2
  t3 = t3
  Timers = {t1, t2}
  MaxFd = 1
  MaxEvents = 2
  MaxExpirations = 2
  Liberties = {"destroy_self"}
INVARIANTS
  DestroyedIsNotUsed
