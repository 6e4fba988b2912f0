SPECIFICATION Spec
CONSTANTS
  f1 = f1
  f2 = f2
  a1 = a1
  a2 = a2
  b1 = b1
  BreakEd = BreakEd
  NULL = NULL
  Fds = {f1, f2}
  Eds = {a1, a2, b1}
  EdFd <- MCEdFd
  Edge = {}
  Kqueue = TRUE
  MaxEvents = 2
  PipeCapacity = 2
  HasInsert = TRUE
  HasRemove = TRUE
  Liberties = {"touch_peer", "close_registered", "storage_fails"}
INVARIANTS
  TypeOK
  HandedOverIsStored
PROPERTIES
  KeepsContract
