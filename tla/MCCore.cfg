SPECIFICATION FairSpec
CONSTANTS
  f1 = f1
  f2 = f2
  a1 = a1
  a2 = a2
  b1 = b1
  BreakEd = BreakEd
  NULL = NULL
  Fds = {f1, f2}
  Eds = {a1, a2, b1}
  EdFd <- MCEdFd
  Edge = {b1}
  Kqueue = FALSE
  MaxEvents = 2
  PipeCapacity = 2
  HasInsert = TRUE
  HasRemove = TRUE
  Liberties = {}
INVARIANTS
  BatchFresh
  NoUseAfterFree
  OwnershipExact
  StorageAgrees
PROPERTIES
  TerminateStopsRun
  NoEventLost
  ReadyIsServed
