SPECIFICATION Spec
CONSTANTS
  m1 = m1
  m2 = m2
  Machines = {m1, m2}
  MaxFd = 4
  UsePipe2 = FALSE
  Careful = TRUE
INVARIANTS
  TypeOK
  EventsOwned
  OwnDescriptors
  AcceptsOwnOnly
  ReleasedLeavesNothing
  TerminateNeverBlocks
