SPECIFICATION ServerSpec
CONSTANTS
  ls = ls
  c1 = c1
  c2 = c2
  edLs = edLs
  ed1 = ed1
  ed2 = ed2
  BreakEd = BreakEd
  NULL = NULL
  Listening = ls
  Fds = {ls, c1, c2}
  Eds = {edLs, ed1, ed2}
  EdFd <- MCEdFd
  Edge = {ed1, ed2}
  Kqueue = FALSE
  MaxEvents = 2
  PipeCapacity = 1
  HasInsert = FALSE
  HasRemove = FALSE
  Liberties = {}
  Backlog = 2
  MaxUnread = 2
INVARIANTS
  OldIsNull
CHECK_DEADLOCK FALSE
