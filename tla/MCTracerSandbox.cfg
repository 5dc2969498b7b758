CONSTANTS
  p1 = p1
  p2 = p2
  p3 = p3
  plain = plain
  banned = banned
  checked = checked
  secret = secret
  moved = moved
  bent = bent
  d1 = d1
  d2 = d2
  Procs = {p1, p2}
  Root = p1
  Args = {plain, banned, checked, secret, moved, bent}
  Data = {d1, d2}
  None = None
  Garbage = Garbage
  Filter <- MCFilter
  Handler <- MCHandler
SPECIFICATION FairSpec
PROPERTIES
  ImplementsSandbox
  EventuallyResumed
  DenialEndsAll
  ExitEndsSandbox
CHECK_DEADLOCK FALSE
