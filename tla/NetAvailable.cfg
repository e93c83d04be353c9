\* A client is locked while it is recycled.
CONSTANTS
  x = x
  y = y
  a = a
  b = b
  l = l
  e = e
  Clients = {x, y}
  Openers = {a}
  Closers = {a}
  Lockers = {l}
  EventThreads = {}
  Active <- MCx
  Available <- MCy
  Readable = {}
  MaxOpens = 1
  None = None
SPECIFICATION Spec
INVARIANTS AvailableUnlocked
\* The sockets that are opened are bounded: all may be closed in the end.
CHECK_DEADLOCK FALSE
