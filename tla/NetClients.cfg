\* One thread opens and closes, one locks what it has kept, one reads from the socket of y.
CONSTANTS
  x = x
  y = y
  a = a
  b = b
  l = l
  e = e
  Clients = {x, y}
  Openers = {a}
  Closers = {a}
  Lockers = {l}
  EventThreads = {e}
  Active <- MCx
  Available <- MCy
  Readable = {y}
  MaxOpens = 1
  None = None
SPECIFICATION Spec
INVARIANTS TypeOK ListsIntact HeldIsMeant FreshIsOpen NoCrossedWait PendingHasRecycler
\* The sockets that are opened are bounded: all may be closed in the end.
CHECK_DEADLOCK FALSE
