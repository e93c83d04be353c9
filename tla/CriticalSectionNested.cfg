\* Two threads, two blocking sections taken in order, the inner also by a try, and a polled one inside them.
CONSTANTS
  a = a
  b = b
  heap = heap
  Threads = {t1, t2}
  Sections = {a, b, heap}
  PolledSections = {heap}
  TriedSections = {b}
  Nesting <- Nested
  MaxDepth = 1
  NoThread = NoThread
  EndOfChain = EndOfChain
SPECIFICATION FairSpec
INVARIANTS NoLostWakeup
PROPERTIES ImplementsMutex CallsReturn
