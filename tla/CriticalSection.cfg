\* Three threads contending for one section.
CONSTANTS
  a = a
  b = b
  heap = heap
  Threads = {t1, t2, t3}
  Sections = {a}
  PolledSections = {}
  TriedSections = {}
  Nesting <- NoNesting
  MaxDepth = 2
  NoThread = NoThread
  EndOfChain = EndOfChain
SPECIFICATION FairSpec
INVARIANTS TypeOK MutualExclusion WaiterChain NoLostWakeup NeverTraps
PROPERTIES CallsReturn
