\* Link queues and data queues, used by one thread and by two.
CONSTANTS
  t1 = t1
  t2 = t2
  a = a
  b = b
  Threads = {t1, t2}
  Links = {a, b}
  NoLink = NoLink
  ExpandBy = 1
  b1 = b1
  b2 = b2
  b3 = b3
  Blocks = {b1, b2, b3}
  Null = Null
  FirstCnt <- MCFirstCnt
  Indexes <- MCIndexes
  Setups <- MCSetups
  MaxLength = 3
  NoOne = NoOne
  Pending = Pending
SPECIFICATION Spec
SYMMETRY MCSymmetry
INVARIANTS TypeOK NoFault NoLeak
PROPERTY ImplementsDeque
