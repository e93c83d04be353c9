\* Messages of one size or of two, read in order and by ID, that may expire; a buffer that
\* is too small for the larger ones.
CONSTANTS
  w = w
  r0 = r0
  r1 = r1
  r2 = r2
  Writers = {w}
  Readers = {r0, r1}
  Impatient = {w}
  IDs = {1, 2}
  AnyID = 0
  Waits <- MCWaits
  Buffer <- MCSmall
  SizeSets = {{1}, {2}, {1, 2}}
  Bodies = {1}
  Size = 28
  Header = 5
  Lengths = 32
  Places = 1
  MayExpire = TRUE
  MayInterrupt = FALSE
  NoOne = NoOne
  Pending = Pending
  NoMessage = NoMessage
  TooBig = TooBig
SPECIFICATION Spec
INVARIANTS TypeOK RingIsChained OneSizeIsSafe NoMissedMessage
PROPERTY ImplementsChannel
\* After an overwrite the model stops.
CHECK_DEADLOCK FALSE
