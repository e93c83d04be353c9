\* A writer that waits for space and a reader that other parts of the program wake.
CONSTANTS
  w = w
  r0 = r0
  r1 = r1
  r2 = r2
  Writers = {w}
  Readers = {r1, r2}
  Impatient = {}
  IDs = {1, 2}
  AnyID = 0
  Waits <- MCWaits
  Buffer <- MCLarge
  SizeSets = {{1}, {2}}
  Bodies = {1}
  Size = 28
  Header = 5
  Lengths = 32
  Places = 2
  MayExpire = FALSE
  MayInterrupt = TRUE
  NoOne = NoOne
  Pending = Pending
  NoMessage = NoMessage
  TooBig = TooBig
SPECIFICATION FairSpec
PROPERTIES SendersReturn ReadersWake
