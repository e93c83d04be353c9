\* A one shot timer is removed after it ran, twice.
CONSTANTS
  t1 = t1
  t2 = t2
  t3 = t3
  Clients = {c1, c2}
  Timers = {t1}
  Resident <- NoTimers
  Adders = {c1}
  Removers = {c2}
  Reschedulers = {}
  Changers = {}
  CallbackCalls = {}
  PendingRemoval = FALSE
  Delays = {0}
  Frequencies = {0}
  CountValues = 4
  MaxNow = 0
  MaxDelta = 2
  TimePasses = {"forever", "asleep"}
  None = None
SPECIFICATION FairSpec
PROPERTIES CallsReturn
\* The bounded clock stops, and so do the timers.
CHECK_DEADLOCK FALSE
