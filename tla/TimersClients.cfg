\* Two clients add timers; one also reschedules and changes them.
CONSTANTS
  t1 = t1
  t2 = t2
  t3 = t3
  Clients = {c1, c2}
  Timers = {t1, t2, t3}
  Resident <- OneTimer
  Adders = {c1, c2}
  Removers = {}
  Reschedulers = {c2}
  Changers = {c2}
  CallbackCalls = {}
  PendingRemoval = FALSE
  Delays = {0}
  Frequencies = {1}
  CountValues = 4
  MaxNow = 1
  MaxDelta = 2
  TimePasses = {"forever", "asleep"}
  None = None
SPECIFICATION Spec
INVARIANTS InOnePlace
SYMMETRY TimerSymmetry
\* The bounded clock stops, and so do the timers.
CHECK_DEADLOCK FALSE
