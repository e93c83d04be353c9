\* A client adds timers; callbacks take time and make every call.
CONSTANTS
  t1 = t1
  t2 = t2
  t3 = t3
  Clients = {c1}
  Timers = {t1, t2, t3}
  Resident <- NoTimers
  Adders = {c1}
  Removers = {}
  Reschedulers = {}
  Changers = {}
  CallbackCalls = {"add", "remove", "stop", "reschedule"}
  PendingRemoval = FALSE
  Delays = {0, 1}
  Frequencies = {0, 1}
  CountValues = 4
  MaxNow = 1
  MaxDelta = 6
  TimePasses = {"forever", "asleep", "callback", "pausing"}
  None = None
SPECIFICATION Spec
INVARIANTS TypeOK OnSchedule NeverEarly NoFault AwayIsOver BoundedOversleep
PROPERTIES StopsFiring
SYMMETRY TimerSymmetry
\* The bounded clock stops, and so do the timers.
CHECK_DEADLOCK FALSE
