\* An adder and a remover, with a timer that is never removed.
CONSTANTS
  t1 = t1
  t2 = t2
  t3 = t3
  Clients = {c1, c2}
  Timers = {t1, t2}
  Resident <- OneTimer
  Adders = {c1}
  Removers = {c2}
  Reschedulers = {}
  Changers = {}
  CallbackCalls = {}
  PendingRemoval = FALSE
  Delays = {0, 2}
  Frequencies = {1}
  CountValues = 4
  MaxNow = 3
  MaxDelta = 6
  TimePasses = {"forever", "asleep"}
  None = None
SPECIFICATION FairSpec
PROPERTIES CallsReturn DueTimersFire
\* The bounded clock stops, and so do the timers.
CHECK_DEADLOCK FALSE
