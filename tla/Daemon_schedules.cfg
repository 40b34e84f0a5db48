CONSTANTS
  worker_ = worker_
  sched_ = sched_
  p1 = p1
  p2 = p2
  s1 = s1
  s2 = s2
  Worker = worker_
  Scheduler = sched_
  DefaultLimit = 1
  Posters = {}
  Flushers = {worker_, sched_}
  Schedules = {s1}
  DayUnits = 2
  Definitions <- HalfDays
  AttemptLimits = {2}
  MaxTasks = 3
  MaxNow = 2
  MaxBoots = 2
  MaxFaults = 1
SPECIFICATION Spec
CONSTRAINT SecondLifeIsShort
INVARIANT SchedulesSound
CHECK_DEADLOCK FALSE
