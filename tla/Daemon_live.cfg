CONSTANTS
  worker_ = worker_
  sched_ = sched_
  p1 = p1
  p2 = p2
  s1 = s1
  s2 = s2
  Worker = worker_
  Scheduler = sched_
  DefaultLimit = 2
  Posters = {p1}
  Flushers = {p1, worker_, sched_}
  Schedules = {}
  DayUnits = 1
  Definitions = {}
  AttemptLimits = {2}
  MaxTasks = 2
  MaxNow = 0
  MaxBoots = 1
  MaxFaults = 0
SPECIFICATION FairSpec
PROPERTY EveryTaskSettles
CHECK_DEADLOCK FALSE
