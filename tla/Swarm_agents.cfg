CONSTANTS
  Agents = {0, 1, 2, 3}
  Remembers = {1, 2, 3}
  InLoop = {1}
  Inspects = {1}
  MaxIterations <- OneDeep
  MaxEmptyTurns = 1
  MaxTools = 2
  Roles = 3
  Concurrency = 2
  MinQuorum = 2
  Critical = {1}
SPECIFICATION FairSpec
INVARIANTS TypeOK ReasonIsTrue LittleWorkAfterAbort PoolIsSound SynthesisLast
PROPERTY SwarmReturns
CHECK_DEADLOCK FALSE
