CONSTANTS
  c1 = c1
  c2 = c2
  c3 = c3
  c4 = c4
  Calls = {c1, c2, c3, c4}
  Planners = {c1, c2}
  Reviews = {c1}
  Limit = 2
SPECIFICATION FairSpec
INVARIANTS TypeOK SlotsSound LeaseGuardsWorker GivenBack
PROPERTIES NothingLeftBehind FirstComeFirstServed EveryCallReturns
CHECK_DEADLOCK FALSE
