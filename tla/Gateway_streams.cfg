CONSTANTS
  r1 = r1
  r2 = r2
  c1 = c1
  c2 = c2
  Runs = {r1, r2}
  Clients = {c1}
  Follows <- FollowsFirst
  Conns = {1, 2}
  BufferMax = 1
  MaxConcurrent = 1
  MaxSeq = 3
SPECIFICATION FairSpec
INVARIANTS TypeOK NothingWithheld SinksSound CapHolds
PROPERTIES StreamsAreFaithful EveryStreamEnds
CHECK_DEADLOCK FALSE
