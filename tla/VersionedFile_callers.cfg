CONSTANTS
  worker = worker
  poster = poster
  Flushers = {worker, poster}
  MaxFaults = 1
  MaxVersion = 3
SPECIFICATION Spec
INVARIANT FlushesSound
PROPERTY AtomicUnlessOverlap
