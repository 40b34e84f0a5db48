CONSTANTS
  worker = worker
  poster = poster
  Flushers = {worker, poster}
  MaxFaults = 0
  MaxVersion = 2
SPECIFICATION Spec
PROPERTY AtomicPersistence
