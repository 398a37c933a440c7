SPECIFICATION Spec
CONSTANTS
  Fds <- ThreeNumbers
  Sockets <- TwoSockets
  Streams <- OneStream
  Threads <- TwoThreads
  None = None
  App = App
  Lost = Lost
  Nobody = Nobody
  s1 = s1
  s2 = s2
  f1 = f1
  main = main
  worker = worker
  d0 = d0
  d1 = d1
  d2 = d2
SYMMETRY Alike
INVARIANTS TypeOK HeldOnce OpenIsHeld
PROPERTIES ImplementsOwnership
CHECK_DEADLOCK FALSE
