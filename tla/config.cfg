SPECIFICATION Spec
CONSTANTS
  MAX_THREADS_NUM = 3
  MAX_THREAD_IDLE_LIFE = 2
  DefaultConfig <- SomeDefault
  Sizes <- SomeSizes
  Lives <- SomeLives
INVARIANTS LimitsKept
