\* One shell with two chunks of output, two clients, fair goroutines.
SPECIFICATION FairSpec
CONSTANTS
  Shell = {s1}
  Ws = {w1, w2}
  Chunks = 2
  None = None
INVARIANTS TypeOK ContiguousOutput
PROPERTIES ExitsReported GoroutinesEnd
\* Every connection is over and every shell is dead: nothing is left to do.
CHECK_DEADLOCK FALSE
