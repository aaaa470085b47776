\* Two shells, one after the other or one being stopped, and two clients.
SPECIFICATION Spec
CONSTANTS
  Shell = {s1, s2}
  Ws = {w1, w2}
  Chunks = 1
  None = None
SYMMETRY Interchangeable
INVARIANTS ClosedOnce KnownShells SubscriptionsMatch
PROPERTY PtySpec
\* Every connection is over and every shell is dead: nothing is left to do.
CHECK_DEADLOCK FALSE
