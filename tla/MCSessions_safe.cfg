\* Two users with a cap of one, whose requests name each other's ids, attach,
\* exit, delete and crash at once.
SPECIFICATION Spec
CONSTANTS
  User = {u1, u2}
  Sid = {s1, s2}
  Pty = {p1, p2}
  Proc = {q1, q2}
  Req = {r1, r2}
  Reaper = reaper
  None = None
  MaxSessions <- OneEach
  Ops = {"attach", "delete", "crash"}
SYMMETRY Interchangeable
INVARIANTS TypeOK NoDrift OneShellPerPty OwnSessionsOnly
PROPERTIES LedgerSpec PtySpec StaysInReach
