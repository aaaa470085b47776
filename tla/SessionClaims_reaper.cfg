\* Kill, reattach, and then the exit reaper of the killed shell.
SPECIFICATION Spec
CONSTANTS
  User = {u1}
  Sid = {s1, s2}
  Pty = {p1, p2, p3}
  Proc = {q1, q2}
  Req = {r1, r2}
  Reaper = reaper
  None = None
  MaxSessions <- OneEach
  Ops = {"attach", "delete"}
SYMMETRY Interchangeable
PROPERTY StaleReaperHarmless
