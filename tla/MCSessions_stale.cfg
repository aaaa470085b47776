\* Every operation on one session, with writes that are lost at times: the
\* reaper reclaims a session past its age.
SPECIFICATION FaultySpec
CONSTANTS
  User = {u1}
  Sid = {s1}
  Pty = {p1, p2}
  Proc = {q1, q2}
  Req = {r1}
  Reaper = reaper
  None = None
  MaxSessions <- OneEach
  Ops = {"attach", "delete", "adminkill", "suspend", "restart", "reap", "crash", "dbfault"}
PROPERTY StaleReclaimed
