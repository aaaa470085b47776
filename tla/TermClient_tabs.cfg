\* Two terminals of one user and two events: an outage, a restart of the
\* server, a shell that ends by itself or a click on Restart terminal.
SPECIFICATION FairSpec
CONSTANTS
  Mount = {m1, m2}
  Sid = {s1, s2, s3}
  NoSid = NoSid
  Retries = 2
  MaxEvents = 2
INVARIANTS TypeOK CurrentIsBound ForgottenNameNone
PROPERTIES DroppedForGood ComesToRest ExitRestarts Resumes
\* When the events are used up every terminal comes to rest.
CHECK_DEADLOCK FALSE
