\* Two admins at work, any call that may fail without harm failing.
SPECIFICATION Spec
CONSTANTS
  Name = {admin, alice}
  BootAdmin = admin
  MaxId = 4
  FirstUid = 2000
  Req = {r1, r2}
  None = None
  Faults = {"dirs", "rm", "db"}
INVARIANTS TypeOK AccountHasRow RepairedAtBoot
