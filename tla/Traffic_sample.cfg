\* Two users, failing nft calls and writes, a flushed ruleset, restarts.
SPECIFICATION FairSpec
CONSTANTS
  User = {u1, u2}
  MaxBytes = 2
  MaxFiles = 1
  Faults = {"nft", "db", "flush", "crash"}
INVARIANTS TypeOK NeverOvercharged NothingLost
PROPERTY EventuallyCharged
