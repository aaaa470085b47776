\* One user who never touches the file manager, and nothing failing.
SPECIFICATION FairSpec
CONSTANTS
  User = {u1}
  MaxBytes = 2
  MaxFiles = 1
  Faults = {}
PROPERTY ActivityShows
