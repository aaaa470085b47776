\* An admin and two ids for other users, five clicks, one failure.
SPECIFICATION FairSpec
CONSTANTS
  User = {admin, u2, u3}
  Self = admin
  MaxActs = 5
  MaxFails = 1
INVARIANTS TypeOK NoAppBeforeChange TableCurrent
PROPERTIES BlankEnds SignOutEnds
\* When the user has clicked all there is to click, the page is at rest.
CHECK_DEADLOCK FALSE
