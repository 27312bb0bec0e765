SPECIFICATION Spec
CONSTANTS
  c1 = c1
  c2 = c2
  n1 = n1
  n2 = n2
  e1 = e1
  e2 = e2
  None = None
  Client = {c1, c2}
  Name = {n1, n2}
  Email = {e1, e2}
  Code = {1, 2}
  Unique = TRUE
  Settings <- MCSettings
  MaxUid = 7
  MaxCalls = 3
  MaxFaults = 1
INVARIANTS TypeOK CodeExpires PasswordOwned UidsDistinct RejectedOnlyIfReplaced
PROPERTY DirectorySpec
CHECK_DEADLOCK FALSE
