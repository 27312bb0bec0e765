SPECIFICATION FairSpec
CONSTANTS
  n1 = n1
  n2 = n2
  l1 = l1
  None = None
  Programs = {"chat", "gate"}
  Caller = {n1, l1}
  Nests = {n1}
  Leaks = {l1}
  Conn = {1, 2, 3, 4, 5, 6, 7}
  First = {1, 2}
  MaxCalls <- MCMaxCalls
  MaxFriends = 1
  MaxFaults = 1
INVARIANTS TypeOK Conserved NoStandstill GrowthBounded
PROPERTY CallEnds LendingSpec
