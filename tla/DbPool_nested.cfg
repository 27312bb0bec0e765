SPECIFICATION FairSpec
CONSTANTS
  n1 = n1
  n2 = n2
  l1 = l1
  None = None
  Programs = {"chat"}
  Caller = {n1, n2}
  Nests = {n1, n2}
  Leaks = {}
  Conn = {1, 2, 3}
  First = {1, 2}
  MaxCalls <- MCMaxCalls
  MaxFriends = 1
  MaxFaults = 0
PROPERTY LoanReturned
