SPECIFICATION Spec
CONSTANTS
  login = login
  q1 = q1
  q2 = q2
  m1 = m1
  m2 = m2
  n1 = n1
  n2 = n2
  None = None
  Request = {login, q1, q2}
  Login = login
  Kind <- MCKind
  Note = {n1, n2}
  Message = {m1, m2}
  HeadLen = 2
  MaxPacket = 2
  WireCap = 2
  MaxSendQue = 1
  DrainLimit = 2
  Loads <- MCLongList
INVARIANT OfflineFetched
CHECK_DEADLOCK FALSE
