SPECIFICATION FairSpec
CONSTANTS
  A = A
  B = B
  wa = wa
  wx = wx
  wy = wy
  sa = sa
  sx = sx
  sy = sy
  a = a
  b = b
  c = c
  None = None
  OnB = {wa}
  Sharing = {}
  Server = {A, B}
  Worker = {wa, wx}
  Session = {sa, sx}
  User = {a, b, c}
  Msg = {1, 2}
  Senders = {sa}
  ServerOf <- MCServerOf
  WorkerOf <- MCWorkerOf
  UserOf <- MCUserOf
  From <- MCFrom
  To <- GroupTo
  Kind <- GroupKind
  DrainLimit = 2
  MaxCrashes = 1
PROPERTY HandlingEnds
CHECK_DEADLOCK FALSE
