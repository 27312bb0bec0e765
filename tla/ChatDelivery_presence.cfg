SPECIFICATION Spec
CONSTANTS
  A = A
  B = B
  wa = wa
  wx = wx
  wy = wy
  sa = sa
  sx = sx
  sy = sy
  a = a
  b = b
  c = c
  None = None
  OnB = {wy}
  Sharing = {}
  Server = {A, B}
  Worker = {wa, wx, wy}
  Session = {sa, sx, sy}
  User = {a, b, c}
  Msg = {1, 2}
  Senders = {sa}
  ServerOf <- MCServerOf
  WorkerOf <- MCWorkerOf
  UserOf <- MCUserOf
  From <- MCFrom
  To <- TextTo
  Kind <- TextKind
  DrainLimit = 1
  MaxCrashes = 0
INVARIANT OnlineIsListed
CHECK_DEADLOCK FALSE
