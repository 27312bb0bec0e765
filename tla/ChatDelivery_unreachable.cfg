SPECIFICATION Spec
CONSTANTS
  A = A
  B = B
  wa = wa
  wx = wx
  wy = wy
  sa = sa
  sx = sx
  sy = sy
  a = a
  b = b
  c = c
  None = None
  OnB = {wa}
  Sharing = {}
  Server = {A, B}
  Worker = {wa, wx}
  Session = {sa, sx}
  User = {a, b, c}
  Msg = {1}
  Senders = {sa}
  ServerOf <- MCServerOf
  WorkerOf <- MCWorkerOf
  UserOf <- MCUserOf
  From <- MCFrom
  To <- TextTo
  Kind <- TextKind
  DrainLimit = 2
  MaxCrashes = 0
INVARIANT UnreachableIsStored
CHECK_DEADLOCK FALSE
