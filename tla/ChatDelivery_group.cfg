SPECIFICATION Spec
CONSTANTS
  A = A
  B = B
  wa = wa
  wx = wx
  wy = wy
  sa = sa
  sx = sx
  sy = sy
  a = a
  b = b
  c = c
  None = None
  OnB = {wa}
  Sharing = {sy}
  Server = {A, B}
  Worker = {wa, wx}
  Session = {sa, sx, sy}
  User = {a, b, c}
  Msg = {2}
  Senders = {sa}
  ServerOf <- MCServerOf
  WorkerOf <- MCWorkerOf
  UserOf <- MCUserOf
  From <- MCFrom
  To <- GroupTo
  Kind <- GroupKind
  DrainLimit = 2
  MaxCrashes = 1
INVARIANTS OfflineExactlyOnce PresenceNotStale MissingOnlyIfRaced
PROPERTY DeliverySpec
CHECK_DEADLOCK FALSE
