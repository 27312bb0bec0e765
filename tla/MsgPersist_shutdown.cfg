SPECIFICATION FairSpec
CONSTANTS
  p1 = p1
  p2 = p2
  c1 = c1
  Pusher = {p1, p2}
  Client = {c1}
  Record = {1, 2, 3, 4, 5, 6}
  KeyOf <- MCKeyOf
  Calls <- MCCalls
  BatchSize = 2
PROPERTY GracefulExit
CHECK_DEADLOCK FALSE
