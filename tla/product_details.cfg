SPECIFICATION FairSpec
CONSTANTS
  None = None
  Calls = {c1, c2}
  Empty = {c2}
  Channels = {k1, k2, k3, k4}
  Answerers = {w1, w2}
  MaxReplies = 2
  MaxFailures = 1
INVARIANTS TypeOK WaiterIsServed
PROPERTIES SettledStaysSettled AskReturns
