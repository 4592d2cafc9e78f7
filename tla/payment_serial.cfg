\* One call at a time; an error and a crash.
CONSTANTS
  None = None
  Orders = {o1}
  Payments = {p1, p2, p3}
  Codes = {k1}
  Clients = {c1}
  Workers = {w1}
  MaxCalls = 2
  MaxFaults = 1
  MaxCrashes = 1
SPECIFICATION FairSpec
PROPERTIES RequestsAnswered PaidIsAnnounced
