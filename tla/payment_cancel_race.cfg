\* Two calls at a time on one order, no errors.
CONSTANTS
  None = None
  Orders = {o1}
  Payments = {p1}
  Codes = {k1}
  Clients = {c1, c2}
  Workers = {w1}
  MaxCalls = 2
  MaxFaults = 0
  MaxCrashes = 0
SPECIFICATION Spec
PROPERTY PaidNeverCancelled
