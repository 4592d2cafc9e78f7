\* Two orders, two payments, two messages about them, an error and a crash.
CONSTANTS
  None = None
  Orders = {o1, o2}
  Payments = {p1, p2}
  Baskets = {b1}
  Asked = {"OUT_FOR_DELIVERY"}
  Clients = {c1, c2}
  Workers = {w1, w2}
  MaxCalls = 2
  MaxFaults = 1
  MaxCrashes = 1
  MaxReports = 2
SPECIFICATION Spec
INVARIANTS TypeOK NotPoisoned ShippedOnlyIfPaid
SYMMETRY Symmetry
