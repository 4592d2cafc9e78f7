\* Two calls at a time on one order, an error and a crash.
CONSTANTS
  None = None
  Orders = {o1}
  Payments = {p1, p2, p3}
  Codes = {k1}
  Clients = {c1, c2}
  Workers = {w1}
  MaxCalls = 3
  MaxFaults = 1
  MaxCrashes = 1
SPECIFICATION Spec
INVARIANTS TypeOK WorkFitsRows NewsIsTrue RefundedWasPaid OneRowPerDelivery AcceptedByFinders
PROPERTIES PaymentNeverReopened LedgerUnlessOvertaken
SYMMETRY Symmetry
