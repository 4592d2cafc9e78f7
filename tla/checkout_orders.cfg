\* Two orders with a payment each; one is paid, one updated or cancelled.
CONSTANTS
  None = None
  Orders = {o1, o2}
  Payments = {p1, p2}
  Codes = {k1}
  Baskets = {b1}
  Asked = {"DELIVERED"}
  PaymentClients = {c1}
  PaymentWorkers = {w1, w2}
  MaxPaymentCalls = 1
  MaxPaymentFaults = 0
  MaxPaymentCrashes = 0
  OrderClients = {d1}
  OrderWorkers = {v1}
  MaxOrderCalls = 3
  MaxOrderFaults = 0
  MaxOrderCrashes = 0
  MaxSellerCrashes = 0
  MaxFailuresEach = 0
  MaxFailures = 0
SPECIFICATION Spec
INVARIANTS AnswersFit
SYMMETRY Symmetry
