\* One order; two of the services meet an error or a crash each.
CONSTANTS
  None = None
  Orders = {o1}
  Payments = {p1, p2}
  Codes = {k1}
  Baskets = {b1}
  Asked = {"DELIVERED"}
  PaymentClients = {c1}
  PaymentWorkers = {w1}
  MaxPaymentCalls = 1
  MaxPaymentFaults = 1
  MaxPaymentCrashes = 1
  OrderClients = {d1}
  OrderWorkers = {v1}
  MaxOrderCalls = 1
  MaxOrderFaults = 1
  MaxOrderCrashes = 1
  MaxSellerCrashes = 1
  MaxFailuresEach = 1
  MaxFailures = 2
SPECIFICATION FairSpec
INVARIANTS PaidMeansCompleted
PROPERTIES OrderGetsPayment PaidReachesSeller
