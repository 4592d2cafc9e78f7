\* One order is created and updated, with items or with a status alone.
CONSTANTS
  None = None
  Orders = {o1}
  Payments = {p1}
  Baskets = {b1}
  Asked = {"DELIVERED"}
  Clients = {c1}
  Workers = {w1}
  MaxCalls = 2
  MaxFaults = 0
  MaxCrashes = 0
  MaxReports = 3
SPECIFICATION FairSpec
PROPERTY UpdateReturns
