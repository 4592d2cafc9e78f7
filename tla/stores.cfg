SPECIFICATION Spec
CONSTANTS
  Users = {u1, u2}
  Items = {i1, i2, i3}
  Quantities = {1, 2}
  Prices = {3}
  Sellers = {s1, s2}
  Fields = {name, email}
  Values = {v1, v2}
  PoolSize = 2
  Ids = {g1, g2}
  Names = {n1, n2}
  Products = {p1, p2}
  BatchLimit = 2
  Limits = {1, 2, 3}
  Homes = {h1}
  Texts = {t1, t2}
  Blank = Blank
  None = None
  Listings = {"orders", "users", "sellers", "search"}
  MaxRows = 3
  MaxTake = 2
  Clients = {c1, c2}
  Deleters = {c1}
  MaxFaults = 1
  MaxList = 3
  MaxCartCalls = 3
  MaxAccountCalls = 2
  MaxSellerCalls = 2
  MaxCategoryCalls = 4
  MaxProductCalls = 2
INVARIANTS
  TypeOK
  RefusedOnlyAtFirst
  DeletedStaysDeleted
  OneFullRowPerId
  GhostsHaveNoCategory
  OneRowPerId
  BatchAnswersAreTrue
  ConfirmedChangesStand
  PagesAddUp
  QueriesAgree
PROPERTIES
  LedgerSpec
  OnlyOverlapsUndoUpdates
  CallsReturn
