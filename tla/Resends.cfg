SPECIFICATION ResendSpec
CONSTANTS
  NoScore = NoScore
  NoOrder = NoOrder
  NoPrice = NoPrice
  h1 = h1
  h2 = h2
  Handlers = {h1, h2}
  Orders = {1, 2}
  Events = {"createOrder", "matchTopOrders", "cancelOrder", "fillOrder"}
  Requests <- PairRequests
  CeilingPrice = 16
  FloorPrice = 0
  MaxFaults = 1
SYMMETRY HandlerSymmetry
INVARIANTS
  StoredOrdersKeepTheirTerms
  TradesHonourLimits
  RankedOrdersExist
  ResendInv
PROPERTIES
  RelistedByCreatorOnly
