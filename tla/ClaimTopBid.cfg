SPECIFICATION Spec
CONSTANTS
  NoScore = NoScore
  NoOrder = NoOrder
  NoPrice = NoPrice
  h1 = h1
  h2 = h2
  Handlers = {h1}
  Orders = {1, 2, 3}
  Events = {"createOrder", "matchTopOrders", "cancelOrder", "fillOrder"}
  Requests <- BidRequests
  CeilingPrice = 16
  FloorPrice = 0
  MaxFaults = 0
INVARIANTS
  TopBidIsTheHighest
