SPECIFICATION FairBookSpec
CONSTANTS
  NoScore = NoScore
  NoOrder = NoOrder
  NoPrice = NoPrice
  h1 = h1
  h2 = h2
  Handlers = {h1, h2}
  Orders = {1, 2}
  Events = {"createOrder", "matchTopOrders", "cancelOrder"}
  Requests <- CrossingPair
  CeilingPrice = 16
  FloorPrice = 0
  MaxFaults = 0
  Limit = 2
INVARIANTS
  RankedHaveHashes
  ShownAtTheirTerms
  ClosedOrdersNotShown
PROPERTIES
  EveryRequestAnswered
  CancelTakesEffect
