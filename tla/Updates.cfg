SPECIFICATION NSpec
CONSTANTS
  NoScore = NoScore
  NoOrder = NoOrder
  NoPrice = NoPrice
  NoBroadcast = NoBroadcast
  Undefined = Undefined
  h1 = h1
  h2 = h2
  Handlers = {h1, h2}
  Orders = {1, 2}
  Events = {"createOrder", "matchTopOrders", "cancelOrder"}
  Requests <- CrossingRequests
  CeilingPrice = 16
  FloorPrice = 0
  MaxLen = 1
  MaxUnread = 1
  MaxFaults = 1
SYMMETRY HandlerSymmetry
INVARIANTS
  NTypeOK
  UpdatesAreTrue
  TradesToldOnce
  ChangesReachSubscribers
  NInv
