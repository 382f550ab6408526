SPECIFICATION FairSpec
CONSTANTS
  NoSocket = NoSocket
  NoPair = NoPair
  s1 = s1
  s2 = s2
  p1 = p1
  p2 = p2
  h1 = h1
  h2 = h2
  t1 = t1
  t2 = t2
  Sockets = {s1, s2}
  Pairs = {p1}
  Handlers = {h1}
  Ticks = {t1, t2}
  MaxVersion = 2
  MaxWire = 2
  MaxFaults = 1
CHECK_DEADLOCK FALSE
PROPERTIES
  BookReachesSubscribers
