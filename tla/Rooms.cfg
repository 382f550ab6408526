SPECIFICATION Spec
CONSTANTS
  NoSocket = NoSocket
  NoPair = NoPair
  s1 = s1
  s2 = s2
  p1 = p1
  p2 = p2
  h1 = h1
  h2 = h2
  t1 = t1
  t2 = t2
  Sockets = {s1, s2}
  Pairs = {p1, p2}
  Handlers = {h1, h2}
  Ticks = {t1}
  MaxVersion = 1
  MaxWire = 1
  MaxFaults = 1
SYMMETRY Symmetry
CHECK_DEADLOCK FALSE
INVARIANTS
  STypeOK
  SubscribersHaveInterval
  OneInterval
  IntervalStopsWithLastSocket
  AnswersAreTrue
  SInv
