SPECIFICATION Spec
CONSTANTS
  o1 = o1
  o2 = o2
  s1 = s1
  r1 = r1
  r2 = r2
  h1 = h1
  h2 = h2
  Orders = {o1, o2}
  Lines = {1, 2, 3}
  Remainder <- MCRemainder
  OrderOf <- MCOrderOf
  Shelves = {s1}
  ShelfOf <- MCShelfOf
  Ordered <- MCOrdered
  InStock <- MCInStock
  Requests = {r1, r2}
  Handlers = {h1, h2}
  OrdersApart = TRUE
  CountsApart = TRUE
  MaxOps = 3
  MaxCounts = 1
  MaxUnits = 4
INVARIANTS
  StockTypeOK
  CacheIsSum
  BooksFollowMovements
  DispatchedOnce
  PartsAddUp
PROPERTIES
  SentLeavesNothing
  GivesBackWhatItTook
SYMMETRY Symmetry
CHECK_DEADLOCK FALSE
