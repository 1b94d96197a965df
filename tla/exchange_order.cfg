SPECIFICATION Spec
CONSTANTS
  a = a
  c1 = c1
  c2 = c2
  First = {a}
  Exchanges = {c1, c2}
  Ordered <- Two
  InStock = 6
  Takes = {1, 2}
  Gives = {1}
  MaxReturns = 1
  MaxCrashes = 1
  ExchangesApart = TRUE
  ReturnsApart = TRUE
  LatestFirst = FALSE
  HandoversStay = TRUE
PROPERTIES
  ChangesSettle
CHECK_DEADLOCK FALSE
