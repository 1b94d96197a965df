SPECIFICATION Spec
CONSTANTS
  warehouse = warehouse
  boutique = boutique
  v1 = v1
  v2 = v2
  r1 = r1
  r2 = r2
  h1 = h1
  h2 = h2
  Places = {warehouse, boutique}
  Variants = {v1, v2}
  InStock <- MCInStock
  OnShelf <- MCOnShelf
  Requests = {r1, r2}
  Handlers = {h1, h2}
  CorrectionsApart = TRUE
  CountsAtOnce = TRUE
  ReversesApart = TRUE
  MaxSessions = 2
  MaxOps = 4
  MaxMove = 1
  MaxUnits = 2
INVARIANTS
  StocktakeTypeOK
  BooksAddUp
  UndoneExactly
PROPERTIES
  CountsAreTrue
  TransfersStayOut
SYMMETRY Symmetry
CHECK_DEADLOCK FALSE
