SPECIFICATION Spec
CONSTANTS
  o1 = o1
  p1 = p1
  p2 = p2
  q1 = q1
  r1 = r1
  r2 = r2
  h1 = h1
  Orders = {o1}
  Payments = {p1, p2}
  Returns = {q1}
  Kinds = {"primary", "extra"}
  Requests = {r1}
  Clerks = {h1}
  Amounts = {1}
  CorrectAmounts = {2}
  MaxCycles = 1
  MaxFixes = 2
  MaxCorrected = 1
  MaxDrawer = 2
  MaxEntries = 3
  ClerksApart = TRUE
  CorrectionsApart = TRUE
  RoutesApart = TRUE
  CorrectionsLast = TRUE
INVARIANTS
  CashTypeOK
  RegisterFollowsDocuments
  BalanceIsTheDrawer
SYMMETRY Symmetry
CHECK_DEADLOCK FALSE
