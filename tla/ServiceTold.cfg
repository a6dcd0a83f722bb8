SPECIFICATION Spec
CONSTANTS
  A = A  B = B  C = C
  Manager = Manager
  Names = {A, B}
  Ops = {"spawn", "exchange"}
  ManagerTrades = TRUE
  AnyPartners = FALSE
CHECK_DEADLOCK FALSE
INVARIANTS ToldLast
