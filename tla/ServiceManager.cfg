SPECIFICATION FairSpec
CONSTANTS
  A = A  B = B  C = C
  Manager = Manager
  Names = {A, B}
  Ops = {"spawn", "kill", "exchange"}
  ManagerTrades = TRUE
  AnyPartners = TRUE
CHECK_DEADLOCK FALSE
INVARIANTS AnswerTrue FifosInPlace
PROPERTIES ImplementsTree CommandEnds
