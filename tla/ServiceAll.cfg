SPECIFICATION FairSpec
CONSTANTS
  A = A  B = B  C = C
  Manager = Manager
  Names = {A, B, C}
  Ops = {"spawn", "kill", "exchange"}
  ManagerTrades = FALSE
  AnyPartners = FALSE
CHECK_DEADLOCK FALSE
INVARIANTS TypeOK TreeSound Quiet AnswerTrue
PROPERTIES ImplementsTree CommandEnds
