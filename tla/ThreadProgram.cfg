CONSTANTS
  Threads = {0, 1, 2, 3}
  None = None
  THREAD_MAX = 4
  Timeslice = 3
  LoopArgs = {0, 1, 8}
  INT_MAX = 2047
  BankArgs <- MCBankArgs
SPECIFICATION FairProgramSpec
INVARIANTS
  ProgramTypeOK
  CriticalIffOwner
  BankSerial
  ResultsRight
PROPERTIES
  AllFinish
