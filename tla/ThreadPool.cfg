CONSTANTS
  Workers = {w1, w2, w3}
  Main = Main
  Nobody = Nobody
  MaxJobs = 4
  MaxSpurious = 2
SPECIFICATION FairSpec
INVARIANTS
  TypeOK
  Counters
  NoLostWakeup
  Fifo
  DestroySafe
PROPERTIES
  WaitSound
  EveryJobRuns
  WaitReturns
  DestroyReturns
  ImplementsService
