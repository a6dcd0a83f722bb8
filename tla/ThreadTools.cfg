CONSTANTS
  Threads = {t1, t2, t3, t4}
  None = None
  THREAD_MAX = 4
  Timeslice = 3
SYMMETRY ThreadSymmetry
SPECIFICATION Spec
INVARIANTS
  TypeOK
  QueuesSound
  RunningValid
PROPERTIES
  YieldSwitches
  LineMoves
  ImplementsFifoLock
