------------------------ MODULE ThreadProgramProofs -------------------------
(***************************************************************************)
(* The threads of threads.c, on any time slice, any arguments and any      *)
(* width of an int: the program only does what ThreadTools lets a program  *)
(* do, so that all that is proved of the library holds of it; the lock     *)
(* protects the balance, and both bank operations take effect once.        *)
(***************************************************************************)
EXTENDS ThreadProgram, ThreadToolsProofs, ProgramNumbers

USE ThreadsAssumption

(* The ids of the program.                                                 *)
LEMMA Ids ==
  /\ Threads = {0, 1, 2, 3} /\ FIB \in Threads /\ FACT \in Threads
  /\ Banks \subseteq Threads /\ FIB \notin Banks /\ FACT \notin Banks
  /\ None \notin Banks
  BY ProgramAssumption, ThreadsAssumption DEF FIB, FACT, Banks

(* An int that wraps around is an int, and one that fits is kept.          *)
LEMMA WrapInt ==
  ASSUME NEW n \in Int
  PROVE  Wrap(n) \in Ints /\ (n \in Ints => Wrap(n) = n)
  <1>1. INT_MAX \in Nat
    BY ProgramAssumption
  <1> DEFINE d == 2 * (INT_MAX + 1)
  <1>2. d \in Nat /\ d > 0 /\ n - IntMin \in Int
    BY <1>1 DEF IntMin
  <1> HIDE DEF d
  <1>3. /\ (n - IntMin) % d \in 0..(d - 1)
        /\ n - IntMin \in 0..(d - 1) => (n - IntMin) % d = n - IntMin
    BY <1>2, Remainder
  <1>4. Wrap(n) = ((n - IntMin) % d) + IntMin
    BY DEF Wrap, d
  <1> QED
    BY <1>1, <1>3, <1>4 DEF IntMin, Ints, d

(* An operation of zero changes nothing, and the balance stays an int.     *)
LEMMA UpdatedInt ==
  ASSUME NEW m \in Ints, NEW n \in Ints
  PROVE  /\ Updated(m, n) \in Ints
         /\ n = 0 => Updated(m, n) = m
  <1>1. INT_MAX \in Nat /\ n \in Int /\ m \in Int /\ Ints \subseteq Int
    BY ProgramAssumption DEF Ints, IntMin
  <1>2. -n \in Int
    BY <1>1
  <1>3. Magnitude(n) \in Ints /\ (n = 0 => Magnitude(n) = 0)
    BY <1>1, <1>2, WrapInt DEF Magnitude
  <1>4. PICK k \in Int : k = Magnitude(n) /\ (n = 0 => k = 0)
    BY <1>1, <1>3
  <1>5. m + n \in Int /\ m - k \in Int /\ (n = 0 => m - k = m /\ ~(n > 0))
    BY <1>1, <1>4
  <1> QED
    BY <1>1, <1>4, <1>5, WrapInt DEF Updated

(* The balance after one operation and after two, in either order.         *)
LEMMA UpdatedTwice ==
  ASSUME NEW a \in BankArgs, NEW b \in BankArgs
  PROVE  /\ 500 \in Ints /\ Updated(500, a) \in Ints /\ Updated(Updated(500, a), b) \in Ints
         /\ a = 0 => Updated(500, a) = 500
         /\ b = 0 => Updated(Updated(500, a), b) = Updated(500, a)
  <1>1. 500 \in Ints /\ a \in Ints /\ b \in Ints
    BY ProgramAssumption DEF Ints, IntMin
  <1> DEFINE m == Updated(500, a)
  <1>2. m \in Ints
    BY <1>1, UpdatedInt
  <1> HIDE DEF m
  <1>3. Updated(m, b) \in Ints /\ (b = 0 => Updated(m, b) = m)
    BY <1>1, <1>2, UpdatedInt
  <1> QED
    BY <1>1, <1>2, <1>3, UpdatedInt DEF m

(* An operation that does not overflow does not overdraw.                  *)
LEMMA UpdatedPlain ==
  ASSUME NEW m \in 0..INT_MAX, NEW n \in Ints, n # IntMin, m + Deposit(n) <= INT_MAX
  PROVE  Updated(m, n) \in 0..(m + Deposit(n))
  <1>1. INT_MAX \in Nat /\ n \in Int /\ m \in Int
    BY ProgramAssumption DEF Ints, IntMin
  <1>2. CASE n > 0
    <2>1. m + n \in Ints /\ Deposit(n) = n
      BY <1>1, <1>2 DEF Ints, IntMin, Deposit
    <2> QED
      BY <1>1, <1>2, <2>1, WrapInt DEF Updated
  <1>3. CASE ~(n > 0)
    <2>1. -n \in Ints /\ (m >= -n => m + n \in Ints) /\ Deposit(n) = 0
      BY <1>1, <1>3 DEF Ints, IntMin, Deposit
    <2>2. Magnitude(n) = -n
      BY <1>1, <1>3, <2>1, WrapInt DEF Magnitude
    <2>3. m - Magnitude(n) = m + n
      BY <1>1, <2>2
    <2>4. m >= -n => Wrap(m + n) = m + n
      BY <1>1, <2>1, WrapInt
    <2>5. Updated(m, n) = m + n \/ Updated(m, n) = m
      BY <1>1, <1>3, <2>2, <2>3, <2>4 DEF Updated
    <2>6. m >= -n => m + n \in 0..m
      BY <1>1, <1>3
    <2>7. Updated(m, n) \in 0..m
      BY <1>1, <1>3, <2>2, <2>3, <2>4, <2>6 DEF Updated
    <2> QED
      BY <1>1, <2>1, <2>7
  <1> QED
    BY <1>2, <1>3

(* Nor do two of them together.                                            *)
LEMMA NoOverdraft ==
  ASSUME NEW a \in BankArgs, NEW b \in BankArgs, IntMin \notin {a, b},
         500 + Deposit(a) + Deposit(b) <= INT_MAX
  PROVE  /\ Updated(500, a) >= 0
         /\ Updated(Updated(500, a), b) >= 0
  <1>1. /\ INT_MAX \in Nat /\ INT_MAX >= 500 /\ a \in Ints /\ b \in Ints /\ 500 \in 0..INT_MAX
        /\ a \in Int /\ b \in Int
    BY ProgramAssumption DEF Ints, IntMin
  <1>2. Deposit(a) \in Nat /\ Deposit(b) \in Nat
    BY <1>1 DEF Deposit
  <1> DEFINE m == Updated(500, a)
  <1>3. 500 + Deposit(a) <= INT_MAX
    BY <1>1, <1>2
  <1>4. m \in 0..(500 + Deposit(a))
    BY <1>1, <1>3, UpdatedPlain
  <1> HIDE DEF m
  <1>5. m \in 0..INT_MAX /\ m + Deposit(b) <= INT_MAX
    BY <1>1, <1>2, <1>4
  <1>6. Updated(m, b) \in 0..(m + Deposit(b))
    BY <1>1, <1>5, UpdatedPlain
  <1> QED
    BY <1>2, <1>4, <1>5, <1>6 DEF m
-----------------------------------------------------------------------------
(* The steps of the program are steps that ThreadTools knows.              *)
LEMMA ProgramInitIsInit == ProgramInit => Init
  BY DEF ProgramInit

(* A macro called by a thread that has an id is a step of ThreadTools.     *)
LEMMA RunningId ==
  ASSUME NEW t \in Threads, RUNNING = t, Yield \/ Lock \/ Unlock \/ Exit
  PROVE  ThreadStep
  BY DEF ThreadStep

(* So is the end of an iteration of fibonacci or factorial ...             *)
LEMMA IterationIsStep ==
  ASSUME NEW t \in Threads, RUNNING = t, IterationEnds(t)
  PROVE  ThreadStep
  BY RunningId DEF IterationEnds

(* ... and a step of a bank operation.                                     *)
LEMMA BankStepIsStep ==
  ASSUME NEW b \in Banks, BankStep(b)
  PROVE  ThreadStep
  <1>1. b \in Threads
    BY Ids
  <1> QED
    BY <1>1, RunningId DEF BankStep, BankLock, BankLocked, BankUpdate, BankRelease, BankExit, Advance

(* Every step of the program is a step, or a stutter, of ThreadTools.      *)
LEMMA ProgramStepIsNext ==
  ASSUME id \in 0..4, [ProgramNext]_allvars
  PROVE  [Next]_ttvars
  <1>1. CASE CreateThread
    <2>1. id \in Threads
      BY <1>1, Ids DEF CreateThread
    <2> QED
      BY <1>1, <2>1 DEF CreateThread, Next
  <1>2. CASE FibonacciStep \/ FactorialStep
    BY <1>2, IterationIsStep, Ids DEF FibonacciStep, FactorialStep, Next
  <1>3. CASE \E b \in Banks : BankStep(b)
    BY <1>3, BankStepIsStep DEF Next
  <1>4. CASE StartProgram \/ scheduler \/ Kernel \/ Returned \/ UNCHANGED allvars
    BY <1>4 DEF StartProgram, Next, allvars
  <1> QED
    BY <1>1, <1>2, <1>3, <1>4 DEF ProgramNext, ProcessStep

(* So the invariant of the library holds of the program too.               *)
LEMMA ToolsInvKept ==
  ASSUME ProgramInv, [ProgramNext]_allvars
  PROVE  ToolsInv' /\ [Next]_ttvars
  BY ProgramStepIsNext, ToolsInvStep DEF ProgramInv, ProgramTypeOK
-----------------------------------------------------------------------------
(* What a call of the scheduler makes of the lock and of its waiting line. *)
LEMMA SchedulerLock ==
  ASSUME ToolsInv, scheduler
  PROVE  /\ at = "scheduler" /\ at' \in {"thread", "returned"}
         /\ see \in {2, 3} => lock_owner # RUNNING
         /\ see # 0 => RUNNING \in Threads /\ RUNNING \notin Waiting
         /\ \/ see # 2 /\ lock_owner' = lock_owner /\ Waiting' = Waiting
            \/ /\ lock_owner = None /\ lock_owner' \in Waiting
               /\ Waiting' = (Waiting \ {lock_owner'}) \cup (IF see = 2 THEN {RUNNING} ELSE {})
            \/ see = 2 /\ lock_owner = None /\ lock_owner' = RUNNING /\ Waiting' = Waiting
            \/ see = 2 /\ lock_owner # None /\ lock_owner' = lock_owner /\ Waiting' = Waiting \cup {RUNNING}
  <1>1. at = "scheduler" /\ at' \in {"thread", "returned"}
    BY DEF scheduler, Resume
  <1>2. /\ see \in {2, 3} => lock_owner # RUNNING
        /\ see # 0 => RUNNING \in Threads /\ RUNNING \notin Waiting /\ wq_size < THREAD_MAX
    BY <1>1, RunningFacts DEF ToolsInv, CallerSound
  <1>3. CASE Start \/ RunNext \/ Remove
    BY <1>1, <1>2, <1>3 DEF Start, RunNext, Remove, Waiting
  <1>4. CASE GrantLock
    BY <1>1, <1>2, <1>4 DEF GrantLock, Waiting, queues
  <1>5. CASE MakeWait
    <2>1. Waiting' = Waiting \cup {RUNNING}
      BY <1>2, <1>5, AppendToQueue DEF MakeWait, ToolsInv, QueuesSound, Waiting
    <2> QED
      BY <1>1, <1>2, <1>5, <2>1 DEF MakeWait
  <1>6. CASE HandOver
    <2> DEFINE t == waiting_queue[0]
               waiting == Shift(waiting_queue, wq_size)
    <2>1. see # 0 /\ MustHandOver /\ lock_owner' = t /\ lock_owner = None
      BY <1>6 DEF HandOver, MustHandOver
    <2>2. /\ t \in Threads /\ t \in Waiting /\ t # RUNNING
          /\ IsQueue(waiting, wq_size - 1) /\ Elems(waiting, wq_size - 1) = Waiting \ {t}
      BY <1>1, <2>1, HandOverQueues
    <2> HIDE DEF t, waiting
    <2>3. \/ see # 2 /\ waiting_queue' = waiting /\ wq_size' = wq_size - 1
          \/ see = 2 /\ waiting_queue' = AppendTo(waiting, wq_size - 1, RUNNING) /\ wq_size' = wq_size
      BY <1>6 DEF HandOver, waiting, t
    <2>4. CASE see # 2
      BY <1>1, <1>2, <2>1, <2>2, <2>3, <2>4 DEF Waiting
    <2>5. CASE see = 2
      <3>1. wq_size \in Nat /\ wq_size - 1 < THREAD_MAX /\ (wq_size - 1) + 1 = wq_size
        BY <1>2, <2>5 DEF ToolsInv, TypeOK
      <3>2. RUNNING \in Threads /\ RUNNING \notin Elems(waiting, wq_size - 1)
        BY <1>2, <2>2, <2>5
      <3>3. Elems(AppendTo(waiting, wq_size - 1, RUNNING), wq_size) = Elems(waiting, wq_size - 1) \cup {RUNNING}
        <4> DEFINE n == wq_size - 1
        <4>1. IsQueue(waiting, n) /\ n < THREAD_MAX /\ n + 1 = wq_size
          BY <2>2, <3>1
        <4> HIDE DEF n
        <4>2. Elems(AppendTo(waiting, n, RUNNING), n + 1) = Elems(waiting, n) \cup {RUNNING}
          BY <3>2, <4>1, AppendToQueue DEF n
        <4> QED
          BY <4>1, <4>2 DEF n
      <3>4. Waiting' = (Waiting \ {t}) \cup {RUNNING}
        BY <2>2, <2>3, <2>5, <3>3 DEF Waiting
      <3> QED
        BY <1>1, <1>2, <2>1, <2>2, <2>5, <3>4
    <2> QED
      BY <2>4, <2>5
  <1> QED
    BY <1>3, <1>4, <1>5, <1>6 DEF scheduler
-----------------------------------------------------------------------------
(* The lock: who is in the critical section, who waits.                    *)

(* A bank operation that is being queued has called the scheduler.         *)
LEMMA CriticalForm ==
  ASSUME NEW b
  PROVE  /\ InCriticalSection(b) <=>
              step[b] \in {"update", "release"} \/ (step[b] = "locked" /\ b \notin Waiting \cup Callers)
         /\ InCriticalSection(b)' <=>
              step'[b] \in {"update", "release"} \/ (step'[b] = "locked" /\ b \notin Waiting' \cup Callers')
  BY DEF InCriticalSection, Callers

(* A step that leaves the lock, its line and the bank operations alone.    *)
LEMMA LockAlone ==
  ASSUME LockUse, Waiting' = Waiting, Callers' = Callers, lock_owner' = lock_owner, step' = step,
         finished' \cap Banks = finished \cap Banks
  PROVE  LockUse'
  <1>1. CriticalIffOwner'
    BY CriticalForm DEF LockUse, CriticalIffOwner
  <1> QED
    BY <1>1 DEF LockUse

(* The macros as far as the lock is concerned.                             *)
LEMMA MacroLock ==
  ASSUME ProgramInv, at = "thread"
  PROVE  /\ RUNNING \in Threads /\ RUNNING \notin Waiting /\ Callers = {}
         /\ Yield \/ Lock \/ Unlock \/ Exit => Waiting' = Waiting /\ RUNNING' = RUNNING
         /\ Yield => Callers' = {} /\ lock_owner' = lock_owner /\ finished' = finished
         /\ Lock => Callers' = {RUNNING} /\ lock_owner' = lock_owner /\ finished' = finished
         /\ Unlock => /\ Callers' = {} /\ finished' = finished
                      /\ lock_owner' = IF lock_owner = RUNNING THEN None ELSE lock_owner
         /\ Exit => /\ Callers' = {} /\ lock_owner' = lock_owner
                    /\ finished' = finished \cup {RUNNING}
  <1>1. RUNNING \in Threads /\ RUNNING \notin Waiting /\ Callers = {}
    BY RunningFacts DEF ProgramInv, Callers
  <1>2. Yield \/ Lock \/ Unlock \/ Exit => UNCHANGED queues
    BY DEF Yield, YieldOn, YieldCaught, Lock, Unlock, Exit, ttvars, queues
  <1>3. Yield \/ Lock \/ Unlock \/ Exit => Waiting' = Waiting /\ RUNNING' = RUNNING
    BY <1>2 DEF queues, Waiting, RUNNING
  <1>4. Yield => Callers' = {} /\ lock_owner' = lock_owner /\ finished' = finished
    BY DEF Yield, YieldOn, YieldCaught, sighandler, JumpToScheduler, Callers, ttvars
  <1>5. Lock => Callers' = {RUNNING} /\ lock_owner' = lock_owner /\ finished' = finished
    BY <1>3 DEF Lock, JumpToScheduler, Callers
  <1>6. Unlock => /\ Callers' = {} /\ finished' = finished
                  /\ lock_owner' = IF lock_owner = RUNNING THEN None ELSE lock_owner
    BY DEF Unlock, Callers
  <1>7. Exit => /\ Callers' = {} /\ lock_owner' = lock_owner
                /\ finished' = finished \cup {RUNNING}
    BY DEF Exit, JumpToScheduler, Callers
  <1> QED
    BY <1>1, <1>3, <1>4, <1>5, <1>6, <1>7

(* The steps of main(), of the other threads and of the kernel.            *)
LEMMA LockUseOthers ==
  ASSUME ProgramInv,
         \/ CreateThread \/ StartProgram \/ FibonacciStep \/ FactorialStep
         \/ (Kernel \/ Returned) /\ UNCHANGED progvars
         \/ UNCHANGED allvars
  PROVE  LockUse'
  <1>1. CASE CreateThread
    <2>1. at = "main" /\ at' = "main"
      BY <1>1 DEF CreateThread, Create, ProgramInv, ProgramTypeOK, Created, ttvars
    <2>2. Waiting' = Waiting /\ lock_owner' = lock_owner /\ finished' = finished /\ step' = step
      BY <1>1 DEF CreateThread, Create, Waiting, ttvars, queues
    <2> QED
      BY <2>1, <2>2, LockAlone DEF ProgramInv, Callers
  <1>2. CASE StartProgram
    <2>1. /\ Waiting' = Waiting /\ lock_owner' = lock_owner /\ finished' = finished /\ step' = step
          /\ Callers = {} /\ Callers' = {}
      BY <1>2 DEF StartProgram, StartThreading, Waiting, queues, progvars, Callers
    <2> QED
      BY <2>1, LockAlone DEF ProgramInv
  <1>3. CASE FibonacciStep \/ FactorialStep
    <2>1. /\ RUNNING \notin Banks /\ step' = step /\ (Exit \/ Yield)
      BY <1>3, Ids DEF FibonacciStep, FactorialStep, IterationEnds
    <2>2. at = "thread"
      BY <2>1 DEF Exit, Yield, YieldOn, YieldCaught
    <2>3. finished' \subseteq finished \cup {RUNNING} /\ finished \subseteq finished'
      BY <2>1, <2>2, MacroLock
    <2>4. Waiting' = Waiting /\ Callers' = Callers /\ lock_owner' = lock_owner
      BY <2>1, <2>2, MacroLock
    <2>5. finished' \cap Banks = finished \cap Banks
      BY <2>1, <2>3
    <2> QED
      BY <2>1, <2>4, <2>5, LockAlone DEF ProgramInv
  <1>4. CASE ((Kernel \/ Returned) /\ UNCHANGED progvars) \/ UNCHANGED allvars
    <2>1. UNCHANGED <<queues, lock_owner, finished, at, see, step>>
      BY <1>4 DEF Kernel, SendTSTP, AlarmFires, Returned, ttvars, progvars, allvars
    <2>2. Waiting' = Waiting /\ Callers' = Callers
      BY <2>1 DEF Waiting, Callers, RUNNING, queues
    <2> QED
      BY <2>1, <2>2, LockAlone DEF ProgramInv
  <1> QED
    BY <1>1, <1>2, <1>3, <1>4

(* The steps of a bank operation.                                          *)
LEMMA LockUseBank ==
  ASSUME ProgramInv, NEW b \in Banks, BankStep(b)
  PROVE  LockUse'
  <1>1. /\ RUNNING = b /\ at = "thread" /\ b \notin Waiting /\ Callers = {}
        /\ Yield \/ Lock \/ Unlock \/ Exit => Waiting' = Waiting /\ RUNNING' = b
    <2>1. RUNNING = b /\ at = "thread"
      BY DEF BankStep, BankLock, BankLocked, BankUpdate, BankRelease, BankExit, Advance,
             Yield, YieldOn, YieldCaught, Lock, Unlock, Exit
    <2> QED
      BY <2>1, MacroLock
  <1>2. /\ \A c \in Banks : (step[c] \in {"update", "release"} \/
                              (step[c] = "locked" /\ c \notin Waiting)) <=> lock_owner = c
        /\ Waiting \subseteq {c \in Banks : step[c] = "locked"}
        /\ lock_owner \in Banks \cup {None} /\ None \notin Banks
        /\ \A c \in Banks \cap finished : step[c] = "exit"
        /\ step \in [Banks -> {"start", "locked", "update", "release", "exit"}]
    BY <1>1, CriticalForm, Ids DEF ProgramInv, LockUse, CriticalIffOwner, ProgramTypeOK
  <1>3. CASE BankLock(b)
    <2>1. /\ step[b] = "start" /\ step' = [step EXCEPT ![b] = "locked"]
          /\ Waiting' = Waiting /\ Callers' = {b} /\ lock_owner' = lock_owner /\ finished' = finished
      BY <1>1, <1>3, MacroLock DEF BankLock, Advance
    <2>2. CriticalIffOwner'
      BY <1>1, <1>2, <2>1, CriticalForm DEF CriticalIffOwner
    <2> QED
      BY <1>1, <1>2, <2>1, <2>2 DEF LockUse
  <1>4. CASE BankLocked(b) \/ BankUpdate(b)
    <2>1. /\ step[b] \in {"locked", "update"}
          /\ \E s \in {"update", "release"} : step' = [step EXCEPT ![b] = s]
          /\ Waiting' = Waiting /\ Callers' = {} /\ lock_owner' = lock_owner /\ finished' = finished
      BY <1>1, <1>4, MacroLock DEF BankLocked, BankUpdate, Advance
    <2>2. CriticalIffOwner'
      BY <1>1, <1>2, <2>1, CriticalForm DEF CriticalIffOwner
    <2> QED
      BY <1>1, <1>2, <2>1, <2>2 DEF LockUse
  <1>5. CASE BankRelease(b)
    <2>1. /\ step[b] = "release" /\ step' = [step EXCEPT ![b] = "exit"]
          /\ Waiting' = Waiting /\ Callers' = {} /\ finished' = finished
          /\ lock_owner' = IF lock_owner = b THEN None ELSE lock_owner
      BY <1>1, <1>5, MacroLock DEF BankRelease, Advance
    <2>2. lock_owner = b /\ lock_owner' = None
      BY <1>2, <2>1
    <2>3. CriticalIffOwner'
      BY <1>1, <1>2, <2>1, <2>2, CriticalForm DEF CriticalIffOwner
    <2> QED
      BY <1>1, <1>2, <2>1, <2>2, <2>3 DEF LockUse
  <1>6. CASE BankExit(b)
    <2>1. /\ step[b] = "exit" /\ step' = step
          /\ Waiting' = Waiting /\ Callers' = {} /\ finished' = finished \cup {b}
          /\ lock_owner' = lock_owner
      BY <1>1, <1>6, MacroLock DEF BankExit, progvars
    <2>2. CriticalIffOwner'
      BY <1>1, <1>2, <2>1, CriticalForm DEF CriticalIffOwner
    <2> QED
      BY <1>1, <1>2, <2>1, <2>2 DEF LockUse
  <1> QED
    BY <1>3, <1>4, <1>5, <1>6 DEF BankStep

(* The scheduler: the lock goes to a thread that has called lock(), or     *)
(* stays where it is, and the other callers wait.                          *)
LEMMA LockUseScheduler ==
  ASSUME ProgramInv, scheduler, UNCHANGED progvars
  PROVE  LockUse'
  <1>1. /\ at = "scheduler" /\ Callers' = {} /\ step' = step /\ finished' = finished
        /\ see # 2 => Callers = {}
        /\ see = 2 => Callers = {RUNNING} /\ lock_owner # RUNNING /\ RUNNING \notin Waiting
    <2>1. /\ at = "scheduler" /\ at' \in {"thread", "returned"}
          /\ see = 2 => lock_owner # RUNNING /\ RUNNING \notin Waiting
      BY SchedulerLock DEF ProgramInv
    <2> QED
      BY <2>1 DEF Callers, progvars, scheduler, Resume
  <1>2. /\ \A c \in Banks : (step[c] \in {"update", "release"} \/
                              (step[c] = "locked" /\ c \notin Waiting \cup Callers)) <=> lock_owner = c
        /\ Waiting \cup Callers \subseteq {c \in Banks : step[c] = "locked"}
        /\ lock_owner \in Banks \cup {None} /\ None \notin Banks
        /\ \A c \in Banks \cap finished : step[c] = "exit"
    BY CriticalForm, Ids DEF ProgramInv, LockUse, CriticalIffOwner
  <1>3. CASE lock_owner' = lock_owner /\ Waiting' = Waiting \cup Callers
    <2>1. CriticalIffOwner'
      BY <1>1, <1>2, <1>3, CriticalForm DEF CriticalIffOwner
    <2> QED
      BY <1>1, <1>2, <1>3, <2>1 DEF LockUse
  <1>4. CASE /\ lock_owner = None /\ lock_owner' \in Waiting \cup Callers
             /\ Waiting' = (Waiting \cup Callers) \ {lock_owner'}
    <2>1. CriticalIffOwner'
      BY <1>1, <1>2, <1>4, CriticalForm DEF CriticalIffOwner
    <2> QED
      BY <1>1, <1>2, <1>4, <2>1 DEF LockUse
  <1>5. \/ lock_owner' = lock_owner /\ Waiting' = Waiting \cup Callers
        \/ /\ lock_owner = None /\ lock_owner' \in Waiting \cup Callers
           /\ Waiting' = (Waiting \cup Callers) \ {lock_owner'}
    <2>1. \/ see # 2 /\ lock_owner' = lock_owner /\ Waiting' = Waiting
          \/ /\ lock_owner = None /\ lock_owner' \in Waiting
             /\ Waiting' = (Waiting \ {lock_owner'}) \cup (IF see = 2 THEN {RUNNING} ELSE {})
          \/ see = 2 /\ lock_owner = None /\ lock_owner' = RUNNING /\ Waiting' = Waiting
          \/ see = 2 /\ lock_owner # None /\ lock_owner' = lock_owner /\ Waiting' = Waiting \cup {RUNNING}
      BY SchedulerLock DEF ProgramInv
    <2> QED
      BY <1>1, <2>1
  <1> QED
    BY <1>3, <1>4, <1>5

(* The use of the lock is right after every step.                          *)
LEMMA LockUseStep ==
  ASSUME ProgramInv, [ProgramNext]_allvars
  PROVE  LockUse'
  BY LockUseOthers, LockUseBank, LockUseScheduler DEF ProgramNext, ProcessStep
-----------------------------------------------------------------------------
(* The threads created, and the end.                                       *)
(* The arguments of the command line stay what they are.                   *)
LEMMA ArgsKept ==
  ASSUME [ProgramNext]_allvars
  PROVE  arg' = arg
  BY DEF ProgramNext, ProcessStep, CreateThread, StartProgram, FibonacciStep, FactorialStep,
         BankStep, BankLock, BankLocked, BankUpdate, BankRelease, BankExit, progvars, allvars

(* After init_threads the scheduler alone decides that the program ends.   *)
LEMMA CreatedRest ==
  ASSUME ProgramInv, [ProgramNext]_allvars, ~CreateThread
  PROVE  /\ id' = id /\ tcbs' = tcbs
         /\ at' # "main" => at # "main" \/ id = 4
         /\ at' = "returned" => rq_size' = 0 /\ wq_size' = 0
  <1>1. CASE scheduler /\ UNCHANGED progvars
    BY <1>1 DEF scheduler, Resume, progvars
  <1>2. CASE StartProgram
    BY <1>2 DEF StartProgram, StartThreading, progvars
  <1>3. CASE FibonacciStep \/ FactorialStep \/ \E b \in Banks : BankStep(b)
    <2>1. id' = id /\ (Yield \/ Lock \/ Unlock \/ Exit)
      BY <1>3 DEF FibonacciStep, FactorialStep, IterationEnds, BankStep, BankLock, BankLocked,
                  BankUpdate, BankRelease, BankExit, progvars
    <2> QED
      BY <2>1 DEF Yield, YieldOn, YieldCaught, sighandler, Lock, Unlock, Exit, JumpToScheduler, ttvars
  <1>4. CASE ((Kernel \/ Returned) /\ UNCHANGED progvars) \/ UNCHANGED allvars
    BY <1>4 DEF Kernel, SendTSTP, AlarmFires, Returned, ttvars, queues, progvars, allvars,
                ProgramInv, Created
  <1> QED
    BY <1>1, <1>2, <1>3, <1>4 DEF ProgramNext, ProcessStep

(* The threads created so far are the wanted ones that were considered.    *)
LEMMA CreatedStep ==
  ASSUME ProgramInv, [ProgramNext]_allvars
  PROVE  Created'
  <1>1. /\ id \in 0..4 /\ tcbs = {t \in Threads : t < id /\ Wanted(t)}
        /\ at # "main" => id = 4
    BY DEF ProgramInv, ProgramTypeOK, Created
  <1>2. \A t : Wanted(t)' <=> Wanted(t)
    BY ArgsKept DEF Wanted
  <1>3. CASE CreateThread
    <2>1. at = "main" /\ at' = "main" /\ id \in 0..3 /\ id' = id + 1
      BY <1>1, <1>3 DEF CreateThread, Create, ttvars
    <2>2. tcbs' = IF Wanted(id) THEN tcbs \cup {id} ELSE tcbs
      BY <1>3 DEF CreateThread, Create, ttvars
    <2>3. \A t \in Threads : t < id + 1 <=> t < id \/ t = id
      BY <2>1, ProgramAssumption
    <2>4. id \in Threads
      BY <2>1, ProgramAssumption
    <2>5. tcbs' = {t \in Threads : t < id' /\ Wanted(t)}
      BY <1>1, <2>1, <2>2, <2>3, <2>4
    <2> QED
      BY <1>2, <2>1, <2>5 DEF Created
  <1>4. CASE ~CreateThread
    BY <1>1, <1>2, <1>4, CreatedRest DEF Created
  <1> QED
    BY <1>3, <1>4
-----------------------------------------------------------------------------
(* The balance is what the operations that are done have made of it.       *)
LEMMA BalanceStep ==
  ASSUME ProgramInv, [ProgramNext]_allvars
  PROVE  BalanceExact'
  <1>1. step \in [Banks -> {"start", "locked", "update", "release", "exit"}] /\ Banks = {2, 3}
    BY DEF ProgramInv, ProgramTypeOK, Banks
  <1>2. ASSUME balance' = balance, \A b \in Banks : Applied(b)' <=> Applied(b)
        PROVE  BalanceExact'
    BY <1>1, <1>2, ArgsKept DEF ProgramInv, BalanceExact, Updated, Magnitude
  <1>3. CASE \E b \in Banks : BankUpdate(b)
    <2>1. PICK b \in Banks : BankUpdate(b)
      BY <1>3
    <2>2. /\ ~Applied(b) /\ Applied(b)' /\ balance' = Updated(balance, arg[b])
          /\ \A c \in Banks : c # b => (Applied(c)' <=> Applied(c))
      BY <1>1, <2>1 DEF BankUpdate, Advance, Applied
    <2>3. \A m, n : Updated(m, n)' = Updated(m', n')
      BY DEF Updated, Magnitude
    <2>4. CASE b = 2
      BY <1>1, <2>2, <2>4, ArgsKept DEF ProgramInv, BalanceExact
    <2>5. CASE b = 3
      BY <1>1, <2>2, <2>5, ArgsKept DEF ProgramInv, BalanceExact
    <2> QED
      BY <1>1, <2>4, <2>5
  <1>4. CASE \E b \in Banks : BankStep(b) /\ ~BankUpdate(b)
    <2>1. PICK b \in Banks : BankStep(b) /\ ~BankUpdate(b)
      BY <1>4
    <2>2. balance' = balance /\ \A c \in Banks : Applied(c)' <=> Applied(c)
      BY <1>1, <2>1 DEF BankStep, BankLock, BankLocked, BankRelease, BankExit, Advance, Applied, progvars
    <2> QED
      BY <1>2, <2>2
  <1>5. CASE ~\E b \in Banks : BankStep(b)
    <2>1. balance' = balance /\ step' = step
      BY <1>5 DEF ProgramNext, ProcessStep, CreateThread, StartProgram, FibonacciStep,
                  FactorialStep, progvars, allvars
    <2> QED
      BY <1>2, <2>1 DEF Applied
  <1> QED
    BY <1>3, <1>4, <1>5

(* Every step keeps the types: what overflows wraps around.                *)
LEMMA ProgramTypeStep ==
  ASSUME ProgramInv, [ProgramNext]_allvars
  PROVE  ProgramTypeOK' /\ \A b \in Banks : arg'[b] \in BankArgs
  <1>1. TypeOK'
    BY ToolsInvKept DEF ToolsInv
  <1>2. arg' \in [0..3 -> LoopArgs \cup BankArgs] /\ \A b \in Banks : arg'[b] \in BankArgs
    BY ArgsKept DEF ProgramInv, ProgramTypeOK
  <1>3. id' \in 0..4
    <2>1. CASE CreateThread
      BY <2>1 DEF CreateThread, ProgramInv, ProgramTypeOK
    <2> QED
      BY <2>1, CreatedRest DEF ProgramInv, ProgramTypeOK
  <1>4. balance' \in Ints
    <2>1. BalanceExact'
      BY BalanceStep
    <2>2. arg'[2] \in BankArgs /\ arg'[3] \in BankArgs
      BY <1>2 DEF Banks
    <2>3. \A m, n : Updated(m, n)' = Updated(m', n')
      BY DEF Updated, Magnitude
    <2> QED
      BY <2>1, <2>2, <2>3, UpdatedTwice DEF BalanceExact
  <1>5. /\ iter' \in [{FIB, FACT} -> Nat \ {0}] /\ x' \in Ints /\ y' \in Ints /\ z' \in Ints
        /\ step' \in [Banks -> {"start", "locked", "update", "release", "exit"}]
    <2>1. /\ iter \in [{FIB, FACT} -> Nat \ {0}] /\ x \in Ints /\ y \in Ints /\ z \in Ints
          /\ step \in [Banks -> {"start", "locked", "update", "release", "exit"}]
      BY DEF ProgramInv, ProgramTypeOK
    <2>2. 1 \in Ints /\ Ints \subseteq Int
      BY ProgramAssumption DEF Ints, IntMin
    <2>3. CASE FibonacciStep
      <3>1. x' \in Ints /\ y' \in Ints
        BY <2>1, <2>2, <2>3, WrapInt DEF FibonacciStep
      <3>2. iter' \in [{FIB, FACT} -> Nat \ {0}]
        BY <2>1, <2>3 DEF FibonacciStep, IterationEnds
      <3> QED
        BY <2>1, <2>3, <3>1, <3>2 DEF FibonacciStep
    <2>4. CASE FactorialStep
      <3>1. \A i \in Nat, n \in Int : n * i \in Int
        OBVIOUS
      <3>2. iter[FACT] \in Nat /\ (IF iter[FACT] = 1 THEN 1 ELSE z) \in Int
        BY <2>1, <2>2
      <3>3. z' \in Ints
        BY <2>4, <3>1, <3>2, WrapInt DEF FactorialStep
      <3>4. iter' \in [{FIB, FACT} -> Nat \ {0}]
        BY <2>1, <2>4 DEF FactorialStep, IterationEnds
      <3> QED
        BY <2>1, <2>4, <3>3, <3>4 DEF FactorialStep
    <2>5. CASE \E b \in Banks : BankStep(b)
      BY <2>1, <2>5 DEF BankStep, BankLock, BankLocked, BankUpdate, BankRelease, BankExit,
                        Advance, progvars
    <2>6. CASE ~FibonacciStep /\ ~FactorialStep /\ ~\E b \in Banks : BankStep(b)
      <3>1. UNCHANGED <<iter, x, y, z, step>>
        BY <2>6 DEF ProgramNext, ProcessStep, CreateThread, StartProgram, progvars, allvars
      <3> QED
        BY <2>1, <3>1
    <2> QED
      BY <2>3, <2>4, <2>5, <2>6
  <1> QED
    BY <1>1, <1>2, <1>3, <1>4, <1>5 DEF ProgramTypeOK
-----------------------------------------------------------------------------
(* What the threads compute.                                               *)

Width == 2 * (INT_MAX + 1)

(* An int differs from the number it stands for by a multiple of 2^w.      *)
LEMMA WrapCongruent ==
  /\ Width \in Nat /\ Width > 0 /\ IntMin \in Int
  /\ \A n \in Int : Congruent(Wrap(n), n, Width) /\ Wrap(n) \in Int
  /\ \A m, n \in Int : Congruent(m, n, Width) => Wrap(m) = Wrap(n)
  <1>1. Width \in Nat /\ Width > 0 /\ IntMin \in Int
    BY ProgramAssumption DEF Width, IntMin
  <1>2. ASSUME NEW n \in Int PROVE Congruent(Wrap(n), n, Width) /\ Wrap(n) \in Int
    <2>1. PICK m \in Int : m = n - IntMin
      BY <1>1
    <2>2. m % Width \in Int /\ Congruent(m % Width, m, Width)
      BY <1>1, DivMod, RemainderCongruent
    <2>3. Wrap(n) = (m % Width) + IntMin
      BY <2>1 DEF Wrap, Width
    <2>4. PICK r \in Int : r = m % Width
      BY <2>2
    <2>5. PICK k \in Int : r = k * Width + m
      BY <2>2, <2>4 DEF Congruent
    <2>6. k * Width \in Int
      BY <1>1
    <2>7. Wrap(n) = r + IntMin
      BY <2>3, <2>4
    <2>8. Wrap(n) = k * Width + n
      BY <1>1, <2>1, <2>5, <2>6, <2>7
    <2> QED
      BY <1>1, <2>7, <2>8 DEF Congruent
  <1>3. ASSUME NEW m \in Int, NEW n \in Int, Congruent(m, n, Width) PROVE Wrap(m) = Wrap(n)
    <2>1. PICK k \in Int : m = k * Width + n
      BY <1>3 DEF Congruent
    <2>2. PICK p \in Int, q \in Int : p = m - IntMin /\ q = n - IntMin
      BY <1>1
    <2>3. k * Width \in Int
      BY <1>1
    <2>4. p = k * Width + q
      BY <1>1, <2>1, <2>2, <2>3
    <2>5. p % Width = q % Width
      BY <1>1, <2>4, SameRemainder DEF Congruent
    <2> QED
      BY <2>2, <2>5 DEF Wrap, Width
  <1> QED
    BY <1>1, <1>2, <1>3

(* So sums and products may be cut to an int at every step or at the end.  *)
LEMMA WrapSum ==
  ASSUME NEW m \in Int, NEW n \in Int
  PROVE  Wrap(Wrap(m) + Wrap(n)) = Wrap(m + n)
  <1>1. Congruent(Wrap(m), m, Width) /\ Congruent(Wrap(n), n, Width)
    BY WrapCongruent
  <1>2. PICK a \in Int, b \in Int, d \in Int : a = Wrap(m) /\ b = Wrap(n) /\ d = Width
    BY WrapCongruent
  <1>3. Congruent(a + b, m + n, d)
    BY <1>1, <1>2, CongruentSum
  <1>4. a + b \in Int /\ m + n \in Int
    OBVIOUS
  <1>5. Wrap(a + b) = Wrap(m + n)
    BY <1>2, <1>3, <1>4, WrapCongruent
  <1> QED
    BY <1>2, <1>5

LEMMA WrapProduct ==
  ASSUME NEW m \in Int, NEW i \in Int
  PROVE  Wrap(Wrap(m) * i) = Wrap(m * i)
  <1>1. PICK a \in Int, d \in Int : a = Wrap(m) /\ d = Width
    BY WrapCongruent
  <1>2. Congruent(a, m, d)
    BY <1>1, WrapCongruent
  <1>3. Congruent(a * i, m * i, d)
    BY <1>2, CongruentProduct
  <1>4. PICK p \in Int, q \in Int : p = a * i /\ q = m * i
    OBVIOUS
  <1>5. Wrap(p) = Wrap(q)
    BY <1>1, <1>3, <1>4, WrapCongruent
  <1> QED
    BY <1>1, <1>4, <1>5

(* factorial is what its definition says, and an integer.                  *)
LEMMA FactorialIs ==
  /\ Factorial \in [Nat -> Int] /\ Factorial[0] = 1
  /\ \A n \in Nat \ {0} : Factorial[n] = n * Factorial[n - 1]
  <1> DEFINE Is(f) == f = [n \in Nat |-> IF n = 0 THEN 1 ELSE n * f[n - 1]]
  <1>1. \E f : Is(f)
    <2> DEFINE H == [p \in Nat \X Int |-> (p[1] + 1) * p[2]]
    <2>1. \A n \in Nat, k \in Int : (n + 1) * k \in Int
      OBVIOUS
    <2>2. H \in [Nat \X Int -> Int] /\ \A n \in Nat, k \in Int : H[<<n, k>>] = (n + 1) * k
      BY <2>1
    <2> HIDE DEF H
    <2>3. PICK g \in [Nat -> Int] : g[0] = 1 /\ \A n \in Nat : g[n + 1] = H[<<n, g[n]>>]
      <3>1. H \in [Nat \X Int -> Int] /\ 1 \in Int
        BY <2>2
      <3>2. RecursionOver(Int)
        BY Recursion
      <3> QED
        BY <3>1, <3>2 DEF RecursionOver
    <2>4. ASSUME NEW n \in Nat, n # 0 PROVE g[n] = n * g[n - 1]
      <3>1. n - 1 \in Nat /\ (n - 1) + 1 = n
        BY <2>4
      <3>2. g[n] = H[<<n - 1, g[n - 1]>>] /\ g[n - 1] \in Int
        BY <2>3, <3>1
      <3> QED
        BY <2>2, <3>1, <3>2
    <2>5. Is(g)
      BY <2>3, <2>4
    <2> QED
      BY <2>5
  <1>2. Is(Factorial)
    <2>1. Factorial = CHOOSE f : Is(f)
      BY DEF Factorial
    <2> HIDE DEF Is
    <2> QED
      BY <1>1, <2>1
  <1>3. Factorial[0] = 1 /\ \A n \in Nat \ {0} : Factorial[n] = n * Factorial[n - 1]
    <2>1. \A n \in Nat : Factorial[n] = IF n = 0 THEN 1 ELSE n * Factorial[n - 1]
      BY <1>2
    <2> QED
      BY <2>1
  <1>4. Factorial \in [Nat -> Int]
    <2> DEFINE T == {n \in Nat : Factorial[n] \in Int}
    <2>1. 0 \in T
      BY <1>3
    <2>2. ASSUME NEW n \in Nat, n \in T PROVE n + 1 \in T
      <3>1. n + 1 \in Nat \ {0} /\ (n + 1) - 1 = n
        OBVIOUS
      <3>2. Factorial[n + 1] = (n + 1) * Factorial[n]
        BY <1>3, <3>1
      <3>3. \A k \in Int : (n + 1) * k \in Int
        OBVIOUS
      <3> QED
        BY <2>2, <3>1, <3>2, <3>3
    <2>3. Nat \subseteq T
      <3> HIDE DEF T
      <3> QED
        BY <2>1, <2>2, NatSet
    <2>4. \A n \in Nat : Factorial[n] \in Int
      BY <2>3
    <2>5. Factorial = [n \in Nat |-> Factorial[n]]
      BY <1>2
    <2> QED
      BY <2>4, <2>5
  <1> QED
    BY <1>3, <1>4

(* So is fibonacci: the pairs of neighbours are made one after the other.  *)
LEMMA FibIs ==
  /\ Fib \in [Nat -> Int]
  /\ \A n \in Nat : Fib[n] = IF n <= 2 THEN 1 ELSE Fib[n - 1] + Fib[n - 2]
  <1> DEFINE Is(f) == f = [n \in Nat |-> IF n <= 2 THEN 1 ELSE f[n - 1] + f[n - 2]]
  <1>1. \E f : Is(f)
    <2> DEFINE H == [p \in Nat \X (Int \X Int) |->
                       <<p[2][2], IF p[1] = 0 THEN 1 ELSE p[2][1] + p[2][2]>>]
    <2>1. /\ H \in [Nat \X (Int \X Int) -> Int \X Int]
          /\ \A n \in Nat, k \in Int, l \in Int :
               H[<<n, <<k, l>> >>] = <<l, IF n = 0 THEN 1 ELSE k + l>>
      OBVIOUS
    <2> HIDE DEF H
    <2>2. PICK g \in [Nat -> Int \X Int] :
            g[0] = <<1, 1>> /\ \A n \in Nat : g[n + 1] = H[<<n, g[n]>>]
      <3>1. H \in [Nat \X (Int \X Int) -> Int \X Int] /\ <<1, 1>> \in Int \X Int
        BY <2>1
      <3> DEFINE S == Int \X Int
      <3>2. RecursionOver(S)
        <4> HIDE DEF S
        <4> QED
          BY Recursion
      <3>3. H \in [Nat \X S -> S] /\ <<1, 1>> \in S
        BY <3>1
      <3>4. \E g \in [Nat -> S] :
              g[0] = <<1, 1>> /\ \A n \in Nat : g[n + 1] = H[<<n, g[n]>>]
        <4> HIDE DEF S
        <4> QED
          BY <3>2, <3>3 DEF RecursionOver
      <3> QED
        BY <3>4
    <2>3. ASSUME NEW n \in Nat
          PROVE  g[n + 1] = <<g[n][2], IF n = 0 THEN 1 ELSE g[n][1] + g[n][2]>>
      <3>1. g[n] \in Int \X Int
        BY <2>2
      <3>2. g[n][1] \in Int /\ g[n][2] \in Int /\ g[n] = <<g[n][1], g[n][2]>>
        BY <3>1
      <3>3. H[<<n, <<g[n][1], g[n][2]>> >>] = <<g[n][2], IF n = 0 THEN 1 ELSE g[n][1] + g[n][2]>>
        BY <2>1, <3>2
      <3> QED
        BY <2>2, <3>2, <3>3
    <2> DEFINE f == [n \in Nat |-> g[n][1]]
    <2>4. f[0] = 1 /\ f[1] = 1 /\ f[2] = 1
      <3>1. g[1] = <<1, 1>> /\ g[2] = <<1, 2>>
        <4>1. g[0 + 1] = <<1, 1>>
          BY <2>2, <2>3
        <4>2. g[1 + 1] = <<1, 2>>
          BY <2>3, <4>1
        <4> QED
          BY <4>1, <4>2
      <3> QED
        BY <2>2, <3>1
    <2>5. ASSUME NEW n \in Nat, n > 2 PROVE f[n] = f[n - 1] + f[n - 2]
      <3>1. n - 1 \in Nat /\ n - 2 \in Nat /\ (n - 1) + 1 = n /\ (n - 2) + 1 = n - 1 /\ n - 2 # 0
        BY <2>5
      <3>2. g[n][1] = g[n - 1][2]
        BY <2>3, <3>1
      <3>3. g[n - 1][2] = g[n - 2][1] + g[n - 2][2] /\ g[n - 1][1] = g[n - 2][2]
        <4>1. PICK p \in Nat : p = n - 2 /\ p + 1 = n - 1 /\ p # 0
          BY <3>1
        <4>2. g[p + 1] = <<g[p][2], g[p][1] + g[p][2]>>
          BY <2>3, <4>1
        <4> QED
          BY <4>1, <4>2
      <3>4. g[n - 2][1] \in Int /\ g[n - 2][2] \in Int
        BY <2>2, <3>1
      <3> QED
        BY <3>1, <3>2, <3>3, <3>4
    <2>6. Is(f)
      <3>1. \A n \in Nat : f[n] = IF n <= 2 THEN 1 ELSE f[n - 1] + f[n - 2]
        <4>1. \A n \in Nat : n <= 2 => n \in {0, 1, 2}
          OBVIOUS
        <4> HIDE DEF f
        <4>2. ASSUME NEW n \in Nat, n <= 2 PROVE f[n] = 1
          BY <2>4, <4>1, <4>2
        <4>3. ASSUME NEW n \in Nat, ~(n <= 2) PROVE f[n] = f[n - 1] + f[n - 2]
          <5>1. n > 2
            BY <4>3
          <5> QED
            BY <2>5, <5>1
        <4> QED
          BY <4>2, <4>3
      <3>2. f = [n \in Nat |-> f[n]]
        OBVIOUS
      <3> HIDE DEF f
      <3> QED
        BY <3>1, <3>2
    <2> HIDE DEF Is
    <2> QED
      BY <2>6
  <1>2. Is(Fib)
    <2>1. Fib = CHOOSE f : Is(f)
      BY DEF Fib
    <2> HIDE DEF Is
    <2> QED
      BY <1>1, <2>1
  <1>3. \A n \in Nat : Fib[n] = IF n <= 2 THEN 1 ELSE Fib[n - 1] + Fib[n - 2]
    BY <1>2
  <1>4. Fib \in [Nat -> Int]
    <2> DEFINE T == {n \in Nat : Fib[n] \in Int /\ Fib[n + 1] \in Int}
    <2>1. 0 \in T
      BY <1>3
    <2>2. ASSUME NEW n \in Nat, n \in T PROVE n + 1 \in T
      <3>1. n + 1 \in Nat /\ n + 2 \in Nat /\ (n + 2) - 1 = n + 1 /\ (n + 2) - 2 = n /\ (n + 1) + 1 = n + 2
        OBVIOUS
      <3>2. Fib[n + 2] = IF n + 2 <= 2 THEN 1 ELSE Fib[n + 1] + Fib[n]
        BY <1>3, <3>1
      <3> QED
        BY <2>2, <3>1, <3>2
    <2>3. Nat \subseteq T
      <3> HIDE DEF T
      <3> QED
        BY <2>1, <2>2, NatSet
    <2>4. \A n \in Nat : Fib[n] \in Int
      BY <2>3
    <2>5. Fib = [n \in Nat |-> Fib[n]]
      BY <1>2
    <2> QED
      BY <2>4, <2>5
  <1> QED
    BY <1>3, <1>4

(* A thread that computes is not finished, and it does one iteration.      *)
LEMMA OneIteration ==
  ASSUME ProgramInv, NEW t \in {FIB, FACT}, RUNNING = t, IterationEnds(t)
  PROVE  /\ Iterations(t) = iter[t] - 1 /\ Iterations(t)' = iter[t] /\ iter[t] \in Nat \ {0}
         /\ \A u \in {FIB, FACT} \ {t} : Iterations(u)' = Iterations(u)
  <1>1. at = "thread" /\ (Exit \/ Yield)
    BY DEF IterationEnds, Exit, Yield, YieldOn, YieldCaught
  <1>2. t \notin finished
    BY <1>1, RunningFacts DEF ProgramInv, ToolsInv, QueuesSound, Live
  <1>3. iter \in [{FIB, FACT} -> Nat \ {0}]
    BY DEF ProgramInv, ProgramTypeOK
  <1>4. CASE iter[t] = arg[t]
    <2>1. iter' = iter /\ finished' = finished \cup {t}
      BY <1>4 DEF IterationEnds, Exit
    <2> QED
      BY <1>2, <1>3, <2>1 DEF Iterations
  <1>5. CASE iter[t] # arg[t]
    <2>1. iter' = [iter EXCEPT ![t] = @ + 1] /\ finished' = finished
      BY <1>1, <1>5, MacroLock DEF IterationEnds
    <2> QED
      BY <1>2, <1>3, <2>1 DEF Iterations
  <1> QED
    BY <1>4, <1>5

(* No other step finishes one of these two threads.                        *)
LEMMA IterationsRest ==
  ASSUME ProgramInv, [ProgramNext]_allvars, ~FibonacciStep, ~FactorialStep
  PROVE  /\ UNCHANGED <<iter, x, y, z>>
         /\ \A t \in {FIB, FACT} : Iterations(t)' = Iterations(t)
  <1>1. UNCHANGED <<iter, x, y, z>>
    BY DEF ProgramNext, ProcessStep, CreateThread, StartProgram, BankStep, BankLock, BankLocked,
           BankUpdate, BankRelease, BankExit, progvars, allvars
  <1>2. \A t \in {FIB, FACT} : t \in finished' <=> t \in finished
    <2>1. CASE \E b \in Banks : BankStep(b)
      <3>1. PICK b \in Banks : BankStep(b)
        BY <2>1
      <3>2. RUNNING = b /\ (Yield \/ Lock \/ Unlock \/ Exit)
        BY <3>1 DEF BankStep, BankLock, BankLocked, BankUpdate, BankRelease, BankExit, Advance
      <3>3. at = "thread"
        BY <3>2 DEF Yield, YieldOn, YieldCaught, Lock, Unlock, Exit
      <3>4. finished' \in {finished, finished \cup {b}}
        BY <3>2, <3>3, MacroLock
      <3> QED
        BY <3>4, Ids
    <2>2. CASE ~\E b \in Banks : BankStep(b)
      <3>1. finished' = finished
        BY <2>2 DEF ProgramNext, ProcessStep, CreateThread, StartProgram, Create, StartThreading,
                    scheduler, Resume, Kernel, SendTSTP, AlarmFires, Returned, ttvars, allvars
      <3> QED
        BY <3>1
    <2> QED
      BY <2>1, <2>2
  <1> QED
    BY <1>1, <1>2 DEF Iterations

LEMMA ComputedStep ==
  ASSUME ProgramInv, [ProgramNext]_allvars
  PROVE  Computed'
  <1>1. Computed /\ FIB # FACT
    BY DEF ProgramInv, FIB, FACT
  <1>2. \A n : Wrap(n)' = Wrap(n)
    BY DEF Wrap
  <1>3. CASE FibonacciStep
    <2>1. PICK i \in Nat \ {0} : i = iter[FIB]
      BY DEF ProgramInv, ProgramTypeOK
    <2>2. /\ Iterations(FIB) = i - 1 /\ Iterations(FIB)' = i
          /\ Iterations(FACT)' = Iterations(FACT)
      BY <1>1, <1>3, <2>1, OneIteration DEF FibonacciStep
    <2>3. /\ x' = IF i <= 2 THEN 1 ELSE y
          /\ y' = IF i <= 2 THEN 1 ELSE Wrap(x + y)
          /\ z' = z
      BY <1>3, <2>1 DEF FibonacciStep
    <2>4. Wrap(1) = 1
      <3>1. 1 \in Ints
        BY ProgramAssumption DEF Ints, IntMin
      <3> QED
        BY <3>1, WrapInt
    <2>5. y' = Wrap(Fib[i]) /\ x' = Wrap(Fib[i - 1])
      <3>1. CASE i <= 2
        <4>1. i - 1 \in Nat /\ i - 1 <= 2 /\ i \in Nat
          BY <3>1
        <4>2. Fib[i] = 1 /\ Fib[i - 1] = 1
          BY <3>1, <4>1, FibIs
        <4> QED
          BY <2>3, <2>4, <3>1, <4>2
      <3>2. CASE i > 2
        <4>1. /\ i \in Nat /\ i - 1 \in Nat /\ i - 2 \in Nat /\ ~(i <= 2) /\ i - 1 > 0
              /\ (i - 1) - 1 = i - 2
          BY <3>2
        <4>2. Fib[i] = Fib[i - 1] + Fib[i - 2] /\ Fib[i - 1] \in Int /\ Fib[i - 2] \in Int
          BY <4>1, FibIs
        <4>3. y = Wrap(Fib[i - 1]) /\ x = Wrap(Fib[i - 2])
          BY <1>1, <2>2, <4>1 DEF Computed
        <4>4. Fib[i - 2] + Fib[i - 1] = Fib[i]
          BY <4>2
        <4>5. Wrap(x + y) = Wrap(Fib[i])
          BY <4>2, <4>3, <4>4, WrapSum
        <4> QED
          BY <2>3, <4>1, <4>3, <4>5
      <3> QED
        BY <3>1, <3>2
    <2> QED
      BY <1>1, <1>2, <2>2, <2>3, <2>5 DEF Computed
  <1>4. CASE FactorialStep
    <2>1. PICK i \in Nat \ {0} : i = iter[FACT]
      BY DEF ProgramInv, ProgramTypeOK
    <2>2. /\ Iterations(FACT) = i - 1 /\ Iterations(FACT)' = i
          /\ Iterations(FIB)' = Iterations(FIB)
      BY <1>1, <1>4, <2>1, OneIteration DEF FactorialStep
    <2>3. /\ z' = Wrap((IF i = 1 THEN 1 ELSE z) * i)
          /\ x' = x /\ y' = y
      BY <1>4, <2>1 DEF FactorialStep
    <2>4. /\ i - 1 \in Nat /\ Factorial[i] = i * Factorial[i - 1]
          /\ Factorial[i - 1] \in Int /\ Factorial[0] = 1
      BY FactorialIs
    <2>5. PICK f \in Int : f = Factorial[i - 1]
      BY <2>4
    <2>6. i * f = f * i
      OBVIOUS
    <2>7. z' = Wrap(Factorial[i])
      <3>1. CASE i = 1
        BY <2>3, <2>4, <2>5, <2>6, <3>1
      <3>2. CASE i # 1
        <4>1. z = Wrap(f)
          BY <1>1, <2>2, <2>5 DEF Computed
        <4>2. z' = Wrap(Wrap(f) * i)
          BY <2>3, <3>2, <4>1
        <4>3. z' = Wrap(f * i)
          BY <4>2, WrapProduct
        <4> QED
          BY <2>4, <2>5, <2>6, <4>3
      <3> QED
        BY <3>1, <3>2
    <2> QED
      BY <1>1, <1>2, <2>2, <2>3, <2>7 DEF Computed
  <1>5. CASE ~FibonacciStep /\ ~FactorialStep
    BY <1>1, <1>2, <1>5, IterationsRest DEF Computed
  <1> QED
    BY <1>3, <1>4, <1>5
-----------------------------------------------------------------------------
(* The invariant holds at the start ...                                    *)
LEMMA ProgramInvInit == ProgramInit => ProgramInv
  <1> SUFFICES ASSUME ProgramInit PROVE ProgramInv
    OBVIOUS
  <1>1. ToolsInv /\ TypeOK
    BY ToolsInvInit, ProgramInitIsInit DEF ToolsInv
  <1>2. ProgramTypeOK
    <2>1. 1 \in Ints /\ 500 \in Ints
      BY ProgramAssumption DEF Ints, IntMin
    <2> QED
      BY <1>1, <2>1 DEF ProgramInit, ProgramTypeOK
  <1>3. LockUse
    <2>1. Waiting = {} /\ Callers = {} /\ lock_owner = None /\ finished = {}
      BY <1>1, ElemsThreads DEF ProgramInit, Init, Callers, Waiting, ToolsInv, QueuesSound
    <2>2. CriticalIffOwner
      BY <2>1, Ids, CriticalForm DEF ProgramInit, CriticalIffOwner
    <2> QED
      BY <2>1, <2>2 DEF LockUse
  <1>4. Created
    <2>1. {t \in Threads : t < 0 /\ Wanted(t)} = {}
      BY ProgramAssumption
    <2> QED
      BY <2>1 DEF ProgramInit, Init, Created
  <1>5. BalanceExact
    BY DEF ProgramInit, BalanceExact, Applied, Banks
  <1>6. Computed
    <2>1. Iterations(FIB) = 0 /\ Iterations(FACT) = 0 /\ y = 1 /\ z = 1
      BY DEF ProgramInit, Init, Iterations
    <2>2. Fib[0] = 1 /\ Factorial[0] = 1
      BY FibIs, FactorialIs
    <2>3. Wrap(1) = 1
      <3>1. 1 \in Ints
        BY ProgramAssumption DEF Ints, IntMin
      <3> QED
        BY <3>1, WrapInt
    <2> QED
      BY <2>1, <2>2, <2>3 DEF Computed
  <1> QED
    BY <1>1, <1>2, <1>3, <1>4, <1>5, <1>6 DEF ProgramInit, ProgramInv

(* ... and after every step.                                               *)
LEMMA ProgramInvStep == ProgramInv /\ [ProgramNext]_allvars => ProgramInv'
  BY ToolsInvKept, ProgramTypeStep, LockUseStep, CreatedStep, BalanceStep,
     ComputedStep DEF ProgramInv

(* At no time is there an overdraft, unless the deposits overflow.         *)
LEMMA NeverOverdrawn == ProgramInv /\ Fits => balance >= 0
  <1> SUFFICES ASSUME ProgramInv, Fits PROVE balance >= 0
    OBVIOUS
  <1>1. arg[2] \in BankArgs /\ arg[3] \in BankArgs
    BY DEF ProgramInv, Banks
  <1>2. BalanceExact /\ 500 >= 0
    BY DEF ProgramInv
  <1>3. arg[2] \in Int /\ arg[3] \in Int
    <2>1. Ints \subseteq Int
      BY ProgramAssumption DEF Ints, IntMin
    <2> QED
      BY <1>1, <2>1, ProgramAssumption
  <1>4. 500 + Deposit(arg[3]) + Deposit(arg[2]) <= INT_MAX
    BY <1>3 DEF Fits, Deposit
  <1>5. /\ Updated(500, arg[2]) >= 0 /\ Updated(Updated(500, arg[2]), arg[3]) >= 0
        /\ Updated(500, arg[3]) >= 0 /\ Updated(Updated(500, arg[3]), arg[2]) >= 0
    BY <1>1, <1>4, NoOverdraft DEF Fits
  <1> QED
    BY <1>2, <1>5 DEF BalanceExact

(* When the program ends no thread is left, so both operations are done or *)
(* were never wanted.                                                      *)
LEMMA SerialAtTheEnd == ProgramInv => BankSerial
  <1> SUFFICES ASSUME ProgramInv, at = "returned"
               PROVE  balance \in {Updated(Updated(500, arg[2]), arg[3]), Updated(Updated(500, arg[3]), arg[2])}
    BY NeverOverdrawn DEF BankSerial
  <1>1. tcbs \subseteq finished
    <2>1. Ready = {} /\ Waiting = {}
      BY ElemsThreads DEF ProgramInv, Created, ToolsInv, QueuesSound, Ready, Waiting
    <2> QED
      BY <2>1 DEF ProgramInv, ToolsInv, QueuesSound, Live
  <1>2. \A b \in Banks : Applied(b) \/ arg[b] = 0
    <2> SUFFICES ASSUME NEW b \in Banks, arg[b] # 0 PROVE Applied(b)
      OBVIOUS
    <2>1. b \in Threads /\ b < 4 /\ id = 4 /\ Wanted(b)
      BY Ids DEF ProgramInv, Created, Wanted, Banks
    <2>2. b \in finished
      BY <1>1, <2>1 DEF ProgramInv, Created
    <2> QED
      BY <2>2 DEF ProgramInv, LockUse, Applied
  <1>3. arg[2] \in BankArgs /\ arg[3] \in BankArgs /\ 2 \in Banks /\ 3 \in Banks
    BY DEF ProgramInv, Banks
  <1> QED
    BY <1>2, <1>3, UpdatedTwice DEF ProgramInv, BalanceExact
-----------------------------------------------------------------------------
(* The program does what the library lets any program do ...               *)
THEOREM UsesTheLibrary == ProgramSpec => Spec
  <1>1. ProgramInv /\ [ProgramNext]_allvars => [Next]_ttvars
    BY ToolsInvKept
  <1> QED
    BY <1>1, ProgramInitIsInit, ProgramInvInit, ProgramInvStep, PTL DEF ProgramSpec, Spec

(* ... and so has all that the library promises: no thread is lost, no     *)
(* NULL thread is run, the lock is served in the order of the calls.       *)
THEOREM LibraryKeepsItsPromises ==
  ProgramSpec => []QueuesSound /\ []RunningValid /\ LineMoves /\ ImplementsFifoLock
  BY UsesTheLibrary, QueuesAreSound, RunningIsValid, LineAlwaysMoves, LockIsFifo, PTL

(* The invariant holds in every state of every behaviour of the program.   *)
THEOREM ProgramInvariance == ProgramSpec => []ProgramInv
  BY ProgramInvInit, ProgramInvStep, PTL DEF ProgramSpec

(* Every variable of the program keeps its type, whatever the arguments:   *)
(* the balance and what the threads compute are ints.                      *)
THEOREM ProgramTypeCorrect == ProgramSpec => []ProgramTypeOK
  <1>1. ProgramInv => ProgramTypeOK
    BY DEF ProgramInv
  <1> QED
    BY <1>1, ProgramInvariance, PTL

(* A bank operation is between lock() and unlock() exactly when the        *)
(* scheduler holds it to be the owner: at most one is, at any time.        *)
THEOREM LockIsRight == ProgramSpec => []CriticalIffOwner
  <1>1. ProgramInv => CriticalIffOwner
    BY DEF ProgramInv, LockUse
  <1> QED
    BY <1>1, ProgramInvariance, PTL

(* When the program ends the balance is that of the two operations, one    *)
(* after the other, and there is no overdraft unless the deposits overflow *)
(* or the amount is INT_MIN.                                               *)
THEOREM BanksAreSerial == ProgramSpec => []BankSerial
  BY SerialAtTheEnd, ProgramInvariance, PTL

(* What a thread prints is right, however often others ran in between, and *)
(* modulo the range of an int when it overflows.                           *)
THEOREM ResultsAreRight == ProgramSpec => []ResultsRight
  <1>1. ProgramInv => ResultsRight
    BY DEF ProgramInv, Computed, ResultsRight
  <1> QED
    BY <1>1, ProgramInvariance, PTL
=============================================================================
