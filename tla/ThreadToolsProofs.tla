------------------------- MODULE ThreadToolsProofs --------------------------
(***************************************************************************)
(* For any number of threads up to THREAD_MAX, any program that keeps to   *)
(* the life cycle and any signals: the scheduler loses and duplicates no   *)
(* thread, never jumps through NULL nor indexes past the arrays, keeps     *)
(* time slicing alive and serves the lock first come, first served.        *)
(***************************************************************************)
EXTENDS ThreadTools, FiniteSetTheorems, SequenceTheorems, TLAPS

USE ThreadsAssumption, TimesliceAssumption
-----------------------------------------------------------------------------
(* The array operations of scheduler().                                    *)

LEMMA ElemsThreads ==
  ASSUME NEW q, NEW n, IsQueue(q, n)
  PROVE  /\ Elems(q, n) \subseteq Threads
         /\ \A i \in 0..(n - 1) : i \in Slots /\ q[i] \in Threads /\ q[i] \in Elems(q, n)
         /\ Elems(q, n) = {} <=> n = 0
  <1>1. \A i \in 0..(n - 1) : i \in Slots /\ q[i] \in Threads /\ q[i] \in Elems(q, n)
    BY DEF IsQueue, Elems, Slots
  <1>2. Elems(q, n) = {} <=> n = 0
    <2>1. n > 0 => q[0] \in Elems(q, n)
      BY <1>1 DEF IsQueue
    <2>2. n = 0 => 0..(n - 1) = {}
      BY DEF IsQueue
    <2> QED
      BY <2>1, <2>2 DEF IsQueue, Elems
  <1> QED
    BY <1>1, <1>2 DEF Elems

LEMMA AppendToQueue ==
  ASSUME NEW q, NEW n, NEW t \in Threads, IsQueue(q, n), n < THREAD_MAX, t \notin Elems(q, n)
  PROVE  /\ IsQueue(AppendTo(q, n, t), n + 1)
         /\ Elems(AppendTo(q, n, t), n + 1) = Elems(q, n) \cup {t}
         /\ AppendTo(q, n, t)[n] = t
         /\ \A i \in 0..(n - 1) : AppendTo(q, n, t)[i] = q[i]
  <1> DEFINE r == AppendTo(q, n, t)
  <1>1. /\ r \in [Slots -> Threads \cup {None}] /\ r[n] = t
        /\ \A i \in Slots : i # n => r[i] = q[i]
    BY DEF IsQueue, AppendTo, Slots
  <1>2. \A i \in 0..(n - 1) : r[i] = q[i] /\ q[i] # t /\ i \in Slots
    BY <1>1 DEF IsQueue, Elems, Slots
  <1>3. IsQueue(r, n + 1)
    <2>1. n + 1 \in 0..THREAD_MAX
      BY DEF IsQueue
    <2>2. \A i \in Slots : r[i] # None <=> i < n + 1
      BY <1>1 DEF IsQueue, Slots
    <2>3. \A i, j \in 0..n : r[i] = r[j] => i = j
      BY <1>1, <1>2 DEF IsQueue
    <2> QED
      BY <1>1, <2>1, <2>2, <2>3 DEF IsQueue
  <1>4. Elems(r, n + 1) = Elems(q, n) \cup {t}
    <2>1. 0..n = 0..(n - 1) \cup {n} /\ (n + 1) - 1 = n
      BY DEF IsQueue
    <2> QED
      BY <1>1, <1>2, <2>1 DEF Elems
  <1> QED
    BY <1>1, <1>2, <1>3, <1>4

LEMMA FillHoleQueue ==
  ASSUME NEW q, NEW n, NEW h \in 0..(n - 1), IsQueue(q, n)
  PROVE  /\ IsQueue(FillHole(q, n, h), n - 1)
         /\ Elems(FillHole(q, n, h), n - 1) = Elems(q, n) \ {q[h]}
  <1> DEFINE r == FillHole(q, n, h)
  <1>1. n \in Nat /\ n > 0 /\ h \in Slots /\ n - 1 \in Slots
    BY DEF IsQueue, Slots
  <1>2. /\ r \in [Slots -> Threads \cup {None}]
        /\ r[n - 1] = None
        /\ h # n - 1 => r[h] = q[n - 1]
        /\ \A i \in Slots : i # h /\ i # n - 1 => r[i] = q[i]
    BY <1>1 DEF IsQueue, FillHole
  <1>3. IsQueue(r, n - 1)
    <2>1. \A i \in Slots : r[i] # None <=> i < n - 1
      BY <1>1, <1>2 DEF IsQueue, Slots
    <2>2. \A i, j \in 0..((n - 1) - 1) : r[i] = r[j] => i = j
      BY <1>1, <1>2 DEF IsQueue, Slots
    <2> QED
      BY <1>1, <1>2, <2>1, <2>2 DEF IsQueue
  <1>4. ASSUME NEW e \in Elems(r, n - 1) PROVE e \in Elems(q, n) /\ e # q[h]
    <2>1. PICK i \in 0..((n - 1) - 1) : e = r[i]
      BY <1>4 DEF Elems
    <2> QED
      BY <2>1, <1>1, <1>2 DEF IsQueue, Elems, Slots
  <1>5. ASSUME NEW e \in Elems(q, n), e # q[h] PROVE e \in Elems(r, n - 1)
    <2>1. PICK i \in 0..(n - 1) : e = q[i]
      BY <1>5 DEF Elems
    <2>2. CASE i = n - 1
      <3>1. h # n - 1 /\ e = r[h] /\ h \in 0..((n - 1) - 1)
        BY <2>1, <2>2, <1>1, <1>2, <1>5
      <3> QED
        BY <3>1 DEF Elems
    <2>3. CASE i # n - 1
      <3>1. e = r[i] /\ i \in 0..((n - 1) - 1)
        BY <2>1, <2>3, <1>1, <1>2, <1>5 DEF Slots
      <3> QED
        BY <3>1 DEF Elems
    <2> QED
      BY <2>2, <2>3
  <1> QED
    BY <1>3, <1>4, <1>5

LEMMA ShiftQueue ==
  ASSUME NEW q, NEW n, IsQueue(q, n), 0 < n, n < THREAD_MAX
  PROVE  /\ IsQueue(Shift(q, n), n - 1)
         /\ Elems(Shift(q, n), n - 1) = Elems(q, n) \ {q[0]}
         /\ \A i \in 0..(n - 2) : Shift(q, n)[i] = q[i + 1]
  <1> DEFINE r == Shift(q, n)
  <1>1. n \in Nat
    BY DEF IsQueue
  <1>2. \A i \in Slots : /\ i < n => r[i] = q[i + 1]
                         /\ i = n => r[i] = None
                         /\ i > n => r[i] = q[i]
    BY <1>1 DEF Shift, Slots
  <1>3. r \in [Slots -> Threads \cup {None}]
    <2>1. \A i \in Slots : r[i] \in Threads \cup {None}
      BY <1>1, <1>2 DEF IsQueue, Slots
    <2> QED
      BY <2>1 DEF Shift
  <1>4. \A i \in 0..(n - 2) : i \in Slots /\ r[i] = q[i + 1] /\ i + 1 \in 0..(n - 1) /\ i + 1 # 0
    BY <1>1, <1>2 DEF Slots
  <1>5. IsQueue(r, n - 1)
    <2>1. \A i \in Slots : r[i] # None <=> i < n - 1
      BY <1>1, <1>2 DEF IsQueue, Slots
    <2>2. \A i, j \in 0..((n - 1) - 1) : r[i] = r[j] => i = j
      BY <1>1, <1>4 DEF IsQueue
    <2> QED
      BY <1>1, <1>3, <2>1, <2>2 DEF IsQueue
  <1>6. ASSUME NEW e \in Elems(r, n - 1) PROVE e \in Elems(q, n) /\ e # q[0]
    <2>1. PICK i \in 0..((n - 1) - 1) : e = r[i]
      BY <1>6 DEF Elems
    <2>2. e = q[i + 1] /\ i + 1 \in 0..(n - 1) /\ i + 1 # 0
      BY <2>1, <1>1, <1>4
    <2> QED
      BY <2>2, <1>1 DEF IsQueue, Elems
  <1>7. ASSUME NEW e \in Elems(q, n), e # q[0] PROVE e \in Elems(r, n - 1)
    <2>1. PICK i \in 0..(n - 1) : e = q[i]
      BY <1>7 DEF Elems
    <2>2. i # 0 /\ i - 1 \in 0..((n - 1) - 1) /\ i - 1 \in 0..(n - 2) /\ (i - 1) + 1 = i
      BY <2>1, <1>1, <1>7
    <2>3. r[i - 1] = e
      BY <2>1, <2>2, <1>4
    <2> QED
      BY <2>2, <2>3 DEF Elems
  <1> QED
    BY <1>4, <1>5, <1>6, <1>7
-----------------------------------------------------------------------------
LEMMA FiniteThreads ==
  ASSUME NEW S \in SUBSET Threads
  PROVE  IsFiniteSet(S) /\ Cardinality(S) \in Nat /\ Cardinality(S) <= THREAD_MAX
  <1>1. IsFiniteSet(S) /\ Cardinality(S) <= Cardinality(Threads)
    BY FS_Subset
  <1>2. Cardinality(S) \in Nat /\ Cardinality(Threads) \in Nat
    BY <1>1, FS_CardinalityType
  <1> QED
    BY <1>1, <1>2

(* The sizes of the queues never exceed the number of threads.             *)
LEMMA SizesBounded ==
  ASSUME TypeOK, QueuesSound, SizesSound
  PROVE  /\ IsFiniteSet(Live) /\ Cardinality(Live) \in Nat
         /\ rq_size + wq_size <= THREAD_MAX
  <1>1. Live \subseteq Threads
    BY ElemsThreads DEF QueuesSound, Ready, Waiting
  <1> QED
    BY <1>1, FiniteThreads DEF SizesSound, TypeOK

(* What is known of the thread that runs or has called the scheduler.      *)
LEMMA RunningFacts ==
  ASSUME ToolsInv, at = "thread" \/ (at = "scheduler" /\ see # 0)
  PROVE  /\ rq_current \in 0..(rq_size - 1) /\ rq_current \in Slots
         /\ RUNNING \in Ready /\ RUNNING \in Threads /\ RUNNING # None
         /\ RUNNING \notin Waiting
         /\ wq_size < THREAD_MAX
  <1>1. rq_current \in 0..(rq_size - 1) /\ wq_size < THREAD_MAX
    BY DEF ToolsInv, RunningValid, TypeOK
  <1>2. RUNNING \in Ready /\ RUNNING \in Threads /\ rq_current \in Slots
    BY <1>1, ElemsThreads DEF ToolsInv, QueuesSound, Ready, RUNNING
  <1> QED
    BY <1>1, <1>2 DEF ToolsInv, QueuesSound
-----------------------------------------------------------------------------
LEMMA ToolsInvInit == Init => ToolsInv
  <1> SUFFICES ASSUME Init PROVE ToolsInv
    OBVIOUS
  <1>1. Cardinality(Threads) \in Nat
    BY FS_CardinalityType
  <1>2. TypeOK
    <2>1. [i \in Slots |-> None] \in [Slots -> Threads \cup {None}]
      OBVIOUS
    <2>2. 0 \in 0..THREAD_MAX /\ 0 \in 0..3 /\ 0 \in Nat
      OBVIOUS
    <2> QED
      BY <2>1, <2>2 DEF Init, TypeOK
  <1>3. \A q : q = [i \in Slots |-> None] => IsQueue(q, 0) /\ Elems(q, 0) = {}
    BY DEF IsQueue, Elems, Slots
  <1>4. Live = {}
    BY DEF Init, Live
  <1>5. QueuesSound
    BY <1>3, <1>4 DEF Init, QueuesSound, Ready, Waiting
  <1>6. SizesSound
    BY <1>4, FS_EmptySet DEF Init, SizesSound
  <1> QED
    BY <1>2, <1>5, <1>6 DEF Init, ToolsInv, RunningValid, AlarmAlive, CallerSound, HolderReady

LEMMA CreateStep ==
  ASSUME ToolsInv, NEW t \in Threads, Create(t)
  PROVE  ToolsInv'
  <1>1. Live = tcbs /\ Live' = tcbs \cup {t} /\ finished = {} /\ wq_size = 0 /\ t \notin tcbs
    BY DEF Create, ToolsInv, CallerSound, Live
  <1>2. IsFiniteSet(Live) /\ Cardinality(Live) = rq_size
    BY <1>1, SizesBounded DEF ToolsInv, SizesSound, TypeOK
  <1>3. Cardinality(Live') = rq_size + 1
    BY <1>1, <1>2, FS_AddElement
  <1>4. rq_size + 1 <= THREAD_MAX
    <2>1. Live' \subseteq Threads
      BY <1>1 DEF ToolsInv, TypeOK
    <2>2. Cardinality(Live') <= Cardinality(Threads) /\ Cardinality(Threads) \in Nat
      BY <2>1, FS_Subset, FS_CardinalityType
    <2> QED
      BY <2>2, <1>3 DEF ToolsInv, TypeOK
  <1>5. Waiting = {} /\ Ready = Live
    BY <1>1, ElemsThreads DEF ToolsInv, QueuesSound, Waiting
  <1>6. /\ IsQueue(ready_queue', rq_size')
        /\ Elems(ready_queue', rq_size') = Ready \cup {t}
    <2>1. IsQueue(ready_queue, rq_size) /\ rq_size < THREAD_MAX /\ t \notin Elems(ready_queue, rq_size)
      BY <1>1, <1>4, <1>5 DEF ToolsInv, QueuesSound, TypeOK, Ready
    <2>2. ready_queue' = AppendTo(ready_queue, rq_size, t) /\ rq_size' = rq_size + 1
      BY DEF Create, AppendTo
    <2> QED
      BY <2>1, <2>2, AppendToQueue DEF Ready
  <1>7. QueuesSound'
    BY <1>1, <1>5, <1>6 DEF Create, ToolsInv, QueuesSound, Ready, Waiting
  <1>8. TypeOK'
    BY <1>4, <1>6 DEF Create, ToolsInv, TypeOK, IsQueue
  <1>9. SizesSound'
    BY <1>1, <1>3 DEF Create, SizesSound
  <1> QED
    BY <1>1, <1>7, <1>8, <1>9 DEF Create, ToolsInv, RunningValid, AlarmAlive, CallerSound, HolderReady

(* A step that leaves the queues alone and makes no thread leave.          *)
LEMMA SameQueues ==
  ASSUME QueuesSound, SizesSound, UNCHANGED queues, Live' = Live, finished' \subseteq tcbs'
  PROVE  QueuesSound' /\ SizesSound' /\ Ready' = Ready /\ RUNNING' = RUNNING
  BY DEF QueuesSound, SizesSound, queues, Ready, Waiting, IsQueue, Elems, RUNNING

LEMMA TimedBoolean == Timed \in BOOLEAN
  BY DEF Timed

LEMMA ThreadSteps ==
  ASSUME ToolsInv, StartThreading \/ ThreadStep
  PROVE  ToolsInv'
  <1> USE DEF JumpToScheduler
  <1>1. CASE StartThreading
    <2>1. Live' = Live
      BY <1>1 DEF StartThreading, Live
    <2>2. QueuesSound' /\ SizesSound' /\ Ready' = Ready
      BY <1>1, <2>1, SameQueues DEF StartThreading, ToolsInv, SizesSound
    <2>3. TypeOK' /\ AlarmAlive'
      BY <1>1, TimedBoolean DEF StartThreading, ToolsInv, TypeOK, AlarmAlive, queues
    <2> QED
      BY <1>1, <2>2, <2>3 DEF StartThreading, ToolsInv, RunningValid, CallerSound,
                              HolderReady, queues
  <1>2. CASE ThreadStep /\ YieldOn
    <2>1. UNCHANGED ttvars /\ Live' = Live
      BY <1>2 DEF YieldOn, ttvars, queues, Live, RUNNING
    <2>2. QueuesSound' /\ SizesSound' /\ Ready' = Ready /\ RUNNING' = RUNNING
      BY <2>1, SameQueues DEF ToolsInv, SizesSound, ttvars
    <2> QED
      BY <2>1, <2>2 DEF ToolsInv, TypeOK, RunningValid, AlarmAlive, CallerSound,
                        HolderReady, ttvars, queues
  <1>3. CASE ThreadStep /\ YieldCaught
    <2>1. Live' = Live
      BY <1>3 DEF YieldCaught, sighandler, Live
    <2>2. QueuesSound' /\ SizesSound' /\ Ready' = Ready /\ RUNNING' = RUNNING
      BY <1>3, <2>1, SameQueues DEF YieldCaught, ToolsInv, SizesSound
    <2>3. TypeOK' /\ AlarmAlive'
      <3>1. CASE "TSTP" \in pending
        <4>1. pending' = pending \ {"TSTP"} /\ alarmSet' = alarmSet
          BY <1>3, <3>1 DEF YieldCaught, sighandler
        <4> QED
          BY <1>3, <4>1 DEF YieldCaught, sighandler, ToolsInv, TypeOK, AlarmAlive, queues
      <3>2. CASE "TSTP" \notin pending
        <4>1. pending' = pending \ {"ALRM"} /\ alarmSet' = Timed
          BY <1>3, <3>2 DEF YieldCaught, sighandler
        <4> QED
          BY <1>3, <4>1, TimedBoolean DEF YieldCaught, sighandler, ToolsInv, TypeOK, AlarmAlive, queues
      <3> QED
        BY <3>1, <3>2
    <2> QED
      BY <1>3, <2>2, <2>3 DEF YieldCaught, sighandler, ToolsInv, RunningValid,
                              CallerSound, HolderReady, queues
  <1>4. CASE ThreadStep /\ Lock
    <2>1. Live' = Live
      BY <1>4 DEF Lock, Live
    <2>2. QueuesSound' /\ SizesSound' /\ Ready' = Ready /\ RUNNING' = RUNNING
      BY <1>4, <2>1, SameQueues DEF Lock, ToolsInv, SizesSound
    <2> QED
      BY <1>4, <2>2 DEF Lock, ToolsInv, TypeOK, RunningValid, AlarmAlive, CallerSound,
                        HolderReady, queues
  <1>5. CASE ThreadStep /\ Unlock
    <2>1. Live' = Live
      BY <1>5 DEF Unlock, Live, RUNNING, queues
    <2>2. QueuesSound' /\ SizesSound' /\ Ready' = Ready /\ RUNNING' = RUNNING
      BY <1>5, <2>1, SameQueues DEF Unlock, ToolsInv, SizesSound
    <2> QED
      BY <1>5, <2>2 DEF Unlock, ToolsInv, TypeOK, RunningValid, AlarmAlive, CallerSound,
                        HolderReady, queues
  <1>6. CASE ThreadStep /\ Exit
    <2>1. RUNNING \in tcbs \ finished
      BY <1>6, RunningFacts DEF Exit, ToolsInv, QueuesSound, Live
    <2>2. RUNNING' = RUNNING
      BY <1>6 DEF Exit, RUNNING, queues
    <2>3. Live' = Live
      BY <1>6, <2>1, <2>2 DEF Exit, Live
    <2>4. finished' \subseteq tcbs'
      BY <1>6, <2>1 DEF Exit, ToolsInv, SizesSound
    <2>5. QueuesSound' /\ SizesSound' /\ Ready' = Ready
      BY <1>6, <2>3, <2>4, SameQueues DEF Exit, ToolsInv
    <2> QED
      BY <1>6, <2>1, <2>2, <2>5 DEF Exit, ToolsInv, TypeOK, RunningValid, AlarmAlive,
                                    CallerSound, HolderReady, queues
  <1> QED
    BY <1>1, <1>2, <1>3, <1>4, <1>5, <1>6 DEF ThreadStep, Yield

LEMMA KernelStep ==
  ASSUME ToolsInv, Kernel \/ UNCHANGED ttvars
  PROVE  ToolsInv'
  <1>1. /\ UNCHANGED <<queues, lock_owner, tcbs, at, see, finished>>
        /\ pending \subseteq pending' /\ pending' \in SUBSET {"TSTP", "ALRM"} /\ alarmSet' \in BOOLEAN
        /\ alarmSet => alarmSet' \/ "ALRM" \in pending'
    BY DEF Kernel, SendTSTP, AlarmFires, ttvars, ToolsInv, TypeOK
  <1>2. Live' = Live
    BY <1>1 DEF Live, RUNNING, queues
  <1>3. QueuesSound' /\ SizesSound' /\ Ready' = Ready /\ RUNNING' = RUNNING
    BY <1>1, <1>2, SameQueues DEF ToolsInv, SizesSound
  <1> QED
    BY <1>1, <1>3 DEF ToolsInv, TypeOK, RunningValid, AlarmAlive, CallerSound, HolderReady, queues
-----------------------------------------------------------------------------
(* What every branch of scheduler() makes of the queues and of the lock.   *)
Rearranged ==
  /\ IsQueue(ready_queue', rq_size')
  /\ IsQueue(waiting_queue', wq_size')
  /\ Ready' \cap Waiting' = {}
  /\ Ready' \cup Waiting' = IF see = 3 THEN Live \ {RUNNING} ELSE Live
  /\ rq_size' + wq_size' = rq_size + wq_size - (IF see = 3 THEN 1 ELSE 0)
  /\ lock_owner' \in Threads \cup {None}
  /\ lock_owner' # None => lock_owner' \in Ready'
  /\ wq_size' > 0 => lock_owner' # None
  /\ rq_current' \in Nat /\ (rq_size' > 0 => rq_current' < rq_size')

LEMMA NextIndex ==
  ASSUME NEW n \in Nat, NEW c \in 0..(n - 1)
  PROVE  (c + 1) % n = (IF c = n - 1 THEN 0 ELSE c + 1)
  OBVIOUS

LEMMA NextDiffers ==
  ASSUME NEW n \in Nat, n > 1, NEW c \in 0..(n - 1)
  PROVE  (c + 1) % n # c /\ (c + 1) % n \in 0..(n - 1)
  BY NextIndex

LEMMA RoomLeft ==
  ASSUME NEW m \in Nat, NEW n \in Nat, m + n <= THREAD_MAX
  PROVE  m > 0 => n < THREAD_MAX
  OBVIOUS

LEMMA StartBranch ==
  ASSUME ToolsInv, at = "scheduler", Start
  PROVE  Rearranged
  BY DEF Start, ToolsInv, QueuesSound, CallerSound, TypeOK, Rearranged, Ready, Waiting

(* The queues once the first waiting thread has been made ready.           *)
LEMMA HandOverQueues ==
  ASSUME ToolsInv, at = "scheduler", see # 0, MustHandOver,
         NEW t, t = waiting_queue[0],
         NEW ready, ready = AppendTo(ready_queue, rq_size, t),
         NEW waiting, waiting = Shift(waiting_queue, wq_size)
  PROVE  /\ t \in Threads /\ t \in Waiting /\ t # RUNNING
         /\ IsQueue(ready, rq_size + 1) /\ Elems(ready, rq_size + 1) = Ready \cup {t}
         /\ IsQueue(waiting, wq_size - 1) /\ Elems(waiting, wq_size - 1) = Waiting \ {t}
         /\ ready[rq_current] = RUNNING
         /\ rq_current \in 0..(rq_size - 1)
  <1>1. wq_size > 0 /\ wq_size \in Nat /\ rq_size \in Nat
    BY DEF MustHandOver, ToolsInv, TypeOK
  <1>2. t \in Threads /\ t \in Waiting
    BY <1>1, ElemsThreads DEF ToolsInv, QueuesSound, Waiting
  <1>3. /\ rq_current \in 0..(rq_size - 1) /\ RUNNING \notin Waiting /\ wq_size < THREAD_MAX
    BY RunningFacts
  <1>4. t \notin Ready
    BY <1>2 DEF ToolsInv, QueuesSound
  <1>5. rq_size < THREAD_MAX
    BY <1>1, SizesBounded DEF ToolsInv
  <1>6. /\ IsQueue(ready, rq_size + 1) /\ Elems(ready, rq_size + 1) = Ready \cup {t}
        /\ ready[rq_current] = RUNNING
    BY <1>2, <1>3, <1>4, <1>5, AppendToQueue DEF ToolsInv, QueuesSound, Ready, RUNNING
  <1>7. IsQueue(waiting, wq_size - 1) /\ Elems(waiting, wq_size - 1) = Waiting \ {t}
    BY <1>1, <1>3, ShiftQueue DEF ToolsInv, QueuesSound, Waiting
  <1> QED
    BY <1>2, <1>3, <1>6, <1>7

LEMMA HandOverBranch ==
  ASSUME ToolsInv, at = "scheduler", HandOver
  PROVE  Rearranged
  <1> DEFINE t == waiting_queue[0]
             ready == AppendTo(ready_queue, rq_size, t)
             size == rq_size + 1
             waiting == Shift(waiting_queue, wq_size)
  <1>1. see # 0 /\ MustHandOver /\ lock_owner' = t
    BY DEF HandOver
  <1>2. /\ t \in Threads /\ t \in Waiting /\ t # RUNNING
        /\ IsQueue(ready, size) /\ Elems(ready, size) = Ready \cup {t}
        /\ IsQueue(waiting, wq_size - 1) /\ Elems(waiting, wq_size - 1) = Waiting \ {t}
        /\ ready[rq_current] = RUNNING
        /\ rq_current \in 0..(rq_size - 1)
    BY <1>1, HandOverQueues
  <1>3. /\ rq_size \in Nat /\ wq_size \in Nat /\ wq_size > 0 /\ rq_current \in Nat
        /\ Ready \cup Waiting = Live /\ Ready \cap Waiting = {}
        /\ RUNNING \in Ready /\ RUNNING \in Threads /\ wq_size < THREAD_MAX
        /\ None \notin Threads
    BY <1>1, RunningFacts DEF MustHandOver, ToolsInv, TypeOK, QueuesSound
  <1>4. lock_owner' \in Threads /\ lock_owner' # None
    BY <1>1, <1>2, <1>3
  <1> HIDE DEF t, ready, size, waiting
  <1>5. CASE see = 1
    <2>1. /\ rq_current' = (rq_current + 1) % size
          /\ ready_queue' = ready /\ rq_size' = size
          /\ waiting_queue' = waiting /\ wq_size' = wq_size - 1
      BY <1>5 DEF HandOver, t, ready, size, waiting
    <2>2. Ready' = Ready \cup {t} /\ Waiting' = Waiting \ {t}
      BY <2>1, <1>2 DEF Ready, Waiting
    <2>3. rq_current' \in Nat /\ rq_current' < rq_size'
      <3>1. size \in Nat /\ rq_current \in 0..(size - 1)
        BY <1>2, <1>3 DEF size
      <3> QED
        BY <2>1, <3>1, NextIndex
    <2>4. rq_size' + wq_size' = rq_size + wq_size
      BY <2>1, <1>3 DEF size
    <2> QED
      BY <1>1, <1>2, <1>3, <1>4, <1>5, <2>1, <2>2, <2>3, <2>4 DEF Rearranged
  <1>6. /\ IsQueue(FillHole(ready, size, rq_current), size - 1)
        /\ Elems(FillHole(ready, size, rq_current), size - 1) = (Ready \cup {t}) \ {RUNNING}
        /\ rq_current < size - 1 /\ size \in Nat
    <2>1. rq_current \in 0..(size - 1) /\ rq_current < size - 1 /\ size \in Nat
      BY <1>2, <1>3 DEF size
    <2> QED
      BY <2>1, <1>2, FillHoleQueue
  <1>7. CASE see = 2
    <2>1. /\ waiting_queue' = AppendTo(waiting, wq_size - 1, RUNNING)
          /\ ready_queue' = FillHole(ready, size, rq_current) /\ rq_size' = size - 1
          /\ wq_size' = wq_size /\ rq_current' = rq_current
      BY <1>7 DEF HandOver, t, ready, size, waiting
    <2>2. Ready' = (Ready \cup {t}) \ {RUNNING}
      BY <2>1, <1>6 DEF Ready
    <2>3. /\ IsQueue(AppendTo(waiting, wq_size - 1, RUNNING), (wq_size - 1) + 1)
          /\ Elems(AppendTo(waiting, wq_size - 1, RUNNING), (wq_size - 1) + 1) = (Waiting \ {t}) \cup {RUNNING}
      <3>1. RUNNING \notin Waiting \ {t} /\ wq_size - 1 < THREAD_MAX
        BY <1>3
      <3> QED
        BY <1>2, <1>3, <3>1, AppendToQueue
    <2>4. IsQueue(waiting_queue', wq_size') /\ Waiting' = (Waiting \ {t}) \cup {RUNNING}
      <3>1. (wq_size - 1) + 1 = wq_size
        BY <1>3
      <3> QED
        BY <2>1, <2>3, <3>1 DEF Waiting
    <2>5. rq_size' + wq_size' = rq_size + wq_size /\ rq_size' = rq_size
      BY <2>1, <1>3 DEF size
    <2> QED
      BY <1>1, <1>2, <1>3, <1>4, <1>6, <1>7, <2>1, <2>2, <2>4, <2>5 DEF Rearranged
  <1>8. CASE see = 3
    <2>1. /\ waiting_queue' = waiting /\ wq_size' = wq_size - 1
          /\ ready_queue' = FillHole(ready, size, rq_current) /\ rq_size' = size - 1
          /\ rq_current' = rq_current
      BY <1>8 DEF HandOver, t, ready, size, waiting
    <2>2. Ready' = (Ready \cup {t}) \ {RUNNING} /\ Waiting' = Waiting \ {t}
      BY <2>1, <1>2, <1>6 DEF Ready, Waiting
    <2>3. rq_size' + wq_size' = rq_size + wq_size - 1
      BY <2>1, <1>3 DEF size
    <2> QED
      BY <1>1, <1>2, <1>3, <1>4, <1>6, <1>8, <2>1, <2>2, <2>3 DEF Rearranged
  <1> QED
    BY <1>5, <1>7, <1>8 DEF HandOver

LEMMA RunNextBranch ==
  ASSUME ToolsInv, at = "scheduler", RunNext
  PROVE  Rearranged
  <1>1. rq_current \in 0..(rq_size - 1) /\ rq_size \in Nat
    BY RunningFacts DEF RunNext, ToolsInv, TypeOK
  <1>2. rq_current' \in Nat /\ rq_current' < rq_size
    BY <1>1, NextIndex DEF RunNext
  <1>3. wq_size > 0 => lock_owner # None
    BY DEF RunNext, MustHandOver
  <1>4. /\ Ready' = Ready /\ Waiting' = Waiting
        /\ UNCHANGED <<ready_queue, rq_size, waiting_queue, wq_size, lock_owner>>
    BY DEF RunNext, Ready, Waiting
  <1> QED
    BY <1>1, <1>2, <1>3, <1>4 DEF RunNext, ToolsInv, QueuesSound, HolderReady, TypeOK, Rearranged

LEMMA GrantLockBranch ==
  ASSUME ToolsInv, at = "scheduler", GrantLock
  PROVE  Rearranged
  <1>1. /\ rq_current \in 0..(rq_size - 1)
        /\ RUNNING \in Ready /\ RUNNING \in Threads /\ RUNNING # None
    BY RunningFacts DEF GrantLock
  <1>2. Ready' = Ready /\ Waiting' = Waiting /\ UNCHANGED queues
    BY DEF GrantLock, queues, Ready, Waiting
  <1> QED
    BY <1>1, <1>2 DEF GrantLock, ToolsInv, QueuesSound, TypeOK, Rearranged, queues

(* A thread that leaves the ready queue leaves the holder in it.           *)
LEMMA RemovalQueues ==
  ASSUME ToolsInv, at = "scheduler", see \in {2, 3},
         ready_queue' = FillHole(ready_queue, rq_size, rq_current),
         rq_size' = rq_size - 1, rq_current' = AfterRemoval(rq_size),
         lock_owner' = lock_owner
  PROVE  /\ IsQueue(ready_queue', rq_size') /\ Ready' = Ready \ {RUNNING}
         /\ lock_owner' # None => lock_owner' \in Ready'
         /\ rq_current' \in Nat /\ (rq_size' > 0 => rq_current' < rq_size')
  <1>1. rq_current \in 0..(rq_size - 1) /\ rq_size \in Nat
    BY RunningFacts DEF ToolsInv, TypeOK
  <1>2. IsQueue(ready_queue', rq_size') /\ Ready' = Ready \ {RUNNING}
    BY <1>1, FillHoleQueue DEF ToolsInv, QueuesSound, Ready, RUNNING
  <1>3. lock_owner' # None => lock_owner' \in Ready'
    BY <1>2 DEF ToolsInv, HolderReady, CallerSound
  <1>4. rq_current' \in Nat /\ (rq_size' > 0 => rq_current' < rq_size')
    BY <1>1 DEF AfterRemoval
  <1> QED
    BY <1>2, <1>3, <1>4

LEMMA MakeWaitBranch ==
  ASSUME ToolsInv, at = "scheduler", MakeWait
  PROVE  Rearranged
  <1>1. /\ IsQueue(ready_queue', rq_size') /\ Ready' = Ready \ {RUNNING}
        /\ lock_owner' # None => lock_owner' \in Ready'
        /\ rq_current' \in Nat /\ (rq_size' > 0 => rq_current' < rq_size')
    BY RemovalQueues DEF MakeWait
  <1>2. /\ RUNNING \in Ready /\ RUNNING \in Threads /\ RUNNING \notin Waiting /\ wq_size < THREAD_MAX
    BY RunningFacts DEF MakeWait
  <1>3. IsQueue(waiting_queue', wq_size') /\ Waiting' = Waiting \cup {RUNNING}
    BY <1>2, AppendToQueue DEF MakeWait, ToolsInv, QueuesSound, Waiting
  <1>4. rq_size' + wq_size' = rq_size + wq_size
    BY DEF MakeWait, ToolsInv, TypeOK
  <1> QED
    BY <1>1, <1>2, <1>3, <1>4 DEF MakeWait, ToolsInv, QueuesSound, TypeOK, Rearranged

LEMMA RemoveBranch ==
  ASSUME ToolsInv, at = "scheduler", Remove
  PROVE  Rearranged
  <1>1. /\ IsQueue(ready_queue', rq_size') /\ Ready' = Ready \ {RUNNING}
        /\ lock_owner' # None => lock_owner' \in Ready'
        /\ rq_current' \in Nat /\ (rq_size' > 0 => rq_current' < rq_size')
    BY RemovalQueues DEF Remove
  <1>2. RUNNING \notin Waiting
    BY RunningFacts DEF Remove
  <1>3. Waiting' = Waiting /\ waiting_queue' = waiting_queue /\ wq_size' = wq_size
    BY DEF Remove, Waiting
  <1>4. rq_size' + wq_size' = rq_size + wq_size - 1
    BY DEF Remove, ToolsInv, TypeOK
  <1>5. wq_size > 0 => lock_owner # None
    BY DEF Remove, MustHandOver
  <1> QED
    BY <1>1, <1>2, <1>3, <1>4, <1>5 DEF Remove, ToolsInv, QueuesSound, TypeOK, Rearranged

LEMMA EveryBranch == ToolsInv /\ scheduler => Rearranged
  BY StartBranch, HandOverBranch, RunNextBranch, GrantLockBranch, MakeWaitBranch,
     RemoveBranch DEF scheduler

LEMMA SchedulerStep ==
  ASSUME ToolsInv, scheduler
  PROVE  ToolsInv'
  <1>1. Rearranged
    BY EveryBranch
  <1>2. at = "scheduler" /\ UNCHANGED <<see, tcbs, pending, alarmSet, finished>>
    BY DEF scheduler, Resume
  <1>3. at' \in {"thread", "returned"} /\ (at' = "thread" => ~(rq_size' = 0 /\ wq_size' = 0))
    BY DEF scheduler, Resume
  <1>4. Live' = IF see = 3 THEN Live \ {RUNNING} ELSE Live
    <2>1. Live' = tcbs \ finished
      BY <1>2, <1>3 DEF Live
    <2>2. see = 3 => RUNNING \in finished
      BY <1>2 DEF ToolsInv, CallerSound
    <2> QED
      BY <2>1, <2>2, <1>2 DEF Live
  <1>5. QueuesSound'
    BY <1>1, <1>4 DEF Rearranged, QueuesSound
  <1>6. SizesSound'
    <2>1. IsFiniteSet(Live) /\ Cardinality(Live) \in Nat
      BY SizesBounded DEF ToolsInv
    <2>2. CASE see = 3
      <3>1. RUNNING \in Live
        BY <1>2, <2>2 DEF Live
      <3>2. Cardinality(Live \ {RUNNING}) = Cardinality(Live) - 1
        BY <2>1, <3>1, FS_RemoveElement
      <3> QED
        BY <1>1, <1>2, <1>4, <2>2, <3>2 DEF Rearranged, ToolsInv, SizesSound, TypeOK
    <2>3. CASE see # 3
      BY <1>1, <1>2, <1>4, <2>3 DEF Rearranged, ToolsInv, SizesSound, TypeOK
    <2> QED
      BY <2>2, <2>3
  <1>7. TypeOK'
    BY <1>1, <1>2, <1>3 DEF Rearranged, IsQueue, ToolsInv, TypeOK
  <1>8. RunningValid'
    <2>1. rq_size' + wq_size' <= THREAD_MAX
      <3>1. Live' \subseteq Threads
        BY <1>1, <1>5, ElemsThreads DEF QueuesSound, Ready, Waiting
      <3> QED
        BY <3>1, <1>6, FiniteThreads DEF SizesSound
    <2>2. at' = "thread" => rq_size' > 0
      <3>1. wq_size' > 0 => lock_owner' \in Ready'
        BY <1>1 DEF Rearranged
      <3>2. Ready' # {} => rq_size' # 0
        BY <1>1, ElemsThreads DEF Rearranged, Ready
      <3>3. rq_size' \in Nat /\ wq_size' \in Nat
        BY <1>7 DEF TypeOK
      <3> QED
        BY <1>3, <3>1, <3>2, <3>3
    <2>3. at' = "thread" => rq_current' < rq_size' /\ wq_size' < THREAD_MAX
      <3>1. rq_size' \in Nat /\ wq_size' \in Nat /\ rq_current' \in Nat
        BY <1>7 DEF TypeOK
      <3>2. rq_size' > 0 => rq_current' < rq_size'
        BY <1>1 DEF Rearranged
      <3>3. rq_size' > 0 => wq_size' < THREAD_MAX
        BY <2>1, <3>1, RoomLeft
      <3> QED
        BY <2>2, <3>2, <3>3
    <2> QED
      BY <1>3, <2>3 DEF RunningValid
  <1>9. AlarmAlive' /\ CallerSound' /\ HolderReady'
    BY <1>1, <1>2, <1>3 DEF Rearranged, ToolsInv, AlarmAlive, CallerSound, HolderReady
  <1> QED
    BY <1>5, <1>6, <1>7, <1>8, <1>9 DEF ToolsInv

LEMMA ToolsInvStep == ToolsInv /\ [Next]_ttvars => ToolsInv'
  BY CreateStep, ThreadSteps, SchedulerStep, KernelStep DEF Next, Returned
-----------------------------------------------------------------------------
(* The invariant holds in every state of every behaviour.                  *)
THEOREM Invariance == Spec => []ToolsInv
  <1> QED
    BY ToolsInvInit, ToolsInvStep, PTL DEF Spec

(* Every variable keeps its type; no queue is longer than its array.       *)
THEOREM TypeCorrect == Spec => []TypeOK
  <1>1. ToolsInv => TypeOK
    BY DEF ToolsInv
  <1> QED
    BY <1>1, Invariance, PTL

(* No thread is lost, duplicated or left behind by the scheduler.          *)
THEOREM QueuesAreSound == Spec => []QueuesSound
  <1>1. ToolsInv => QueuesSound
    BY DEF ToolsInv
  <1> QED
    BY <1>1, Invariance, PTL

(* RUNNING is never NULL when it is used, the arrays never overflow.       *)
THEOREM RunningIsValid == Spec => []RunningValid
  <1>1. ToolsInv => RunningValid
    BY DEF ToolsInv
  <1> QED
    BY <1>1, Invariance, PTL

(* Time slicing never stops.                                               *)
THEOREM AlarmStaysAlive == Spec => []AlarmAlive
  <1>1. ToolsInv => AlarmAlive
    BY DEF ToolsInv
  <1> QED
    BY <1>1, Invariance, PTL

(* Whenever the scheduler resumes a thread while others wait for the lock, *)
(* the holder of the lock is ready to run.                                 *)
THEOREM LineAlwaysMoves == Spec => LineMoves
  <1>1. ToolsInv /\ [Next]_ttvars
          => [at = "scheduler" /\ at' # "scheduler" /\ wq_size' > 0
                => lock_owner' \in Ready']_ttvars
    <2> SUFFICES ASSUME ToolsInv, Next, at = "scheduler", at' # "scheduler", wq_size' > 0
                 PROVE  lock_owner' \in Ready'
      BY DEF ttvars
    <2>1. scheduler
      BY DEF Next, Create, StartThreading, ThreadStep, Yield, YieldOn, YieldCaught, Lock,
             Unlock, Exit, Kernel, SendTSTP, AlarmFires, Returned
    <2> QED
      BY <2>1, EveryBranch DEF Rearranged
  <1> QED
    BY <1>1, Invariance, PTL DEF Spec, LineMoves

(* A caught signal moves the processor to another thread.                  *)
THEOREM YieldAlwaysSwitches == Spec => YieldSwitches
  <1>1. ToolsInv /\ [Next]_ttvars
          => [at = "scheduler" /\ see = 1 /\ at' = "thread" /\ rq_size' > 1
                => ready_queue'[rq_current'] # RUNNING]_ttvars
    <2> SUFFICES ASSUME ToolsInv, Next, at = "scheduler", see = 1, at' = "thread", rq_size' > 1
                 PROVE  ready_queue'[rq_current'] # RUNNING
      BY DEF ttvars
    <2>1. scheduler
      BY DEF Next, Create, StartThreading, ThreadStep, Yield, YieldOn, YieldCaught, Lock,
             Unlock, Exit, Kernel, SendTSTP, AlarmFires, Returned
    <2>2. IsQueue(ready_queue', rq_size') /\ rq_size' \in Nat
      BY <2>1, EveryBranch DEF Rearranged, IsQueue
    <2>3. /\ rq_current' = (rq_current + 1) % rq_size'
          /\ rq_current \in 0..(rq_size' - 1)
          /\ ready_queue'[rq_current] = RUNNING
      <3>1. CASE HandOver
        <4>1. /\ rq_current \in 0..(rq_size - 1) /\ rq_size \in Nat
              /\ AppendTo(ready_queue, rq_size, waiting_queue[0])[rq_current] = RUNNING
          BY <3>1, HandOverQueues DEF HandOver, ToolsInv, TypeOK
        <4>2. /\ rq_size' = rq_size + 1 /\ rq_current' = (rq_current + 1) % (rq_size + 1)
              /\ ready_queue' = AppendTo(ready_queue, rq_size, waiting_queue[0])
          BY <3>1 DEF HandOver
        <4> QED
          BY <4>1, <4>2
      <3>2. CASE RunNext
        BY <3>2, RunningFacts DEF RunNext, RUNNING, ToolsInv, TypeOK
      <3> QED
        BY <2>1, <3>1, <3>2 DEF scheduler, Start, GrantLock, MakeWait, Remove
    <2>4. rq_current' # rq_current /\ rq_current' \in 0..(rq_size' - 1)
      BY <2>2, <2>3, NextDiffers
    <2> QED
      BY <2>2, <2>3, <2>4 DEF IsQueue
  <1> QED
    BY <1>1, Invariance, PTL DEF Spec, YieldSwitches
-----------------------------------------------------------------------------
(* The line of FifoLock is the contents of waiting_queue.                  *)
LineOf(q, n) == [i \in 1..n |-> q[i - 1]]

LEMMA LineIsSeq ==
  ASSUME NEW q, NEW n, IsQueue(q, n)
  PROVE  /\ LineOf(q, n) \in Seq(Threads) /\ Len(LineOf(q, n)) = n /\ n \in Nat
         /\ \A i \in 1..n : LineOf(q, n)[i] = q[i - 1]
         /\ LineOf(q, n) = <<>> <=> n = 0
         /\ \A t : (\E i \in 1..n : LineOf(q, n)[i] = t) <=> t \in Elems(q, n)
  <1>1. n \in Nat /\ \A i \in 1..n : q[i - 1] \in Threads
    <2>1. n \in Nat /\ \A i \in 1..n : i - 1 \in 0..(n - 1)
      BY DEF IsQueue
    <2> QED
      BY <2>1, ElemsThreads
  <1>2. LineOf(q, n) \in Seq(Threads) /\ Len(LineOf(q, n)) = n
    BY <1>1 DEF LineOf
  <1>3. \A i \in 1..n : LineOf(q, n)[i] = q[i - 1]
    BY DEF LineOf
  <1>4. LineOf(q, n) = <<>> <=> n = 0
    <2>1. n = 0 => LineOf(q, n) = <<>>
      <3>1. <<>> \in Seq(Threads) /\ Len(<<>>) = 0
        BY EmptySeq
      <3>2. n = 0 => \A i \in 1..Len(LineOf(q, n)) : LineOf(q, n)[i] = <<>>[i]
        BY <1>2
      <3> QED
        BY <1>2, <3>1, <3>2, SeqEqual
    <2>2. LineOf(q, n) = <<>> => n = 0
      BY <1>2, EmptySeq
    <2> QED
      BY <2>1, <2>2
  <1>5. ASSUME NEW t PROVE (\E i \in 1..n : LineOf(q, n)[i] = t) <=> t \in Elems(q, n)
    <2>1. ASSUME NEW i \in 1..n PROVE LineOf(q, n)[i] \in Elems(q, n)
      BY <1>1, <1>3 DEF Elems
    <2>2. ASSUME NEW i \in 0..(n - 1) PROVE i + 1 \in 1..n /\ LineOf(q, n)[i + 1] = q[i]
      BY <1>1, <1>3
    <2> QED
      BY <2>1, <2>2 DEF Elems
  <1> QED
    BY <1>1, <1>2, <1>3, <1>4, <1>5

LEMMA LineOfAppend ==
  ASSUME NEW q, NEW n, NEW t \in Threads, IsQueue(q, n), n < THREAD_MAX, t \notin Elems(q, n)
  PROVE  LineOf(AppendTo(q, n, t), n + 1) = Append(LineOf(q, n), t)
  <1> DEFINE a == LineOf(AppendTo(q, n, t), n + 1)
             b == Append(LineOf(q, n), t)
  <1>1. /\ IsQueue(AppendTo(q, n, t), n + 1) /\ AppendTo(q, n, t)[n] = t
        /\ \A i \in 0..(n - 1) : AppendTo(q, n, t)[i] = q[i]
    BY AppendToQueue
  <1>2. /\ a \in Seq(Threads) /\ Len(a) = n + 1 /\ n \in Nat
        /\ \A i \in 1..(n + 1) : a[i] = AppendTo(q, n, t)[i - 1]
    BY <1>1, LineIsSeq
  <1>3. /\ b \in Seq(Threads) /\ Len(b) = n + 1 /\ b[n + 1] = t
        /\ \A i \in 1..n : b[i] = q[i - 1]
    BY LineIsSeq, AppendProperties
  <1>4. \A i \in 1..(n + 1) : a[i] = b[i]
    <2>1. a[n + 1] = b[n + 1]
      BY <1>1, <1>2, <1>3
    <2>2. \A i \in 1..n : i - 1 \in 0..(n - 1) /\ i \in 1..(n + 1)
      BY <1>2
    <2>3. \A i \in 1..n : a[i] = b[i]
      BY <1>1, <1>2, <1>3, <2>2
    <2>4. \A i \in 1..(n + 1) : i \in 1..n \/ i = n + 1
      BY <1>2
    <2> QED
      BY <2>1, <2>3, <2>4
  <1> QED
    BY <1>2, <1>3, <1>4, SeqEqual

LEMMA LineOfShift ==
  ASSUME NEW q, NEW n, IsQueue(q, n), 0 < n, n < THREAD_MAX
  PROVE  /\ LineOf(Shift(q, n), n - 1) = Tail(LineOf(q, n))
         /\ Head(LineOf(q, n)) = q[0]
  <1> DEFINE a == LineOf(Shift(q, n), n - 1)
             s == LineOf(q, n)
             b == Tail(s)
  <1>1. /\ IsQueue(Shift(q, n), n - 1)
        /\ \A i \in 0..(n - 2) : Shift(q, n)[i] = q[i + 1]
    BY ShiftQueue
  <1>2. /\ a \in Seq(Threads) /\ Len(a) = n - 1
        /\ \A i \in 1..(n - 1) : a[i] = Shift(q, n)[i - 1]
    BY <1>1, LineIsSeq
  <1>3. /\ s \in Seq(Threads) /\ Len(s) = n /\ n \in Nat /\ s # <<>>
        /\ \A i \in 1..n : s[i] = q[i - 1]
    BY LineIsSeq
  <1> HIDE DEF a, s
  <1>4. /\ b \in Seq(Threads) /\ Len(b) = n - 1 /\ Head(s) = s[1]
        /\ \A i \in 1..(n - 1) : b[i] = s[i + 1]
    BY <1>3, HeadTailProperties
  <1>5. \A i \in 1..(n - 1) : a[i] = b[i]
    <2>1. \A i \in 1..(n - 1) : i + 1 \in 1..n /\ i - 1 \in 0..(n - 2) /\ (i - 1) + 1 = (i + 1) - 1
      BY <1>3
    <2> QED
      BY <1>1, <1>2, <1>3, <1>4, <2>1
  <1>6. a = b
    BY <1>2, <1>4, <1>5, SeqEqual
  <1>7. Head(s) = q[0]
    BY <1>3, <1>4
  <1> QED
    BY <1>6, <1>7 DEF a, s
-----------------------------------------------------------------------------
(* The refinement: Unlock is Leave, GrantLock is Take, MakeWait is LineUp  *)
(* and HandOver is PassOn, or PassOnBefore when lock() called scheduler(). *)

LEMMA LineIsLineOf == Line = LineOf(waiting_queue, wq_size)
  BY DEF Line, LineOf

LEMMA LineFacts ==
  ASSUME ToolsInv
  PROVE  /\ Line = <<>> <=> wq_size = 0
         /\ \A t : LockService!InLine(t) <=> t \in Waiting
  <1>1. IsQueue(waiting_queue, wq_size)
    BY DEF ToolsInv, QueuesSound
  <1>2. Len(Line) = wq_size
    BY <1>1, LineIsSeq, LineIsLineOf
  <1> QED
    BY <1>1, <1>2, LineIsSeq, LineIsLineOf DEF LockService!InLine, Waiting

LEMMA LockInit == Init => LockService!FLInit
  <1> SUFFICES ASSUME Init PROVE Line = <<>> /\ lock_owner = None
    BY DEF LockService!FLInit
  <1>1. ToolsInv
    BY ToolsInvInit
  <1> QED
    BY <1>1, LineFacts DEF Init

LEMMA LockHandOver ==
  ASSUME ToolsInv, at = "scheduler", HandOver
  PROVE  LockService!PassOn \/ LockService!PassOnBefore(RUNNING)
  <1> DEFINE waiting == Shift(waiting_queue, wq_size)
  <1>1. /\ IsQueue(waiting_queue, wq_size) /\ wq_size > 0 /\ wq_size < THREAD_MAX
        /\ wq_size \in Nat /\ lock_owner = None /\ lock_owner' = waiting_queue[0]
        /\ RUNNING \in Threads /\ RUNNING \notin Waiting
    BY RunningFacts DEF HandOver, MustHandOver, ToolsInv, QueuesSound, TypeOK
  <1>2. /\ LineOf(waiting, wq_size - 1) = Tail(Line)
        /\ Head(Line) = lock_owner'
        /\ Line # <<>>
    BY <1>1, LineOfShift, LineIsLineOf, LineFacts
  <1> HIDE DEF waiting
  <1>3. CASE waiting_queue' = waiting /\ wq_size' = wq_size - 1
    <2>1. Line' = Tail(Line)
      BY <1>2, <1>3 DEF Line, LineOf
    <2> QED
      BY <1>1, <1>2, <2>1 DEF LockService!PassOn
  <1>4. CASE waiting_queue' = AppendTo(waiting, wq_size - 1, RUNNING) /\ wq_size' = wq_size
    <2>1. /\ IsQueue(waiting, wq_size - 1) /\ RUNNING \notin Elems(waiting, wq_size - 1)
      BY <1>1, ShiftQueue DEF waiting, Waiting
    <2>2. LineOf(AppendTo(waiting, wq_size - 1, RUNNING), (wq_size - 1) + 1)
            = Append(LineOf(waiting, wq_size - 1), RUNNING)
      BY <1>1, <2>1, LineOfAppend
    <2>3. Line' = Append(Tail(Line), RUNNING)
      <3>1. (wq_size - 1) + 1 = wq_size
        BY <1>1
      <3>2. Line' = LineOf(AppendTo(waiting, wq_size - 1, RUNNING), wq_size)
        BY <1>4 DEF Line, LineOf
      <3> QED
        BY <1>2, <2>2, <3>1, <3>2
    <2>4. ~LockService!InLine(RUNNING)
      BY <1>1, LineFacts
    <2> QED
      BY <1>1, <1>2, <2>3, <2>4 DEF LockService!PassOnBefore
  <1> QED
    BY <1>3, <1>4 DEF HandOver, waiting

LEMMA LockMakeWait ==
  ASSUME ToolsInv, at = "scheduler", MakeWait
  PROVE  RUNNING \in Threads /\ LockService!LineUp(RUNNING)
  <1>1. RUNNING \in Threads /\ RUNNING \notin Waiting /\ wq_size < THREAD_MAX
    BY RunningFacts DEF MakeWait
  <1>2. lock_owner # None /\ lock_owner # RUNNING /\ lock_owner' = lock_owner
    BY DEF MakeWait, ToolsInv, CallerSound
  <1>3. Line' = Append(Line, RUNNING)
    <2>1. IsQueue(waiting_queue, wq_size)
      BY DEF ToolsInv, QueuesSound
    <2>2. LineOf(AppendTo(waiting_queue, wq_size, RUNNING), wq_size + 1)
            = Append(LineOf(waiting_queue, wq_size), RUNNING)
      BY <1>1, <2>1, LineOfAppend DEF Waiting
    <2>3. Line' = LineOf(AppendTo(waiting_queue, wq_size, RUNNING), wq_size + 1)
      BY DEF MakeWait, Line, LineOf
    <2> QED
      BY <2>2, <2>3, LineIsLineOf
  <1>4. ~LockService!InLine(RUNNING)
    BY <1>1, LineFacts
  <1> QED
    BY <1>1, <1>2, <1>3, <1>4 DEF LockService!LineUp

LEMMA LockStep == ToolsInv /\ [Next]_ttvars => [LockService!FLNext]_(LockService!flvars)
  <1> SUFFICES ASSUME ToolsInv, [Next]_ttvars
               PROVE  LockService!FLNext \/ UNCHANGED <<lock_owner, Line>>
    BY DEF LockService!flvars
  <1>1. ASSUME UNCHANGED <<lock_owner, waiting_queue, wq_size>>
        PROVE  UNCHANGED <<lock_owner, Line>>
    BY <1>1 DEF Line
  <1>2. ASSUME NEW t \in Threads, Create(t)
        PROVE  UNCHANGED <<lock_owner, Line>>
    BY <1>1, <1>2 DEF Create
  <1>3. CASE StartThreading \/ Kernel \/ Returned \/ UNCHANGED ttvars
    BY <1>1, <1>3 DEF StartThreading, Kernel, SendTSTP, AlarmFires, Returned, ttvars, queues
  <1>4. CASE ThreadStep
    <2>1. CASE Yield \/ Lock \/ Exit
      BY <1>1, <2>1 DEF Yield, YieldOn, YieldCaught, Lock, Exit, ttvars, queues
    <2>2. CASE Unlock /\ lock_owner = RUNNING
      <3>1. lock_owner # None /\ lock_owner' = None /\ Line' = Line
        BY <1>4, <2>2 DEF ThreadStep, Unlock, Line, queues
      <3> QED
        BY <3>1 DEF LockService!FLNext, LockService!Leave
    <2>3. CASE Unlock /\ lock_owner # RUNNING
      BY <1>1, <2>3 DEF Unlock, queues
    <2> QED
      BY <1>4, <2>1, <2>2, <2>3 DEF ThreadStep
  <1>5. CASE scheduler
    <2> USE <1>5 DEF scheduler
    <2>1. CASE Start \/ RunNext \/ Remove
      BY <1>1, <2>1 DEF Start, RunNext, Remove
    <2>2. CASE HandOver
      <3>1. RUNNING \in Threads
        BY <2>2, RunningFacts DEF HandOver
      <3> QED
        BY <2>2, <3>1, LockHandOver DEF LockService!FLNext
    <2>3. CASE GrantLock
      <3>1. RUNNING \in Threads /\ Line = <<>> /\ Line' = Line
        BY <2>3, RunningFacts, LineFacts DEF GrantLock, Line, queues
      <3> QED
        BY <2>3, <3>1 DEF GrantLock, LockService!FLNext, LockService!Take
    <2>4. CASE MakeWait
      BY <2>4, LockMakeWait DEF LockService!FLNext
    <2> QED
      BY <2>1, <2>2, <2>3, <2>4
  <1> QED
    BY <1>2, <1>3, <1>4, <1>5 DEF Next

(* lock() and unlock() are a first come, first served lock.                *)
THEOREM LockIsFifo == Spec => ImplementsFifoLock
  <1> QED
    BY LockInit, LockStep, Invariance, PTL DEF Spec, ImplementsFifoLock, LockService!FLSpec
=============================================================================
