-------------------------- MODULE ThreadPoolProofs --------------------------
(***************************************************************************)
(* For every number of workers, every number of jobs and any number of     *)
(* spurious wake-ups: the invariant IInv of ThreadPool is inductive, the   *)
(* safety properties follow from it, and the pool implements the safety    *)
(* part of JobService.                                                     *)
(***************************************************************************)
EXTENDS ThreadPool, FiniteSetTheorems, TLAPS

USE WorkersAssumption, BoundsAssumption
-----------------------------------------------------------------------------
(* Workers are finite in number, so jc and tc can be cardinalities.        *)

LEMMA FiniteWorkers ==
  ASSUME NEW S \in SUBSET Workers
  PROVE  IsFiniteSet(S) /\ Cardinality(S) \in Nat /\ (Cardinality(S) = 0 <=> S = {})
  <1>1. IsFiniteSet(S)
    BY FS_Subset
  <1>2. Cardinality(S) \in Nat
    BY <1>1, FS_CardinalityType
  <1>3. Cardinality(S) = 0 <=> S = {}
    BY <1>1, FS_EmptySet
  <1> QED
    BY <1>1, <1>2, <1>3

(* What the counters say when they are zero or not.                        *)
LEMMA CounterFacts ==
  ASSUME TypeOK, Counters
  PROVE  /\ jc = 0 <=> \A w \in Workers : w \notin Busy
         /\ tc = 0 <=> \A w \in Workers : pc[w] = "exited"
  <1>1. Busy \in SUBSET Workers /\ Alive \in SUBSET Workers
    BY DEF Busy, Alive
  <1>2. jc = 0 <=> Busy = {}
    BY <1>1, FiniteWorkers DEF Counters
  <1>3. tc = 0 <=> Alive = {}
    BY <1>1, FiniteWorkers DEF Counters
  <1>4. Busy = {} <=> \A w \in Workers : w \notin Busy
    BY <1>1
  <1>5. Alive = {} <=> \A w \in Workers : pc[w] = "exited"
    BY DEF Alive
  <1> QED
    BY <1>2, <1>3, <1>4, <1>5

(* A step that moves no worker into or out of the code that handles a job, *)
(* nor out of the pool, and touches no job.                                *)
LEMMA QuietStep ==
  ASSUME TypeOK, Counters, Fifo, OrderInv, HeapInv,
         UNCHANGED <<queue, jc, tc, heap, job1, added, log>>,
         Linked' = Linked,
         \A w \in Workers :
           /\ pc'[w] = "run" <=> pc[w] = "run"
           /\ pc'[w] \in {"relock", "post"} <=> pc[w] \in {"relock", "post"}
           /\ pc'[w] = "exited" <=> pc[w] = "exited"
  PROVE  Counters' /\ Fifo' /\ OrderInv' /\ HeapInv'
  <1>1. Busy' = Busy /\ Alive' = Alive
    BY DEF Busy, Alive
  <1>2. Taken' = Taken
    BY DEF Taken
  <1>3. Counters'
    BY <1>1 DEF Counters
  <1>4. Fifo'
    BY DEF Fifo
  <1>5. OrderInv'
    BY <1>1, <1>2 DEF OrderInv
  <1>6. HeapInv'
    BY <1>1, <1>2 DEF HeapInv
  <1> QED
    BY <1>3, <1>4, <1>5, <1>6
-----------------------------------------------------------------------------
LEMMA IInvInit == Init => IInv
  <1> SUFFICES ASSUME Init PROVE IInv
    OBVIOUS
  <1>1. Busy = {} /\ Alive = Workers
    BY DEF Init, Busy, Alive
  <1>2. Cardinality({}) = 0 /\ Cardinality(Workers) \in Nat /\ Cardinality(Workers) # 0
    BY FS_EmptySet, FiniteWorkers
  <1>3. Taken = 0 /\ Linked = 0
    BY DEF Init, Taken, Linked
  <1>4. TypeOK
    <2>1. /\ pc \in [Workers -> WorkerLocs] /\ job1 \in [Workers -> Nat]
          /\ main \in MainLocs
      BY DEF Init, WorkerLocs, MainLocs
    <2>2. tc \in Nat /\ jc \in Nat /\ added \in Nat /\ spurious \in 0..MaxSpurious
      BY <1>2 DEF Init
    <2>3. queue \in Seq(Nat) /\ log \in Seq(Nat) /\ heap \in SUBSET Nat
      BY DEF Init
    <2> QED
      BY <2>1, <2>2, <2>3 DEF Init, TypeOK
  <1>5. LockInv /\ NoLostWakeup /\ Fifo /\ PhaseInv
    BY DEF Init, LockInv, NoLostWakeup, Fifo, PhaseInv
  <1>6. Counters
    BY <1>1, <1>2 DEF Init, Counters
  <1>7. OrderInv /\ HeapInv
    BY <1>1, <1>3 DEF Init, OrderInv, HeapInv
  <1> QED
    BY <1>4, <1>5, <1>6, <1>7 DEF IInv
-----------------------------------------------------------------------------
(* The steps of the main thread that touch no job: they only get and give  *)
(* mylock, sleep and wake.                                                 *)
LEMMA MainQuietStep ==
  ASSUME IInv,
         \/ \E w \in Workers : Create(w)
         \/ AddLock \/ WaitCall \/ WaitLock \/ WaitSleep \/ WaitReturn
         \/ DestroyCall \/ DestroyLock \/ Shut \/ DestroySleep \/ DestroyRelock
         \/ DestroyJoined \/ Free
  PROVE  IInv'
  <1> USE DEF Acquire, Release, Goto, BroadcastA
  <1>1. ASSUME NEW w \in Workers, Create(w) PROVE IInv'
    <2>1. TypeOK' /\ LockInv'
      BY <1>1 DEF Create, IInv, TypeOK, LockInv, WorkerLocs, MainLocs
    <2>2. NoLostWakeup' /\ PhaseInv'
      BY <1>1 DEF Create, IInv, TypeOK, LockInv, NoLostWakeup, PhaseInv, PoolIdle
    <2>3. Counters' /\ Fifo' /\ OrderInv' /\ HeapInv'
      BY <1>1, QuietStep DEF Create, IInv, TypeOK, LockInv, PhaseInv, Linked
    <2> QED
      BY <2>1, <2>2, <2>3 DEF IInv
  <1>2. ASSUME AddLock PROVE IInv'
    <2>1. TypeOK' /\ LockInv'
      BY <1>2 DEF AddLock, IInv, TypeOK, LockInv, WorkerLocs, MainLocs
    <2>2. NoLostWakeup' /\ PhaseInv'
      BY <1>2 DEF AddLock, IInv, TypeOK, LockInv, NoLostWakeup, PhaseInv, PoolIdle
    <2>3. Counters' /\ Fifo' /\ OrderInv' /\ HeapInv'
      BY <1>2, QuietStep DEF AddLock, IInv, TypeOK, LockInv, PhaseInv, Linked
    <2> QED
      BY <2>1, <2>2, <2>3 DEF IInv
  <1>3. ASSUME WaitCall PROVE IInv'
    <2>1. TypeOK' /\ LockInv'
      BY <1>3 DEF WaitCall, IInv, TypeOK, LockInv, WorkerLocs, MainLocs
    <2>2. NoLostWakeup' /\ PhaseInv'
      BY <1>3 DEF WaitCall, IInv, TypeOK, LockInv, NoLostWakeup, PhaseInv, PoolIdle
    <2>3. Counters' /\ Fifo' /\ OrderInv' /\ HeapInv'
      BY <1>3, QuietStep DEF WaitCall, IInv, TypeOK, LockInv, PhaseInv, Linked
    <2> QED
      BY <2>1, <2>2, <2>3 DEF IInv
  <1>4. ASSUME WaitLock PROVE IInv'
    <2>1. TypeOK' /\ LockInv'
      BY <1>4 DEF WaitLock, IInv, TypeOK, LockInv, WorkerLocs, MainLocs
    <2>2. NoLostWakeup' /\ PhaseInv'
      BY <1>4 DEF WaitLock, IInv, TypeOK, LockInv, NoLostWakeup, PhaseInv, PoolIdle
    <2>3. Counters' /\ Fifo' /\ OrderInv' /\ HeapInv'
      BY <1>4, QuietStep DEF WaitLock, IInv, TypeOK, LockInv, PhaseInv, Linked
    <2> QED
      BY <2>1, <2>2, <2>3 DEF IInv
  <1>5. ASSUME WaitSleep PROVE IInv'
    <2>1. TypeOK' /\ LockInv'
      BY <1>5 DEF WaitSleep, IInv, TypeOK, LockInv, WorkerLocs, MainLocs
    <2>2. NoLostWakeup' /\ PhaseInv'
      BY <1>5 DEF WaitSleep, IInv, TypeOK, LockInv, NoLostWakeup, PhaseInv, PoolIdle
    <2>3. Counters' /\ Fifo' /\ OrderInv' /\ HeapInv'
      BY <1>5, QuietStep DEF WaitSleep, IInv, TypeOK, LockInv, PhaseInv, Linked
    <2> QED
      BY <2>1, <2>2, <2>3 DEF IInv
  <1>6. ASSUME WaitReturn PROVE IInv'
    <2>1. TypeOK' /\ LockInv'
      BY <1>6 DEF WaitReturn, IInv, TypeOK, LockInv, WorkerLocs, MainLocs
    <2>2. NoLostWakeup' /\ PhaseInv'
      BY <1>6 DEF WaitReturn, IInv, TypeOK, LockInv, NoLostWakeup, PhaseInv, PoolIdle
    <2>3. Counters' /\ Fifo' /\ OrderInv' /\ HeapInv'
      BY <1>6, QuietStep DEF WaitReturn, IInv, TypeOK, LockInv, PhaseInv, Linked
    <2> QED
      BY <2>1, <2>2, <2>3 DEF IInv
  <1>7. ASSUME DestroyCall PROVE IInv'
    <2>1. TypeOK' /\ LockInv'
      BY <1>7 DEF DestroyCall, IInv, TypeOK, LockInv, WorkerLocs, MainLocs
    <2>2. NoLostWakeup' /\ PhaseInv'
      BY <1>7 DEF DestroyCall, IInv, TypeOK, LockInv, NoLostWakeup, PhaseInv, PoolIdle
    <2>3. Counters' /\ Fifo' /\ OrderInv' /\ HeapInv'
      BY <1>7, QuietStep DEF DestroyCall, IInv, TypeOK, LockInv, PhaseInv, Linked
    <2> QED
      BY <2>1, <2>2, <2>3 DEF IInv
  <1>8. ASSUME DestroyLock PROVE IInv'
    <2>1. TypeOK' /\ LockInv'
      BY <1>8 DEF DestroyLock, IInv, TypeOK, LockInv, WorkerLocs, MainLocs
    <2>2. NoLostWakeup' /\ PhaseInv'
      BY <1>8 DEF DestroyLock, IInv, TypeOK, LockInv, NoLostWakeup, PhaseInv, PoolIdle
    <2>3. Counters' /\ Fifo' /\ OrderInv' /\ HeapInv'
      BY <1>8, QuietStep DEF DestroyLock, IInv, TypeOK, LockInv, PhaseInv, Linked
    <2> QED
      BY <2>1, <2>2, <2>3 DEF IInv
  <1>9. ASSUME Shut PROVE IInv'
    <2>1. TypeOK' /\ LockInv'
      BY <1>9 DEF Shut, IInv, TypeOK, LockInv, WorkerLocs, MainLocs
    <2>2. NoLostWakeup' /\ PhaseInv'
      BY <1>9 DEF Shut, IInv, TypeOK, LockInv, NoLostWakeup, PhaseInv, PoolIdle
    <2>3. Counters' /\ Fifo' /\ OrderInv' /\ HeapInv'
      BY <1>9, QuietStep DEF Shut, IInv, TypeOK, LockInv, PhaseInv, Linked
    <2> QED
      BY <2>1, <2>2, <2>3 DEF IInv
  <1>10. ASSUME DestroySleep PROVE IInv'
    <2>1. TypeOK' /\ LockInv'
      BY <1>10 DEF DestroySleep, IInv, TypeOK, LockInv, WorkerLocs, MainLocs
    <2>2. NoLostWakeup' /\ PhaseInv'
      BY <1>10 DEF DestroySleep, IInv, TypeOK, LockInv, NoLostWakeup, PhaseInv, PoolIdle
    <2>3. Counters' /\ Fifo' /\ OrderInv' /\ HeapInv'
      BY <1>10, QuietStep DEF DestroySleep, IInv, TypeOK, LockInv, PhaseInv, Linked
    <2> QED
      BY <2>1, <2>2, <2>3 DEF IInv
  <1>11. ASSUME DestroyRelock PROVE IInv'
    <2>1. TypeOK' /\ LockInv'
      BY <1>11 DEF DestroyRelock, IInv, TypeOK, LockInv, WorkerLocs, MainLocs
    <2>2. NoLostWakeup' /\ PhaseInv'
      BY <1>11 DEF DestroyRelock, IInv, TypeOK, LockInv, NoLostWakeup, PhaseInv, PoolIdle
    <2>3. Counters' /\ Fifo' /\ OrderInv' /\ HeapInv'
      BY <1>11, QuietStep DEF DestroyRelock, IInv, TypeOK, LockInv, PhaseInv, Linked
    <2> QED
      BY <2>1, <2>2, <2>3 DEF IInv
  <1>12. ASSUME DestroyJoined PROVE IInv'
    <2>1. TypeOK' /\ LockInv'
      BY <1>12 DEF DestroyJoined, IInv, TypeOK, LockInv, WorkerLocs, MainLocs
    <2>2. NoLostWakeup' /\ PhaseInv'
      BY <1>12 DEF DestroyJoined, IInv, TypeOK, LockInv, NoLostWakeup, PhaseInv, PoolIdle
    <2>3. Counters' /\ Fifo' /\ OrderInv' /\ HeapInv'
      BY <1>12, QuietStep DEF DestroyJoined, IInv, TypeOK, LockInv, PhaseInv, Linked
    <2> QED
      BY <2>1, <2>2, <2>3 DEF IInv
  <1>13. ASSUME Free PROVE IInv'
    <2>1. TypeOK' /\ LockInv'
      BY <1>13 DEF Free, IInv, TypeOK, LockInv, WorkerLocs, MainLocs
    <2>2. NoLostWakeup' /\ PhaseInv'
      BY <1>13 DEF Free, IInv, TypeOK, LockInv, NoLostWakeup, PhaseInv, PoolIdle
    <2>3. Counters' /\ Fifo' /\ OrderInv' /\ HeapInv'
      BY <1>13, QuietStep DEF Free, IInv, TypeOK, LockInv, PhaseInv, Linked
    <2> QED
      BY <2>1, <2>2, <2>3 DEF IInv
  <1> QED
    BY <1>1, <1>2, <1>3, <1>4, <1>5, <1>6, <1>7, <1>8, <1>9, <1>10, <1>11, <1>12, <1>13

(* Spurious wake-ups.                                                      *)
LEMMA SpuriousStep ==
  ASSUME IInv, Spurious
  PROVE  IInv'
  <1> USE DEF Goto
  <1>1. TypeOK' /\ LockInv'
    <2>1. PICK w \in Workers : SpuriousA(w) \/ SpuriousB \/ SpuriousC
      BY DEF Spurious
    <2>2. /\ spurious' \in 0..MaxSpurious
          /\ UNCHANGED <<mylock, queue, jc, tc, shutdown, pool, heap, job1, waited, added, log>>
      BY DEF Spurious, IInv, TypeOK
    <2>3. CASE SpuriousA(w)
      BY <2>2, <2>3 DEF SpuriousA, IInv, TypeOK, LockInv, WorkerLocs
    <2>4. CASE SpuriousB
      BY <2>2, <2>4 DEF SpuriousB, IInv, TypeOK, LockInv, MainLocs
    <2>5. CASE SpuriousC
      BY <2>2, <2>5 DEF SpuriousC, IInv, TypeOK, LockInv, MainLocs
    <2> QED
      BY <2>1, <2>3, <2>4, <2>5
  <1>2. NoLostWakeup' /\ PhaseInv'
    BY DEF Spurious, SpuriousA, SpuriousB, SpuriousC, IInv, TypeOK, NoLostWakeup, PhaseInv, PoolIdle
  <1>3. Counters' /\ Fifo' /\ OrderInv' /\ HeapInv'
    BY QuietStep DEF Spurious, SpuriousA, SpuriousB, SpuriousC, IInv, TypeOK, Linked
  <1> QED
    BY <1>1, <1>2, <1>3 DEF IInv

(* The steps of a worker that touch no job.                                *)
LEMMA WorkerQuietStep ==
  ASSUME IInv, NEW w \in Workers,
         WorkerLock(w) \/ WorkerSleep(w) \/ WorkerRelock(w)
  PROVE  IInv'
  <1> USE DEF Acquire, Release, Goto
  <1>1. ASSUME WorkerLock(w) PROVE IInv'
    <2>1. TypeOK' /\ LockInv'
      BY <1>1 DEF WorkerLock, IInv, TypeOK, LockInv, WorkerLocs, MainLocs
    <2>2. NoLostWakeup' /\ PhaseInv'
      BY <1>1 DEF WorkerLock, IInv, TypeOK, LockInv, NoLostWakeup, PhaseInv, PoolIdle
    <2>3. Counters' /\ Fifo' /\ OrderInv' /\ HeapInv'
      BY <1>1, QuietStep DEF WorkerLock, IInv, TypeOK, LockInv, PhaseInv, Linked
    <2> QED
      BY <2>1, <2>2, <2>3 DEF IInv
  <1>2. ASSUME WorkerSleep(w) PROVE IInv'
    <2>1. TypeOK' /\ LockInv'
      BY <1>2 DEF WorkerSleep, IInv, TypeOK, LockInv, WorkerLocs, MainLocs
    <2>2. NoLostWakeup' /\ PhaseInv'
      BY <1>2 DEF WorkerSleep, IInv, TypeOK, LockInv, NoLostWakeup, PhaseInv, PoolIdle
    <2>3. Counters' /\ Fifo' /\ OrderInv' /\ HeapInv'
      BY <1>2, QuietStep DEF WorkerSleep, IInv, TypeOK, LockInv, PhaseInv, Linked
    <2> QED
      BY <2>1, <2>2, <2>3 DEF IInv
  <1>3. ASSUME WorkerRelock(w) PROVE IInv'
    <2>1. TypeOK' /\ LockInv'
      BY <1>3 DEF WorkerRelock, IInv, TypeOK, LockInv, WorkerLocs, MainLocs
    <2>2. NoLostWakeup' /\ PhaseInv'
      BY <1>3 DEF WorkerRelock, IInv, TypeOK, LockInv, NoLostWakeup, PhaseInv, PoolIdle
    <2>3. Counters' /\ Fifo' /\ OrderInv' /\ HeapInv'
      BY <1>3, QuietStep DEF WorkerRelock, IInv, TypeOK, LockInv, PhaseInv, Linked
    <2> QED
      BY <2>1, <2>2, <2>3 DEF IInv
  <1> QED
    BY <1>1, <1>2, <1>3
-----------------------------------------------------------------------------
(* The steps that move a job, each with the conjuncts it disturbs.         *)

LEMMA TakeStep ==
  ASSUME IInv, NEW w \in Workers, WorkerTake(w)
  PROVE  IInv'
  <1> USE DEF Goto
  <1>1. TypeOK' /\ LockInv' /\ Fifo'
    BY DEF WorkerTake, IInv, TypeOK, LockInv, Fifo, WorkerLocs
  <1>2. NoLostWakeup' /\ PhaseInv'
    BY DEF WorkerTake, IInv, TypeOK, LockInv, NoLostWakeup, PhaseInv, PoolIdle
  <1>3. w \notin Busy /\ Busy' = Busy \cup {w} /\ Alive' = Alive
    BY DEF WorkerTake, IInv, TypeOK, Busy, Alive
  <1>4. Counters'
    <2>1. IsFiniteSet(Busy) /\ Cardinality(Busy) \in Nat
      BY FiniteWorkers DEF Busy
    <2>2. Cardinality(Busy \cup {w}) = Cardinality(Busy) + 1
      BY <1>3, <2>1, FS_AddElement
    <2> QED
      BY <1>3, <2>2 DEF WorkerTake, IInv, Counters
  <1>5. Taken = Len(log) /\ Taken' = Len(log) + 1 /\ Linked' = Linked
    BY DEF WorkerTake, IInv, TypeOK, LockInv, Taken, Linked
  <1>6. /\ Len(queue) > 0 /\ Len(queue') = Len(queue) - 1
        /\ \A i \in 1..Len(queue') : queue'[i] = queue[i + 1]
        /\ Head(queue) = queue[1]
    BY DEF WorkerTake, IInv, TypeOK
  <1>7. job1'[w] = Len(log) + 1 /\ \A v \in Workers \ {w} : job1'[v] = job1[v]
    BY <1>5, <1>6 DEF WorkerTake, IInv, TypeOK, OrderInv
  <1>8. OrderInv'
    <2>1. Taken' + Len(queue') = Linked'
      BY <1>5, <1>6 DEF IInv, TypeOK, OrderInv, Linked
    <2>2. \A i \in 1..Len(queue') : queue'[i] = Taken' + i
      BY <1>5, <1>6 DEF IInv, TypeOK, OrderInv
    <2>3. \A v \in Workers : pc'[v] = "run" => job1'[v] = Len(log') + 1
      BY <1>7 DEF WorkerTake, IInv, TypeOK, OrderInv, LockInv
    <2>4. \A v \in Workers : pc'[v] \in {"relock", "post"} => job1'[v] \in 1..Len(log')
      BY <1>7 DEF WorkerTake, IInv, TypeOK, OrderInv
    <2>5. \A v \in Busy : job1[v] \in 1..Len(log) /\ v # w
      BY <1>3 DEF WorkerTake, IInv, OrderInv, LockInv, Busy
    <2>6. \A u, v \in Busy' : job1'[u] = job1'[v] => u = v
      <3> SUFFICES ASSUME NEW u \in Busy', NEW v \in Busy', job1'[u] = job1'[v]
                   PROVE  u = v
        OBVIOUS
      <3>1. Busy \subseteq Workers
        BY DEF Busy
      <3>2. CASE u \in Busy /\ v \in Busy
        BY <3>1, <3>2, <2>5, <1>7 DEF IInv, OrderInv
      <3>3. CASE u \in Busy /\ v = w
        BY <3>1, <3>3, <2>5, <1>7 DEF IInv, TypeOK
      <3>4. CASE u = w /\ v \in Busy
        BY <3>1, <3>4, <2>5, <1>7 DEF IInv, TypeOK
      <3> QED
        BY <3>2, <3>3, <3>4, <1>3
    <2> QED
      BY <2>1, <2>2, <2>3, <2>4, <2>6 DEF OrderInv
  <1>9. HeapInv'
    <2>1. {job1'[v] : v \in Busy'} = {job1[v] : v \in Busy} \cup {Len(log) + 1}
      BY <1>3, <1>7 DEF Busy
    <2>2. Taken + 1 <= added
      BY <1>5, <1>6 DEF IInv, OrderInv, Linked, TypeOK
    <2>3. (Taken + 1)..added = (Taken' + 1)..added \cup {Len(log) + 1}
      BY <1>5, <2>2 DEF IInv, TypeOK
    <2> QED
      BY <2>1, <2>3 DEF WorkerTake, IInv, HeapInv
  <1> QED
    BY <1>1, <1>2, <1>4, <1>8, <1>9 DEF IInv

LEMMA RunStep ==
  ASSUME IInv, NEW w \in Workers, WorkerRun(w)
  PROVE  IInv'
  <1> USE DEF Goto, Release
  <1>1. job1[w] = Len(log) + 1
    BY DEF WorkerRun, IInv, OrderInv
  <1>2. /\ Len(log') = Len(log) + 1
        /\ log'[Len(log) + 1] = Len(log) + 1
        /\ \A i \in 1..Len(log) : log'[i] = log[i]
    BY <1>1 DEF WorkerRun, IInv, TypeOK
  <1>3. TypeOK' /\ LockInv'
    BY DEF WorkerRun, IInv, TypeOK, LockInv, WorkerLocs
  <1>4. NoLostWakeup' /\ PhaseInv'
    BY DEF WorkerRun, IInv, TypeOK, LockInv, NoLostWakeup, PhaseInv, PoolIdle
  <1>5. Busy' = Busy /\ Alive' = Alive
    BY DEF WorkerRun, IInv, TypeOK, Busy, Alive
  <1>6. Counters'
    BY <1>5 DEF WorkerRun, IInv, Counters
  <1>7. Fifo'
    <2>1. \A i \in 1..Len(log') : i \in 1..Len(log) \/ i = Len(log) + 1
      BY <1>2 DEF IInv, TypeOK
    <2> QED
      BY <1>2, <2>1 DEF IInv, Fifo
  <1>8. Taken' = Taken /\ Linked' = Linked
    <2>1. Taken = Len(log) + 1
      BY DEF WorkerRun, Taken
    <2>2. \A v \in Workers : pc'[v] # "run"
      BY DEF WorkerRun, IInv, TypeOK, LockInv
    <2>3. Taken' = Len(log')
      BY <2>2, <1>3 DEF Taken, TypeOK
    <2> QED
      BY <1>2, <2>1, <2>3 DEF WorkerRun, Linked
  <1>9. OrderInv'
    <2>1. /\ Taken' + Len(queue') = Linked'
          /\ \A i \in 1..Len(queue') : queue'[i] = Taken' + i
      BY <1>8 DEF WorkerRun, IInv, OrderInv
    <2>2. /\ \A v \in Workers : pc'[v] = "run" => job1'[v] = Len(log') + 1
          /\ \A v \in Workers : pc'[v] \in {"relock", "post"} => job1'[v] \in 1..Len(log')
      BY <1>1, <1>2 DEF WorkerRun, IInv, TypeOK, OrderInv, LockInv
    <2>3. \A u, v \in Busy' : job1'[u] = job1'[v] => u = v
      BY <1>5 DEF WorkerRun, IInv, OrderInv
    <2> QED
      BY <2>1, <2>2, <2>3 DEF OrderInv
  <1>10. HeapInv'
    BY <1>5, <1>8 DEF WorkerRun, IInv, HeapInv
  <1> QED
    BY <1>3, <1>4, <1>6, <1>7, <1>9, <1>10 DEF IInv

LEMMA FinishStep ==
  ASSUME IInv, NEW w \in Workers, WorkerFinish(w)
  PROVE  IInv'
  <1> USE DEF Goto, Release, SignalB
  <1>1. w \in Busy /\ Busy' = Busy \ {w} /\ Alive' = Alive
    BY DEF WorkerFinish, IInv, TypeOK, Busy, Alive
  <1>2. IsFiniteSet(Busy) /\ Cardinality(Busy) \in Nat
    BY FiniteWorkers DEF Busy
  <1>3. Cardinality(Busy \ {w}) = Cardinality(Busy) - 1
    BY <1>1, <1>2, FS_RemoveElement
  <1>4. jc' \in Nat /\ Counters'
    <2>1. Cardinality(Busy \ {w}) \in Nat
      BY FiniteWorkers DEF Busy
    <2> QED
      BY <1>1, <1>3, <2>1 DEF WorkerFinish, IInv, Counters
  <1>5. TypeOK' /\ LockInv' /\ Fifo'
    BY <1>4 DEF WorkerFinish, IInv, TypeOK, LockInv, Fifo, WorkerLocs, MainLocs
  <1>6. jc # 0
    BY <1>1, CounterFacts DEF IInv
  <1>7. NoLostWakeup' /\ PhaseInv'
    BY <1>6 DEF WorkerFinish, IInv, TypeOK, LockInv, NoLostWakeup, PhaseInv, PoolIdle
  <1>8. Taken' = Taken /\ Linked' = Linked
    BY DEF WorkerFinish, IInv, TypeOK, LockInv, Taken, Linked
  <1>9. OrderInv'
    BY <1>1, <1>8 DEF WorkerFinish, IInv, TypeOK, OrderInv, Busy
  <1>10. HeapInv'
    <2>1. job1[w] \notin (Taken + 1)..added
      BY DEF WorkerFinish, IInv, TypeOK, OrderInv, Taken
    <2>2. {job1[v] : v \in Busy \ {w}} = {job1[v] : v \in Busy} \ {job1[w]}
      BY <1>1 DEF IInv, OrderInv
    <2>3. heap' = (Taken + 1)..added \cup {job1[v] : v \in Busy \ {w}}
      BY <2>1, <2>2 DEF WorkerFinish, IInv, HeapInv
    <2> QED
      BY <1>1, <1>8, <2>3 DEF WorkerFinish, HeapInv
  <1> QED
    BY <1>4, <1>5, <1>7, <1>9, <1>10 DEF IInv

LEMMA ExitStep ==
  ASSUME IInv, NEW w \in Workers, WorkerExit(w)
  PROVE  IInv'
  <1> USE DEF Goto, Release, SignalC
  <1>1. w \in Alive /\ Alive' = Alive \ {w} /\ Busy' = Busy
    BY DEF WorkerExit, IInv, TypeOK, Busy, Alive
  <1>2. IsFiniteSet(Alive)
    BY FiniteWorkers DEF Alive
  <1>3. Cardinality(Alive \ {w}) = Cardinality(Alive) - 1 /\ Cardinality(Alive \ {w}) \in Nat
    BY <1>1, <1>2, FS_RemoveElement, FiniteWorkers DEF Alive
  <1>4. tc' \in Nat /\ Counters'
    BY <1>1, <1>3 DEF WorkerExit, IInv, Counters
  <1>5. TypeOK' /\ LockInv' /\ Fifo'
    BY <1>4 DEF WorkerExit, IInv, TypeOK, LockInv, Fifo, WorkerLocs, MainLocs
  <1>6. tc # 0
    BY <1>1, CounterFacts DEF IInv, Alive
  <1>7. NoLostWakeup' /\ PhaseInv'
    BY <1>6 DEF WorkerExit, IInv, TypeOK, LockInv, NoLostWakeup, PhaseInv, PoolIdle
  <1>8. Taken' = Taken /\ Linked' = Linked
    BY DEF WorkerExit, IInv, TypeOK, LockInv, Taken, Linked
  <1>9. OrderInv' /\ HeapInv'
    BY <1>1, <1>8 DEF WorkerExit, IInv, TypeOK, OrderInv, HeapInv
  <1> QED
    BY <1>4, <1>5, <1>7, <1>9 DEF IInv

LEMMA AddCallStep ==
  ASSUME IInv, AddCall
  PROVE  IInv'
  <1>1. TypeOK' /\ LockInv'
    <2>1. heap' \in SUBSET Nat /\ added' \in Nat /\ main' \in MainLocs
      BY DEF AddCall, IInv, TypeOK, MainLocs
    <2> QED
      BY <2>1 DEF AddCall, IInv, TypeOK, LockInv
  <1>6. NoLostWakeup' /\ PhaseInv'
    BY DEF AddCall, IInv, TypeOK, NoLostWakeup, PhaseInv, PoolIdle
  <1>2. Busy' = Busy /\ Alive' = Alive /\ Taken' = Taken
    BY DEF AddCall, Busy, Alive, Taken
  <1>3. Linked' = Linked /\ Linked = added
    BY DEF AddCall, IInv, TypeOK, Linked
  <1>4. Counters' /\ Fifo' /\ OrderInv'
    BY <1>2, <1>3 DEF AddCall, IInv, Counters, Fifo, OrderInv
  <1>5. HeapInv'
    <2>1. Taken <= added /\ Taken \in Nat
      BY <1>3 DEF IInv, OrderInv, TypeOK, Taken
    <2>2. (Taken + 1)..(added + 1) = (Taken + 1)..added \cup {added + 1}
      BY <2>1 DEF IInv, TypeOK
    <2> QED
      BY <1>2, <2>2 DEF AddCall, IInv, HeapInv
  <1> QED
    BY <1>1, <1>4, <1>5, <1>6 DEF IInv

LEMMA AddStep ==
  ASSUME IInv, Add
  PROVE  IInv'
  <1> USE DEF BroadcastA, Release
  <1>1. TypeOK' /\ LockInv'
    BY DEF Add, IInv, TypeOK, LockInv, MainLocs, WorkerLocs
  <1>2. NoLostWakeup' /\ PhaseInv'
    BY DEF Add, IInv, TypeOK, LockInv, NoLostWakeup, PhaseInv, PoolIdle
  <1>3. Busy' = Busy /\ Alive' = Alive /\ Taken' = Taken
    BY DEF Add, IInv, TypeOK, Busy, Alive, Taken
  <1>4. Linked = added - 1 /\ Linked' = added
    BY DEF Add, Linked
  <1>5. /\ Len(queue') = Len(queue) + 1
        /\ \A i \in 1..Len(queue) : queue'[i] = queue[i]
        /\ queue'[Len(queue) + 1] = added
    BY DEF Add, IInv, TypeOK
  <1>6. OrderInv'
    <2>1. Taken + Len(queue) = added - 1 /\ Taken \in Nat /\ added \in Nat /\ Len(queue) \in Nat
      BY <1>4 DEF IInv, OrderInv, TypeOK, Taken
    <2>2. Taken' + Len(queue') = Linked'
      BY <2>1, <1>3, <1>4, <1>5
    <2>3. ASSUME NEW i \in 1..Len(queue') PROVE queue'[i] = Taken' + i
      <3>1. CASE i = Len(queue) + 1
        BY <3>1, <2>1, <1>3, <1>5
      <3>2. CASE i # Len(queue) + 1
        <4>1. i \in 1..Len(queue)
          BY <3>2, <2>1, <1>5
        <4>2. queue[i] = Taken + i
          BY <4>1 DEF IInv, OrderInv
        <4> QED
          BY <4>1, <4>2, <1>3, <1>5
      <3> QED
        BY <3>1, <3>2
    <2> QED
      BY <2>2, <2>3, <1>3 DEF Add, IInv, TypeOK, OrderInv
  <1>7. Counters' /\ Fifo' /\ HeapInv'
    BY <1>3 DEF Add, IInv, Counters, Fifo, HeapInv
  <1> QED
    BY <1>1, <1>2, <1>6, <1>7 DEF IInv
-----------------------------------------------------------------------------
LEMMA IInvStep == IInv /\ [Next]_vars => IInv'
  <1> SUFFICES ASSUME IInv, [Next]_vars PROVE IInv'
    OBVIOUS
  <1>1. CASE MainCall
    BY <1>1, AddCallStep, MainQuietStep DEF MainCall
  <1>2. CASE MainInside
    BY <1>2, AddStep, MainQuietStep DEF MainInside
  <1>3. CASE \E w \in Workers : Worker(w)
    BY <1>3, WorkerQuietStep, TakeStep, RunStep, FinishStep, ExitStep DEF Worker
  <1>4. CASE Spurious
    BY <1>4, SpuriousStep
  <1>5. CASE UNCHANGED vars
    <2>1. TypeOK' /\ LockInv' /\ NoLostWakeup' /\ PhaseInv'
      BY <1>5 DEF vars, IInv, TypeOK, LockInv, NoLostWakeup, PhaseInv, PoolIdle
    <2>2. Counters' /\ Fifo' /\ OrderInv' /\ HeapInv'
      BY <1>5, QuietStep DEF vars, IInv, TypeOK, Linked
    <2> QED
      BY <2>1, <2>2 DEF IInv
  <1> QED
    BY <1>1, <1>2, <1>3, <1>4, <1>5 DEF Next, Terminated
-----------------------------------------------------------------------------
(* The invariant holds in every state of every behaviour.                  *)
THEOREM Invariance == Spec => []IInv
  <1> QED
    BY IInvInit, IInvStep, PTL DEF Spec

(* Every variable keeps its type; jc and tc, which are decremented, never  *)
(* become negative.                                                        *)
THEOREM TypeCorrect == Spec => []TypeOK
  <1>1. IInv => TypeOK
    BY DEF IInv
  <1> QED
    BY <1>1, Invariance, PTL

(* jc and tc count exactly what tpool_wait and tpool_destroy use them for. *)
THEOREM CountersExact == Spec => []Counters
  <1>1. IInv => Counters
    BY DEF IInv
  <1> QED
    BY <1>1, Invariance, PTL

(* No signal or broadcast is missed on any of the three conditions.        *)
THEOREM WakeupsKept == Spec => []NoLostWakeup
  <1>1. IInv => NoLostWakeup
    BY DEF IInv
  <1> QED
    BY <1>1, Invariance, PTL

(* Jobs run once each, in the order of the tpool_add calls.                *)
THEOREM FifoOrder == Spec => []Fifo
  <1>1. IInv => Fifo
    BY DEF IInv
  <1> QED
    BY <1>1, Invariance, PTL

(* When no worker is busy and the list is empty, everything added was run. *)
LEMMA NothingOutstanding ==
  ASSUME IInv, jc = 0, queue = <<>>, main \notin {"addLock", "add"}
  PROVE  Len(log) = added /\ heap = {}
  <1>1. Busy = {}
    <2>1. \A w \in Workers : w \notin Busy
      BY CounterFacts DEF IInv
    <2> QED
      BY <2>1 DEF Busy
  <1>2. Taken = Len(log) /\ Linked = added /\ Len(queue) = 0
    BY <1>1 DEF IInv, TypeOK, Taken, Linked, Busy
  <1>3. Len(log) = added
    BY <1>2 DEF IInv, TypeOK, OrderInv
  <1>4. (Taken + 1)..added = {}
    BY <1>2, <1>3 DEF IInv, TypeOK
  <1> QED
    BY <1>1, <1>3, <1>4 DEF IInv, HeapInv

(* tpool_destroy frees the pool only when no worker can touch it and no    *)
(* job is left.                                                            *)
THEOREM DestroyIsSafe == Spec => []DestroySafe
  <1>1. IInv => DestroySafe
    <2> SUFFICES ASSUME IInv, pool = "freed"
                 PROVE  /\ \A w \in Workers : pc[w] = "exited"
                        /\ Len(log) = added
                        /\ heap = {}
      BY DEF DestroySafe
    <2>1. main = "done" /\ tc = 0 /\ queue = <<>> /\ jc = 0
      BY DEF IInv, PhaseInv
    <2>2. \A w \in Workers : pc[w] = "exited"
      BY <2>1, CounterFacts DEF IInv
    <2> QED
      BY <2>1, <2>2, NothingOutstanding
  <1> QED
    BY <1>1, Invariance, PTL

(* tpool_wait returns only when every job submitted has been performed.    *)
THEOREM WaitIsSound == Spec => WaitSound
  <1>1. IInv /\ [Next]_vars => [main = "waitTest" /\ main' = "idle" => Len(log) = added /\ heap = {}]_vars
    <2> SUFFICES ASSUME IInv, Next, main = "waitTest", main' = "idle"
                 PROVE  Len(log) = added /\ heap = {}
      OBVIOUS
    <2>1. jc = 0 /\ queue = <<>>
      BY DEF Next, MainCall, MainInside, Create, AddCall, AddLock, Add, WaitCall,
             WaitLock, WaitSleep, WaitReturn, DestroyCall, DestroyLock, Shut,
             DestroySleep, DestroyRelock, DestroyJoined, Free, Worker,
             WorkerLock, WorkerSleep, WorkerTake, WorkerRun, WorkerRelock,
             WorkerFinish, WorkerExit, SignalB, SignalC, Spurious, SpuriousA,
             SpuriousB, SpuriousC, Terminated, vars, PoolIdle
    <2> QED
      BY <2>1, NothingOutstanding
  <1> QED
    BY <1>1, Invariance, PTL DEF Spec, WaitSound
-----------------------------------------------------------------------------
(* The refinement: WorkerRun is Perform, AddCall is Submit, WaitCall and   *)
(* WaitReturn open and close the wait, Free closes the service; every      *)
(* other step leaves the service as it is.                                 *)

LEMMA ServiceInit == Init => Service!JSInit
  BY DEF Init, Service!JSInit, Caller

LEMMA ServiceStep == IInv /\ [Next]_vars => [Service!JSNext]_(Service!jsvars)
  <1> SUFFICES ASSUME IInv, [Next]_vars
               PROVE  Service!JSNext \/ UNCHANGED Service!jsvars
    BY DEF Service!jsvars
  <1> USE DEF Service!jsvars, Caller
  <1>1. CASE MainCall
    BY <1>1 DEF MainCall, AddCall, WaitCall, DestroyCall, Service!JSNext,
                Service!Submit, Service!BeginWait
  <1>2. CASE WaitReturn
    <2>1. Len(log) = added /\ added \in Nat
      BY <1>2, NothingOutstanding DEF WaitReturn, PoolIdle, IInv, TypeOK
    <2> QED
      BY <1>2, <2>1 DEF WaitReturn, Service!JSNext, Service!EndWait, Service!Outstanding
  <1>3. CASE Free
    <2>1. Len(log) = added /\ added \in Nat
      BY <1>3, NothingOutstanding DEF Free, IInv, PhaseInv, TypeOK
    <2> QED
      BY <1>3, <2>1 DEF Free, Service!JSNext, Service!Close, Service!Outstanding
  <1>4. CASE MainInside /\ ~WaitReturn /\ ~Free
    BY <1>4 DEF MainInside, Create, AddLock, Add, WaitLock, WaitSleep, DestroyLock,
                Shut, DestroySleep, DestroyRelock, DestroyJoined
  <1>5. ASSUME NEW w \in Workers, WorkerRun(w)
        PROVE  Service!JSNext
    <2>1. job1[w] = Len(log) + 1
      BY <1>5 DEF WorkerRun, IInv, OrderInv
    <2>2. Taken = Len(log) + 1
      BY <1>5 DEF WorkerRun, Taken
    <2>3. Len(log) < added
      BY <2>2 DEF IInv, OrderInv, TypeOK, Linked
    <2> QED
      BY <1>5, <2>1, <2>3 DEF WorkerRun, Service!JSNext, Service!Perform, Service!Outstanding
  <1>6. ASSUME NEW w \in Workers, Worker(w), ~WorkerRun(w)
        PROVE  UNCHANGED Service!jsvars
    BY <1>6 DEF Worker, WorkerLock, WorkerSleep, WorkerTake, WorkerRelock,
                WorkerFinish, WorkerExit, SignalB, SignalC
  <1>7. CASE Spurious
    BY <1>7 DEF Spurious, SpuriousA, SpuriousB, SpuriousC
  <1>8. CASE UNCHANGED vars
    BY <1>8 DEF vars
  <1> QED
    BY <1>1, <1>2, <1>3, <1>4, <1>5, <1>6, <1>7, <1>8 DEF Next, Terminated

(* The pool implements the safety part of JobService.                      *)
THEOREM ImplementsServiceSafety == Spec => Service!JSSafety
  <1> QED
    BY ServiceInit, ServiceStep, Invariance, PTL DEF Spec, Service!JSSafety
=============================================================================
