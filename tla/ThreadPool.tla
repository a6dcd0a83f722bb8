----------------------------- MODULE ThreadPool -----------------------------
(***************************************************************************)
(* The thread pool of MultiThread/my_pool.c: n_threads workers running     *)
(* eachthread, one mutex (mylock), three condition variables (Acond: there *)
(* is a job or a shutdown; Bcond: the pool has become idle; Ccond: a       *)
(* worker has left) and the main program, which calls tpool_init,          *)
(* tpool_add, tpool_wait and tpool_destroy as testcases/*/main.c do.       *)
(*                                                                         *)
(* One action stands for the code between two points where another thread  *)
(* can get in: the acquisition of mylock, its release, a wait on a         *)
(* condition.  A job is its rank in the order of the tpool_add calls; the  *)
(* linked list head..tail is the sequence queue.                           *)
(*                                                                         *)
(* A definition with an underscore in its name (Add_Front, ...) is a       *)
(* deliberately wrong variant of the definition that follows it.  No       *)
(* specification uses them: they show that the properties can fail.        *)
(***************************************************************************)
EXTENDS Integers, Sequences, FiniteSets

CONSTANTS
  Workers,      \* the threads tpool_init creates
  Main,         \* the thread that calls the library
  Nobody,       \* "mylock is free"
  MaxJobs,      \* bound: tpool_add calls
  MaxSpurious   \* bound: spurious wake-ups of pthread_cond_wait

ASSUME WorkersAssumption ==
  /\ IsFiniteSet(Workers) /\ Workers # {}
  /\ Main \notin Workers /\ Nobody \notin Workers /\ Main # Nobody

ASSUME BoundsAssumption == MaxJobs \in Nat /\ MaxSpurious \in Nat

VARIABLES
  mylock,     \* the thread that holds the mutex, or Nobody
  queue,      \* the jobs from head to tail
  jc,         \* the counter of jobs taken and not yet accounted for
  tc,         \* the counter of workers
  shutdown,   \* 0 or 1
  pool,       \* "live", or "freed" by tpool_destroy
  heap,       \* the job nodes malloc'ed and not yet freed
  pc,         \* where each worker is
  job1,       \* eachthread's local variable (0: no job taken yet)
  main,       \* where the main thread is
  waited,     \* tpool_wait was main's last call
  added,      \* how many jobs main has made
  log,        \* history: the jobs whose function was called, in order
  spurious    \* spurious wake-ups so far

vars == <<mylock, queue, jc, tc, shutdown, pool, heap, pc, job1, main,
          waited, added, log, spurious>>

WorkerLocs == {"none", "lock", "test", "Acond", "run", "relock", "post",
               "exited"}
MainLocs == {"create", "idle", "addLock", "add", "waitLock", "waitTest",
             "Bcond", "destroyLock", "shut", "destroyTest", "Ccond",
             "rejoin", "free", "done"}

TypeOK ==
  /\ mylock \in Workers \cup {Main, Nobody}
  /\ queue \in Seq(Nat)
  /\ jc \in Nat /\ tc \in Nat
  /\ shutdown \in {0, 1}
  /\ pool \in {"live", "freed"}
  /\ heap \in SUBSET Nat
  /\ pc \in [Workers -> WorkerLocs]
  /\ job1 \in [Workers -> Nat]
  /\ main \in MainLocs
  /\ waited \in BOOLEAN
  /\ added \in Nat
  /\ log \in Seq(Nat)
  /\ spurious \in 0..MaxSpurious
-----------------------------------------------------------------------------
(* The mutex and the conditions.  A thread woken from a condition first    *)
(* has to get mylock again; for a worker that is the state it was in       *)
(* before its first test, since the loop of line 26 tests again.           *)

Acquire(t) == mylock = Nobody /\ mylock' = t

Release == mylock' = Nobody

BroadcastA ==
  pc' = [w \in Workers |-> IF pc[w] = "Acond" THEN "lock" ELSE pc[w]]

SignalB == main' = IF main = "Bcond" THEN "waitLock" ELSE main

SignalC == main' = IF main = "Ccond" THEN "rejoin" ELSE main

Goto(w, loc) == pc' = [pc EXCEPT ![w] = loc]
-----------------------------------------------------------------------------
(* tpool_init: the pool is complete before the first thread is created;    *)
(* the threads run as soon as they are created.                            *)

Init ==
  /\ mylock = Nobody
  /\ queue = <<>>
  /\ jc = 0
  /\ tc = Cardinality(Workers)
  /\ shutdown = 0
  /\ pool = "live"
  /\ heap = {}
  /\ pc = [w \in Workers |-> "none"]
  /\ job1 = [w \in Workers |-> 0]
  /\ main = "create"
  /\ waited = FALSE
  /\ added = 0
  /\ log = <<>>
  /\ spurious = 0

Create(w) ==
  /\ main = "create"
  /\ pc[w] = "none"
  /\ Goto(w, "lock")
  /\ main' = IF \A v \in Workers \ {w} : pc[v] # "none" THEN "idle" ELSE main
  /\ UNCHANGED <<mylock, queue, jc, tc, shutdown, pool, heap, job1, waited,
                 added, log, spurious>>
-----------------------------------------------------------------------------
(* eachthread.                                                             *)

WorkerLock(w) ==
  /\ pc[w] = "lock"
  /\ Acquire(w)
  /\ Goto(w, "test")
  /\ UNCHANGED <<queue, jc, tc, shutdown, pool, heap, job1, main, waited,
                 added, log, spurious>>

(* Lines 26-29: nothing to do, release mylock and sleep.                   *)
WorkerSleep(w) ==
  /\ pc[w] = "test"
  /\ shutdown = 0
  /\ queue = <<>>
  /\ Release
  /\ Goto(w, "Acond")
  /\ UNCHANGED <<queue, jc, tc, shutdown, pool, heap, job1, main, waited,
                 added, log, spurious>>

WorkerTake_NotCounted(w) ==
  /\ pc[w] = "test"
  /\ shutdown = 0
  /\ queue # <<>>
  /\ job1' = [job1 EXCEPT ![w] = Head(queue)]
  /\ queue' = Tail(queue)
  /\ Goto(w, "run")
  /\ UNCHANGED <<mylock, jc, tc, shutdown, pool, heap, main, waited, added,
                 log, spurious>>

(* Lines 36-48: unlink the first job and count it.                         *)
WorkerTake(w) ==
  /\ pc[w] = "test"
  /\ shutdown = 0
  /\ queue # <<>>
  /\ job1' = [job1 EXCEPT ![w] = Head(queue)]
  /\ queue' = Tail(queue)
  /\ jc' = jc + 1
  /\ Goto(w, "run")
  /\ UNCHANGED <<mylock, tc, shutdown, pool, heap, main, waited, added, log,
                 spurious>>

(* Lines 50-58: the job's function is called with mylock still held.       *)
WorkerRun(w) ==
  /\ pc[w] = "run"
  /\ log' = Append(log, job1[w])
  /\ Release
  /\ Goto(w, "relock")
  /\ UNCHANGED <<queue, jc, tc, shutdown, pool, heap, job1, main, waited,
                 added, spurious>>

WorkerRelock(w) ==
  /\ pc[w] = "relock"
  /\ Acquire(w)
  /\ Goto(w, "post")
  /\ UNCHANGED <<queue, jc, tc, shutdown, pool, heap, job1, main, waited,
                 added, log, spurious>>

WorkerFinish_NoSignal(w) ==
  /\ pc[w] = "post"
  /\ heap' = heap \ {job1[w]}
  /\ jc' = jc - 1
  /\ Release
  /\ Goto(w, "lock")
  /\ UNCHANGED <<queue, tc, shutdown, pool, job1, main, waited, added, log,
                 spurious>>

(* Lines 63-97: free the job, uncount it, and tell a tpool_wait when the   *)
(* pool has become idle.                                                   *)
WorkerFinish(w) ==
  /\ pc[w] = "post"
  /\ heap' = heap \ {job1[w]}
  /\ jc' = jc - 1
  /\ IF jc' = 0 /\ queue = <<>> THEN SignalB ELSE UNCHANGED main
  /\ Release
  /\ Goto(w, "lock")
  /\ UNCHANGED <<queue, tc, shutdown, pool, job1, waited, added, log,
                 spurious>>

(* Lines 31-34 and 102-104: shutdown, whatever the queue holds.            *)
WorkerExit(w) ==
  /\ pc[w] = "test"
  /\ shutdown = 1
  /\ tc' = tc - 1
  /\ SignalC
  /\ Release
  /\ Goto(w, "exited")
  /\ UNCHANGED <<queue, jc, shutdown, pool, heap, job1, waited, added, log,
                 spurious>>

Worker(w) ==
  \/ WorkerLock(w) \/ WorkerSleep(w) \/ WorkerTake(w) \/ WorkerRun(w)
  \/ WorkerRelock(w) \/ WorkerFinish(w) \/ WorkerExit(w)
-----------------------------------------------------------------------------
(* tpool_add.                                                              *)

AddCall ==
  /\ main = "idle"
  /\ added < MaxJobs
  /\ added' = added + 1
  /\ heap' = heap \cup {added + 1}
  /\ waited' = FALSE
  /\ main' = "addLock"
  /\ UNCHANGED <<mylock, queue, jc, tc, shutdown, pool, pc, job1, log,
                 spurious>>

AddLock ==
  /\ main = "addLock"
  /\ Acquire(Main)
  /\ main' = "add"
  /\ UNCHANGED <<queue, jc, tc, shutdown, pool, heap, pc, job1, waited, added,
                 log, spurious>>

Add_Front ==
  /\ main = "add"
  /\ queue' = <<added>> \o queue
  /\ BroadcastA
  /\ Release
  /\ main' = "idle"
  /\ UNCHANGED <<jc, tc, shutdown, pool, heap, job1, waited, added, log,
                 spurious>>

Add_NoBroadcast ==
  /\ main = "add"
  /\ queue' = Append(queue, added)
  /\ Release
  /\ main' = "idle"
  /\ UNCHANGED <<jc, tc, shutdown, pool, heap, pc, job1, waited, added, log,
                 spurious>>

(* Lines 142-153: link the job at the tail and wake every sleeping worker. *)
Add ==
  /\ main = "add"
  /\ queue' = Append(queue, added)
  /\ BroadcastA
  /\ Release
  /\ main' = "idle"
  /\ UNCHANGED <<jc, tc, shutdown, pool, heap, job1, waited, added, log,
                 spurious>>
-----------------------------------------------------------------------------
(* tpool_wait.                                                             *)

WaitCall ==
  /\ main = "idle"
  /\ main' = "waitLock"
  /\ UNCHANGED <<mylock, queue, jc, tc, shutdown, pool, heap, pc, job1, waited,
                 added, log, spurious>>

WaitLock ==
  /\ main = "waitLock"
  /\ Acquire(Main)
  /\ main' = "waitTest"
  /\ UNCHANGED <<queue, jc, tc, shutdown, pool, heap, pc, job1, waited, added,
                 log, spurious>>

PoolIdle_QueueOnly == queue = <<>>

(* con3 and con4: no job is counted and none is queued.                    *)
PoolIdle == jc = 0 /\ queue = <<>>

WaitSleep ==
  /\ main = "waitTest"
  /\ ~PoolIdle
  /\ Release
  /\ main' = "Bcond"
  /\ UNCHANGED <<queue, jc, tc, shutdown, pool, heap, pc, job1, waited, added,
                 log, spurious>>

WaitReturn ==
  /\ main = "waitTest"
  /\ PoolIdle
  /\ Release
  /\ main' = "idle"
  /\ waited' = TRUE
  /\ UNCHANGED <<queue, jc, tc, shutdown, pool, heap, pc, job1, added, log,
                 spurious>>
-----------------------------------------------------------------------------
(* tpool_destroy, which the assignment promises follows a tpool_wait       *)
(* directly, and the wait2 it calls first.                                 *)

DestroyCall ==
  /\ main = "idle"
  /\ waited
  /\ main' = "destroyLock"
  /\ UNCHANGED <<mylock, queue, jc, tc, shutdown, pool, heap, pc, job1, waited,
                 added, log, spurious>>

DestroyLock ==
  /\ main = "destroyLock"
  /\ Acquire(Main)
  /\ main' = "shut"
  /\ UNCHANGED <<queue, jc, tc, shutdown, pool, heap, pc, job1, waited, added,
                 log, spurious>>

Shut_NoBroadcast ==
  /\ main = "shut"
  /\ shutdown' = 1
  /\ main' = "destroyTest"
  /\ UNCHANGED <<mylock, queue, jc, tc, pool, heap, pc, job1, waited, added,
                 log, spurious>>

Shut ==
  /\ main = "shut"
  /\ shutdown' = 1
  /\ BroadcastA
  /\ main' = "destroyTest"
  /\ UNCHANGED <<mylock, queue, jc, tc, pool, heap, job1, waited, added, log,
                 spurious>>

DestroySleep ==
  /\ main = "destroyTest"
  /\ tc # 0
  /\ Release
  /\ main' = "Ccond"
  /\ UNCHANGED <<queue, jc, tc, shutdown, pool, heap, pc, job1, waited, added,
                 log, spurious>>

DestroyRelock_Once ==
  /\ main = "rejoin"
  /\ mylock = Nobody
  /\ main' = "free"
  /\ UNCHANGED <<mylock, queue, jc, tc, shutdown, pool, heap, pc, job1, waited,
                 added, log, spurious>>

DestroyRelock ==
  /\ main = "rejoin"
  /\ Acquire(Main)
  /\ main' = "destroyTest"
  /\ UNCHANGED <<queue, jc, tc, shutdown, pool, heap, pc, job1, waited, added,
                 log, spurious>>

DestroyJoined ==
  /\ main = "destroyTest"
  /\ tc = 0
  /\ Release
  /\ main' = "free"
  /\ UNCHANGED <<queue, jc, tc, shutdown, pool, heap, pc, job1, waited, added,
                 log, spurious>>

(* Lines 243-248: without mylock, which is destroyed with the rest.        *)
Free ==
  /\ main = "free"
  /\ pool' = "freed"
  /\ main' = "done"
  /\ UNCHANGED <<mylock, queue, jc, tc, shutdown, heap, pc, job1, waited, added,
                 log, spurious>>

(* The program decides to call the library ...                             *)
MainCall == AddCall \/ WaitCall \/ DestroyCall

(* ... and the library goes on with the call.                              *)
MainInside ==
  \/ \E w \in Workers : Create(w)
  \/ AddLock \/ Add
  \/ WaitLock \/ WaitSleep \/ WaitReturn
  \/ DestroyLock \/ Shut \/ DestroySleep \/ DestroyRelock \/ DestroyJoined
  \/ Free
-----------------------------------------------------------------------------
(* POSIX lets pthread_cond_wait return without a signal.                   *)

SpuriousA(w) ==
  /\ pc[w] = "Acond"
  /\ Goto(w, "lock")
  /\ UNCHANGED main

SpuriousB ==
  /\ main = "Bcond"
  /\ main' = "waitLock"
  /\ UNCHANGED pc

SpuriousC ==
  /\ main = "Ccond"
  /\ main' = "rejoin"
  /\ UNCHANGED pc

Spurious ==
  /\ spurious < MaxSpurious
  /\ spurious' = spurious + 1
  /\ (\E w \in Workers : SpuriousA(w)) \/ SpuriousB \/ SpuriousC
  /\ UNCHANGED <<mylock, queue, jc, tc, shutdown, pool, heap, job1, waited,
                 added, log>>

(* The program is over: the main thread is done with the pool.             *)
Terminated ==
  /\ main = "done"
  /\ UNCHANGED vars

Next == MainCall \/ MainInside \/ (\E w \in Workers : Worker(w)) \/ Spurious \/ Terminated

Spec == Init /\ [][Next]_vars

(* A thread inside the library that can go on does: nothing is assumed of  *)
(* the order in which mylock is given to the threads that ask for it, nor  *)
(* that the program makes another call.                                    *)
FairSpec ==
  /\ Spec
  /\ WF_vars(MainInside)
  /\ \A w \in Workers : WF_vars(Worker(w))
-----------------------------------------------------------------------------
Busy == {w \in Workers : pc[w] \in {"run", "relock", "post"}}

Alive == {w \in Workers : pc[w] # "exited"}

(* jc and tc are read by other threads than those that change them, and    *)
(* tpool_wait and tpool_destroy decide on them: jc is exactly the number   *)
(* of workers between the unlinking of a job (line 47) and its release     *)
(* (line 66), tc the number of workers that may still touch the pool.      *)
Counters == jc = Cardinality(Busy) /\ tc = Cardinality(Alive)

(* No wake-up is lost: no worker sleeps on Acond while there is a job or a *)
(* shutdown to see, tpool_wait does not sleep on Bcond when the pool is    *)
(* idle, and tpool_destroy does not sleep on Ccond when all workers left.  *)
NoLostWakeup ==
  /\ (queue # <<>> \/ shutdown = 1) => \A w \in Workers : pc[w] # "Acond"
  /\ main = "Bcond" => ~PoolIdle
  /\ main = "Ccond" => tc # 0

(* Jobs are run in the order of the tpool_add calls, none twice, none      *)
(* skipped, although any worker may take any of them.                      *)
Fifo == \A i \in 1..Len(log) : log[i] = i

(* When tpool_destroy gives the pool's memory back no worker will touch it *)
(* again, no job was left behind and every job node has been freed.        *)
DestroySafe ==
  pool = "freed" =>
    /\ \A w \in Workers : pc[w] = "exited"
    /\ Len(log) = added
    /\ heap = {}

(* tpool_wait comes back only when every job submitted before has been run *)
(* to its end and its node freed, even one a worker has already unlinked.  *)
WaitSound ==
  [][main = "waitTest" /\ main' = "idle" => Len(log) = added /\ heap = {}]_vars

(* Every submitted job is eventually run.                                  *)
EveryJobRuns ==
  \A j \in 1..MaxJobs : (added >= j) ~> (\E i \in DOMAIN log : log[i] = j)

(* tpool_wait eventually comes back.                                       *)
WaitReturns == (main = "waitLock") ~> (main = "idle")

(* tpool_destroy eventually comes back.                                    *)
DestroyReturns == (main = "destroyLock") ~> (main = "done")
-----------------------------------------------------------------------------
(* The inductive invariant: why the properties above hold.                 *)

(* Who is between an acquisition of mylock and its release.                *)
LockInv ==
  /\ \A w \in Workers : mylock = w <=> pc[w] \in {"test", "run", "post"}
  /\ mylock = Main <=> main \in {"add", "waitTest", "shut", "destroyTest"}

(* The jobs unlinked from the list, and those linked to it so far.         *)
Taken == Len(log) + IF \E w \in Workers : pc[w] = "run" THEN 1 ELSE 0

Linked == IF main \in {"addLock", "add"} THEN added - 1 ELSE added

(* The jobs are, in order: performed, being run, queued, about to be       *)
(* linked; two workers never account for the same job.                     *)
OrderInv ==
  /\ Taken + Len(queue) = Linked
  /\ \A i \in 1..Len(queue) : queue[i] = Taken + i
  /\ \A w \in Workers : pc[w] = "run" => job1[w] = Len(log) + 1
  /\ \A w \in Workers : pc[w] \in {"relock", "post"} => job1[w] \in 1..Len(log)
  /\ \A v, w \in Busy : job1[v] = job1[w] => v = w

(* The nodes allocated are those of the jobs not taken and of busy workers.*)
HeapInv == heap = (Taken + 1)..added \cup {job1[w] : w \in Busy}

(* What the main thread knows once tpool_wait has come back.               *)
PhaseInv ==
  /\ shutdown = 1 <=> main \in {"destroyTest", "Ccond", "rejoin", "free", "done"}
  /\ waited => queue = <<>> /\ jc = 0 /\ main \notin {"addLock", "add"}
  /\ main \in {"destroyLock", "shut"} \/ shutdown = 1 => waited
  /\ main \in {"free", "done"} => tc = 0
  /\ pool = "freed" => main = "done"

(* Each conjunct needs the others: Counters makes jc = 0 mean that no      *)
(* worker holds a job, LockInv that one job at most is being run, OrderInv *)
(* and HeapInv that nothing is outstanding then.                           *)
IInv ==
  /\ TypeOK /\ LockInv /\ Counters /\ NoLostWakeup /\ Fifo
  /\ OrderInv /\ HeapInv /\ PhaseInv
-----------------------------------------------------------------------------
(* The pool implements JobService.                                         *)

Caller ==
  CASE main \in {"waitLock", "waitTest", "Bcond"} -> "waiting"
    [] main = "done" -> "closed"
    [] OTHER -> "free"

Service == INSTANCE JobService
  WITH submitted <- added, performed <- log, caller <- Caller

(* Seen through the number of submitted jobs, the log of performed ones    *)
(* and the caller's call, every behaviour of the pool is one of JobService.*)
ImplementsService == Service!JSSpec
=============================================================================
