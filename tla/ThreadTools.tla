---------------------------- MODULE ThreadTools -----------------------------
(***************************************************************************)
(* The user-level threads of UserLevelThreadLibrary: the macros of         *)
(* threadtools.h, the signal handler and the scheduler of scheduler.c, and *)
(* any program whose threads follow the life cycle that threadtools.h      *)
(* describes: created, then yield, lock and unlock as they like, then exit *)
(* without holding the lock.  ThreadProgram adds the threads of threads.c. *)
(*                                                                         *)
(* Everything runs in one process.  at says which code has the processor:  *)
(* main(), a thread (the one at ready_queue[rq_current], "RUNNING"), the   *)
(* scheduler, with the value see that sigsetjmp(sched_buf) returned, or    *)
(* nothing, after scheduler() returned.  SIGTSTP and SIGALRM are blocked   *)
(* but inside thread_yield, so a signal only becomes pending.              *)
(*                                                                         *)
(* A definition with an underscore in its name is a wrong variant of the   *)
(* one that follows it; no specification uses it.                          *)
(***************************************************************************)
EXTENDS Integers, FiniteSets

CONSTANTS
  Threads,     \* the threads the program may create, named by their id
  None,        \* the NULL pointer; for lock_owner, -1
  THREAD_MAX,  \* the length of ready_queue and waiting_queue
  Timeslice    \* timeslice: 0 means that the alarm is never set

(* threadtools.h line 67: no more threads than slots, no id used twice.    *)
ASSUME ThreadsAssumption ==
  /\ None \notin Threads
  /\ IsFiniteSet(Threads)
  /\ THREAD_MAX \in Nat /\ Cardinality(Threads) <= THREAD_MAX

ASSUME TimesliceAssumption == Timeslice \in Nat

Slots == 0..(THREAD_MAX - 1)

(* alarm(timeslice) sets an alarm; alarm(0) only cancels the one running.  *)
Timed == Timeslice > 0

VARIABLES
  ready_queue, rq_size, rq_current,
  waiting_queue, wq_size,
  lock_owner,
  tcbs,       \* the threads whose TCB was malloc'ed and not freed
  at, see,
  pending,    \* the signals pending
  alarmSet,   \* an alarm is running
  finished    \* history: the threads that called thread_exit

queues == <<ready_queue, rq_size, rq_current, waiting_queue, wq_size>>

ttvars == <<queues, lock_owner, tcbs, at, see, pending, alarmSet, finished>>

RUNNING == ready_queue[rq_current]

TypeOK ==
  /\ ready_queue \in [Slots -> Threads \cup {None}]
  /\ waiting_queue \in [Slots -> Threads \cup {None}]
  /\ rq_size \in 0..THREAD_MAX /\ wq_size \in 0..THREAD_MAX
  /\ rq_current \in Nat
  /\ lock_owner \in Threads \cup {None}
  /\ tcbs \in SUBSET Threads
  /\ at \in {"main", "thread", "scheduler", "returned"}
  /\ see \in 0..3
  /\ pending \in SUBSET {"TSTP", "ALRM"}
  /\ alarmSet \in BOOLEAN
  /\ finished \in SUBSET Threads
-----------------------------------------------------------------------------
(* main(): everything is zero or NULL, the lock is free (init_bank).       *)

Init ==
  /\ ready_queue = [i \in Slots |-> None] /\ rq_size = 0 /\ rq_current = 0
  /\ waiting_queue = [i \in Slots |-> None] /\ wq_size = 0
  /\ lock_owner = None
  /\ tcbs = {}
  /\ at = "main" /\ see = 0
  /\ pending = {} /\ alarmSet = FALSE
  /\ finished = {}

(* thread_create and thread_setup.                                         *)
Create(t) ==
  /\ at = "main"
  /\ t \notin tcbs
  /\ tcbs' = tcbs \cup {t}
  /\ ready_queue' = [ready_queue EXCEPT ![rq_size] = t]
  /\ rq_size' = rq_size + 1
  /\ UNCHANGED <<rq_current, waiting_queue, wq_size, lock_owner, at, see,
                 pending, alarmSet, finished>>

(* start_threading.                                                        *)
StartThreading ==
  /\ at = "main"
  /\ alarmSet' = Timed
  /\ at' = "scheduler" /\ see' = 0
  /\ UNCHANGED <<queues, lock_owner, tcbs, pending, finished>>
-----------------------------------------------------------------------------
(* The macros, called by the running thread.                               *)

JumpToScheduler(value) == at' = "scheduler" /\ see' = value

(* thread_yield without a pending signal: the thread goes on.              *)
YieldOn ==
  /\ at = "thread"
  /\ pending = {}
  /\ UNCHANGED ttvars

sighandler_NoReset(sig) ==
  /\ pending' = pending \ {sig}
  /\ UNCHANGED alarmSet
  /\ JumpToScheduler(1)

(* The handler of the signal that thread_yield unblocked.                  *)
sighandler(sig) ==
  /\ pending' = pending \ {sig}
  /\ alarmSet' = IF sig = "ALRM" THEN Timed ELSE alarmSet
  /\ JumpToScheduler(1)

(* thread_yield unblocks one signal only: SIGTSTP when both are pending.   *)
YieldCaught ==
  /\ at = "thread"
  /\ pending # {}
  /\ sighandler(IF "TSTP" \in pending THEN "TSTP" ELSE "ALRM")
  /\ UNCHANGED <<queues, lock_owner, tcbs, finished>>

Yield == YieldOn \/ YieldCaught

Lock ==
  /\ at = "thread"
  /\ lock_owner # RUNNING
  /\ JumpToScheduler(2)
  /\ UNCHANGED <<queues, lock_owner, tcbs, pending, alarmSet, finished>>

Unlock ==
  /\ at = "thread"
  /\ lock_owner' = IF lock_owner = RUNNING THEN None ELSE lock_owner
  /\ UNCHANGED <<queues, tcbs, at, see, pending, alarmSet, finished>>

Exit ==
  /\ at = "thread"
  /\ lock_owner # RUNNING
  /\ finished' = finished \cup {RUNNING}
  /\ JumpToScheduler(3)
  /\ UNCHANGED <<queues, lock_owner, tcbs, pending, alarmSet>>
-----------------------------------------------------------------------------
(* scheduler().                                                            *)

(* Lines 382-388: go back to main() or to the thread chosen.               *)
Resume ==
  /\ at' = IF rq_size' = 0 /\ wq_size' = 0 THEN "returned" ELSE "thread"
  /\ UNCHANGED <<see, tcbs, pending, alarmSet, finished>>

AppendTo(q, size, t) == [q EXCEPT ![size] = t]

FillHole_KeepLast(q, size, hole) == [q EXCEPT ![hole] = q[size - 1]]

(* Slot hole is emptied, the last thread moves there, its slot is emptied. *)
FillHole(q, size, hole) == [q EXCEPT ![hole] = q[size - 1], ![size - 1] = None]

(* Lines 121-128: the first thread leaves, the others move up.             *)
Shift(q, size) ==
  [i \in Slots |-> CASE i < size -> q[i + 1] [] i = size -> None [] OTHER -> q[i]]

AfterRemoval_Previous(size) == rq_current - 1

(* The place of the thread to run after the one at rq_current has left a   *)
(* queue of size threads: the one that fills its hole, or the first.       *)
AfterRemoval(size) == IF rq_current # size - 1 THEN rq_current ELSE 0

Start ==
  /\ see = 0
  /\ rq_current' = 0
  /\ UNCHANGED <<ready_queue, rq_size, waiting_queue, wq_size, lock_owner>>

MustHandOver_Always == wq_size > 0

MustHandOver_NotOnYield == see # 1 /\ wq_size > 0 /\ lock_owner = None

(* Lines 105-107: somebody waits for the lock and nobody has it.           *)
MustHandOver == wq_size > 0 /\ lock_owner = None

(* Lines 115-201: the first waiting thread gets the lock and the last      *)
(* place of the ready queue; then the caller is dealt with.                *)
HandOver ==
  /\ see # 0
  /\ MustHandOver
  /\ lock_owner' = waiting_queue[0]
  /\ LET ready == AppendTo(ready_queue, rq_size, waiting_queue[0])
         size == rq_size + 1
         waiting == Shift(waiting_queue, wq_size)
     IN \/ /\ see = 1
           /\ rq_current' = (rq_current + 1) % size
           /\ ready_queue' = ready /\ rq_size' = size
           /\ waiting_queue' = waiting /\ wq_size' = wq_size - 1
        \/ /\ see = 2
           /\ waiting_queue' = AppendTo(waiting, wq_size - 1, RUNNING)
           /\ ready_queue' = FillHole(ready, size, rq_current) /\ rq_size' = size - 1
           /\ UNCHANGED <<wq_size, rq_current>>
        \/ /\ see = 3
           /\ ready_queue' = FillHole(ready, size, rq_current) /\ rq_size' = size - 1
           /\ waiting_queue' = waiting /\ wq_size' = wq_size - 1
           /\ UNCHANGED rq_current

RunNext_Stay ==
  /\ see = 1
  /\ ~MustHandOver
  /\ UNCHANGED <<queues, lock_owner>>

RunNext_NoWrap ==
  /\ see = 1
  /\ ~MustHandOver
  /\ rq_current' = rq_current + 1
  /\ UNCHANGED <<ready_queue, rq_size, waiting_queue, wq_size, lock_owner>>

(* Lines 295-298 and 371-374: the next thread in the ready queue.          *)
RunNext ==
  /\ see = 1
  /\ ~MustHandOver
  /\ rq_current' = (rq_current + 1) % rq_size
  /\ UNCHANGED <<ready_queue, rq_size, waiting_queue, wq_size, lock_owner>>

(* Lines 334-338: the lock is free and nobody waits for it.                *)
GrantLock ==
  /\ see = 2
  /\ wq_size = 0 /\ lock_owner = None
  /\ lock_owner' = RUNNING
  /\ UNCHANGED queues

(* Lines 260-286 and 339-367: the caller of lock has to wait.              *)
MakeWait ==
  /\ see = 2
  /\ lock_owner # None
  /\ waiting_queue' = AppendTo(waiting_queue, wq_size, RUNNING)
  /\ wq_size' = wq_size + 1
  /\ ready_queue' = FillHole(ready_queue, rq_size, rq_current)
  /\ rq_size' = rq_size - 1
  /\ rq_current' = AfterRemoval(rq_size)
  /\ UNCHANGED lock_owner

(* Lines 231-258 and 307-330: the caller of thread_exit leaves.            *)
Remove ==
  /\ see = 3
  /\ ~MustHandOver
  /\ ready_queue' = FillHole(ready_queue, rq_size, rq_current)
  /\ rq_size' = rq_size - 1
  /\ rq_current' = AfterRemoval(rq_size)
  /\ UNCHANGED <<waiting_queue, wq_size, lock_owner>>

scheduler ==
  /\ at = "scheduler"
  /\ Start \/ HandOver \/ RunNext \/ GrantLock \/ MakeWait \/ Remove
  /\ Resume
-----------------------------------------------------------------------------
(* The kernel: ^Z or kill -TSTP at any time, and the alarm.                *)

SendTSTP ==
  /\ at # "returned"
  /\ pending' = pending \cup {"TSTP"}
  /\ UNCHANGED <<queues, lock_owner, tcbs, at, see, alarmSet, finished>>

AlarmFires ==
  /\ at # "returned"
  /\ alarmSet
  /\ alarmSet' = FALSE
  /\ pending' = pending \cup {"ALRM"}
  /\ UNCHANGED <<queues, lock_owner, tcbs, at, see, finished>>

Kernel == SendTSTP \/ AlarmFires

(* A jump through a NULL RUNNING is no step: the program stops there.      *)
ThreadStep == RUNNING # None /\ (Yield \/ Lock \/ Unlock \/ Exit)

Returned == at = "returned" /\ UNCHANGED ttvars

Next ==
  \/ \E t \in Threads : Create(t)
  \/ StartThreading \/ ThreadStep \/ scheduler \/ Kernel \/ Returned

Spec == Init /\ [][Next]_ttvars
-----------------------------------------------------------------------------
Elems(q, size) == {q[i] : i \in 0..(size - 1)}

(* The first size slots of q hold different threads, the others nothing.   *)
IsQueue(q, size) ==
  /\ q \in [Slots -> Threads \cup {None}]
  /\ size \in 0..THREAD_MAX
  /\ \A i \in Slots : q[i] # None <=> i < size
  /\ \A i, j \in 0..(size - 1) : q[i] = q[j] => i = j

Ready == Elems(ready_queue, rq_size)
Waiting == Elems(waiting_queue, wq_size)

(* The threads that exist; one that called thread_exit does so until the   *)
(* scheduler has removed it.                                               *)
Live ==
  (tcbs \ finished) \cup IF at = "scheduler" /\ see = 3 THEN {RUNNING} ELSE {}

(* No thread is lost and none is duplicated by the moves between the two   *)
(* arrays, with no hole and nothing left behind the last thread.           *)
QueuesSound ==
  /\ IsQueue(ready_queue, rq_size)
  /\ IsQueue(waiting_queue, wq_size)
  /\ Ready \cap Waiting = {}
  /\ Ready \cup Waiting = Live

(* The scheduler never jumps through a NULL RUNNING and the arrays are     *)
(* never indexed past their end: a thread that runs exists, and a thread   *)
(* that waits leaves room for the slot the shift clears.                   *)
RunningValid ==
  at = "thread" \/ (at = "scheduler" /\ see # 0) =>
    rq_current < rq_size /\ wq_size < THREAD_MAX

(* Whenever the scheduler gives the processor away while threads wait for  *)
(* the lock, a thread that is ready to run has it: the line always moves   *)
(* on, and never are all threads waiting.                                  *)
LineMoves ==
  [][at = "scheduler" /\ at' # "scheduler" /\ wq_size' > 0
       => lock_owner' \in Ready']_ttvars

(* Time slicing never stops: from start_threading on an alarm is running,  *)
(* or has fired and will be caught by the next thread_yield.               *)
AlarmAlive ==
  Timed /\ at \in {"thread", "scheduler"} => alarmSet \/ "ALRM" \in pending

(* A caught signal takes the processor away from the thread that yielded,  *)
(* whenever another thread is ready to run or becomes so.                  *)
YieldSwitches ==
  [][at = "scheduler" /\ see = 1 /\ at' = "thread" /\ rq_size' > 1
       => ready_queue'[rq_current'] # RUNNING]_ttvars

(* The lock is served in the order in which threads asked for it.          *)
Line == [i \in 1..wq_size |-> waiting_queue[i - 1]]

LockService == INSTANCE FifoLock
  WITH Clients <- Threads, Free <- None, holder <- lock_owner, waiters <- Line

ImplementsFifoLock == LockService!FLSpec

-----------------------------------------------------------------------------
(* The inductive invariant.  The sizes add up to the number of threads, so *)
(* no array overflows; the holder is ready, so a caller of lock or         *)
(* thread_exit that has to go leaves the holder behind to run.             *)

CallerSound ==
  /\ at = "main" \/ (at = "scheduler" /\ see = 0) =>
       rq_current = 0 /\ see = 0 /\ wq_size = 0 /\ lock_owner = None /\ finished = {}
  /\ at = "scheduler" /\ see \in {2, 3} => lock_owner # RUNNING
  /\ at = "scheduler" /\ see = 3 => RUNNING \in finished

HolderReady == lock_owner # None => lock_owner \in Ready

SizesSound ==
  /\ finished \subseteq tcbs
  /\ rq_size + wq_size = Cardinality(Live)

ToolsInv ==
  /\ TypeOK /\ QueuesSound /\ RunningValid /\ AlarmAlive
  /\ CallerSound /\ HolderReady /\ SizesSound
=============================================================================
