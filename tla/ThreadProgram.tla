--------------------------- MODULE ThreadProgram ----------------------------
(***************************************************************************)
(* The program of UserLevelThreadLibrary: main.c creates up to four        *)
(* threads, fibonacci (id 0), factorial (1) and two bank operations (2 and *)
(* 3), and the scheduler runs them; the threads are those of threads.c.    *)
(* Each action is one step of a thread together with the call of a macro   *)
(* that ends it, whose definition is that of ThreadTools; sleep(1) only    *)
(* lets signals arrive, which they may do between any two steps.           *)
(***************************************************************************)
EXTENDS ThreadTools

CONSTANTS
  LoopArgs,     \* values of fib_arg and fact_arg on the command line
  BankArgs,     \* values of bank1_arg and bank2_arg
  INT_MAX       \* of an int of w bits: 2^(w - 1) - 1

(* An int that overflows wraps around, as in the unoptimised build.        *)
IntMin == -INT_MAX - 1
Ints == IntMin..INT_MAX
Wrap(n) == ((n - IntMin) % (2 * (INT_MAX + 1))) + IntMin

ASSUME ProgramAssumption ==
  /\ INT_MAX \in Nat /\ INT_MAX >= 500
  /\ Threads = 0..3 /\ LoopArgs \subseteq Ints /\ BankArgs \subseteq Ints

FIB == 0
FACT == 1
Banks == {2, 3}

VARIABLES
  arg,       \* the four arguments
  id,        \* the thread init_threads considers next, 4 after the last
  balance,   \* bank.balance
  iter,      \* RUNNING->i of fibonacci and RUNNING->i2 of factorial
  x, y, z,   \* the variables of the computations, kept in the TCB
  step       \* where each bank operation is

progvars == <<arg, id, balance, iter, x, y, z, step>>
allvars == <<ttvars, progvars>>

ProgramTypeOK ==
  /\ TypeOK
  /\ arg \in [0..3 -> LoopArgs \cup BankArgs]
  /\ id \in 0..4
  /\ balance \in Ints
  /\ iter \in [{FIB, FACT} -> Nat \ {0}]
  /\ x \in Ints /\ y \in Ints /\ z \in Ints
  /\ step \in [Banks -> {"start", "locked", "update", "release", "exit"}]

ProgramInit ==
  /\ Init
  /\ arg \in [0..3 -> LoopArgs \cup BankArgs]
  /\ \A t \in {FIB, FACT} : arg[t] \in LoopArgs
  /\ \A t \in Banks : arg[t] \in BankArgs
  /\ id = 0
  /\ balance = 500
  /\ iter = [t \in {FIB, FACT} |-> 1]
  /\ x = 1 /\ y = 1 /\ z = 1
  /\ step = [b \in Banks |-> "start"]
-----------------------------------------------------------------------------
(* init_threads: lines 56-63, in this order.                               *)

Wanted(t) == IF t \in Banks THEN arg[t] # 0 ELSE arg[t] > 0

CreateThread ==
  /\ id < 4
  /\ IF Wanted(id) THEN Create(id) ELSE UNCHANGED ttvars
  /\ id' = id + 1
  /\ UNCHANGED <<arg, balance, iter, x, y, z, step>>

StartProgram ==
  /\ id = 4
  /\ StartThreading
  /\ UNCHANGED progvars
-----------------------------------------------------------------------------
(* fibonacci and factorial: one iteration, then exit or yield; i++ follows *)
(* the yield.                                                              *)

IterationEnds(t) ==
  /\ IF iter[t] = arg[t] THEN Exit ELSE Yield
  /\ iter' = IF iter[t] = arg[t] THEN iter ELSE [iter EXCEPT ![t] = @ + 1]

FibonacciStep_NoTmp ==
  /\ RUNNING = FIB
  /\ y' = IF iter[FIB] <= 2 THEN 1 ELSE Wrap(x + y)
  /\ x' = IF iter[FIB] <= 2 THEN 1 ELSE y'
  /\ IterationEnds(FIB)
  /\ UNCHANGED <<arg, id, balance, z, step>>

FibonacciStep ==
  /\ RUNNING = FIB
  /\ y' = IF iter[FIB] <= 2 THEN 1 ELSE Wrap(x + y)
  /\ x' = IF iter[FIB] <= 2 THEN 1 ELSE y
  /\ IterationEnds(FIB)
  /\ UNCHANGED <<arg, id, balance, z, step>>

FactorialStep ==
  /\ RUNNING = FACT
  /\ z' = Wrap((IF iter[FACT] = 1 THEN 1 ELSE z) * iter[FACT])
  /\ IterationEnds(FACT)
  /\ UNCHANGED <<arg, id, balance, x, y, step>>
-----------------------------------------------------------------------------
(* bank_operation.                                                         *)

Advance(b, from, to) == RUNNING = b /\ step[b] = from /\ step' = [step EXCEPT ![b] = to]

BankLock(b) ==
  /\ Advance(b, "start", "locked")
  /\ Lock
  /\ UNCHANGED <<arg, id, balance, iter, x, y, z>>

BankLocked(b) ==
  /\ Advance(b, "locked", "update")
  /\ Yield
  /\ UNCHANGED <<arg, id, balance, iter, x, y, z>>

Magnitude(n) == IF n < 0 THEN Wrap(-n) ELSE n

(* Mutant: a withdrawal happens although the balance does not cover it.    *)
Updated_Overdraw(money, n) == Wrap(money + n)

(* Lines 113-137: a withdrawal only happens when the balance covers it.    *)
(* (The abs() of INT_MIN is INT_MIN.)                                      *)
Updated(money, n) ==
  CASE n > 0 -> Wrap(money + n)
    [] n <= 0 /\ money >= Magnitude(n) -> Wrap(money - Magnitude(n))
    [] OTHER -> money

BankUpdate_Lost(b) ==
  /\ Advance(b, "update", "release")
  /\ Yield
  /\ UNCHANGED <<arg, id, balance, iter, x, y, z>>

BankUpdate(b) ==
  /\ Advance(b, "update", "release")
  /\ balance' = Updated(balance, arg[b])
  /\ Yield
  /\ UNCHANGED <<arg, id, iter, x, y, z>>

BankRelease_NoUnlock(b) ==
  /\ Advance(b, "release", "exit")
  /\ UNCHANGED <<ttvars, arg, id, balance, iter, x, y, z>>

BankRelease(b) ==
  /\ Advance(b, "release", "exit")
  /\ Unlock
  /\ UNCHANGED <<arg, id, balance, iter, x, y, z>>

BankExit(b) ==
  /\ RUNNING = b /\ step[b] = "exit"
  /\ Exit
  /\ UNCHANGED progvars

BankStep(b) ==
  BankLock(b) \/ BankLocked(b) \/ BankUpdate(b) \/ BankRelease(b) \/ BankExit(b)

(* What the process does, one thing at a time.                             *)
ProcessStep ==
  \/ CreateThread \/ StartProgram
  \/ FibonacciStep \/ FactorialStep \/ \E b \in Banks : BankStep(b)
  \/ scheduler /\ UNCHANGED progvars

ProgramNext ==
  \/ ProcessStep
  \/ (Kernel \/ Returned) /\ UNCHANGED progvars

ProgramSpec == ProgramInit /\ [][ProgramNext]_allvars

(* The process is never descheduled for good; signals may come or not.     *)
FairProgramSpec == ProgramSpec /\ WF_allvars(ProcessStep)
-----------------------------------------------------------------------------
(* A bank operation is between the return of lock() and unlock().          *)
InCriticalSection(b) ==
  \/ step[b] \in {"update", "release"}
  \/ step[b] = "locked" /\ b \notin Waiting /\ ~(at = "scheduler" /\ see = 2 /\ RUNNING = b)

(* lock() never tests the lock after it is resumed: it is right because    *)
(* the scheduler only resumes a thread it has made the owner.              *)
CriticalIffOwner == \A b \in Banks : InCriticalSection(b) <=> lock_owner = b

(* When the program ends both operations have been applied, one after the  *)
(* other, in one of the two orders.  There is no overdraft: the balance is  *)
(* only negative when the deposits overflow an int, or when the amount is   *)
(* INT_MIN, which has no positive abs() (threads.c 94).                     *)
Deposit(n) == IF n > 0 THEN n ELSE 0
Fits ==
  /\ IntMin \notin {arg[2], arg[3]}
  /\ 500 + Deposit(arg[2]) + Deposit(arg[3]) <= INT_MAX

BankSerial ==
  /\ at = "returned" =>
       balance \in {Updated(Updated(500, arg[2]), arg[3]), Updated(Updated(500, arg[3]), arg[2])}
  /\ Fits => balance >= 0

Fib[n \in Nat] == IF n <= 2 THEN 1 ELSE Fib[n - 1] + Fib[n - 2]
Factorial[n \in Nat] == IF n = 0 THEN 1 ELSE n * Factorial[n - 1]

(* What an iteration prints is right, however often other threads ran in   *)
(* between: y is FIB(i) and z is FACTORIAL(i) of the last iteration i, as  *)
(* far as they fit into an int, and modulo its range beyond.               *)
Iterations(t) == IF t \in finished THEN iter[t] ELSE iter[t] - 1

ResultsRight ==
  /\ Iterations(FIB) > 0 => y = Wrap(Fib[Iterations(FIB)])
  /\ z = Wrap(Factorial[Iterations(FACT)])

(* Every thread that is created finishes and main() gets control back,     *)
(* whatever signals arrive.                                                *)
AllFinish == <>[](at = "returned" /\ \A t \in Threads : Wanted(t) => t \in finished)
-----------------------------------------------------------------------------
(* The inductive invariant: who waits for the lock or is being queued for  *)
(* it has called lock(), a bank operation that has exited has released it, *)
(* the balance is what the operations that are done have made of it, and   *)
(* x is the number before y.                                               *)

Applied(b) == step[b] \in {"release", "exit"}

Callers == IF at = "scheduler" /\ see = 2 THEN {RUNNING} ELSE {}

LockUse ==
  /\ CriticalIffOwner
  /\ Waiting \cup Callers \subseteq {b \in Banks : step[b] = "locked"}
  /\ lock_owner \in Banks \cup {None}
  /\ \A b \in Banks \cap finished : step[b] = "exit"

Created ==
  /\ at # "main" => id = 4
  /\ tcbs = {t \in Threads : t < id /\ Wanted(t)}
  /\ at = "returned" => rq_size = 0 /\ wq_size = 0

BalanceExact ==
  LET first == Updated(500, arg[2])
      second == Updated(500, arg[3])
  IN CASE Applied(2) /\ Applied(3) -> balance \in {Updated(first, arg[3]), Updated(second, arg[2])}
       [] Applied(2) /\ ~Applied(3) -> balance = first
       [] ~Applied(2) /\ Applied(3) -> balance = second
       [] OTHER -> balance = 500

Computed ==
  /\ Iterations(FIB) \in Nat /\ Iterations(FACT) \in Nat
  /\ y = Wrap(Fib[Iterations(FIB)])
  /\ Iterations(FIB) > 0 => x = Wrap(Fib[Iterations(FIB) - 1])
  /\ z = Wrap(Factorial[Iterations(FACT)])

ProgramInv ==
  /\ ToolsInv /\ ProgramTypeOK
  /\ \A b \in Banks : arg[b] \in BankArgs
  /\ LockUse /\ Created /\ BalanceExact /\ Computed
=============================================================================
